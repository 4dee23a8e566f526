---------------------------- MODULE RequestsProofs ----------------------------
(***************************************************************************)
(* Proofs about Agps, Ni, Odcpi and MsgTask, for all handles, clients,     *)
(* notifications, senders, configurations and bounds, and whatever the     *)
(* framework, the WDS library and the modem do.                            *)
(*                                                                         *)
(* A notification passes from a session to the thread that has left the    *)
(* session, and from there to the modem.  It is in one of these places at  *)
(* most, which none of the steps sees as a whole: the session's thread     *)
(* takes the request without looking whether there is one, and cleans up   *)
(* without the lock.                                                       *)
(***************************************************************************)
EXTENDS Agps, Ni, Odcpi, MsgTask, FiniteSetTheorems, TLAPS

-----------------------------------------------------------------------------
(***************************************************************************)
(* Data connections.                                                       *)
(***************************************************************************)
\* Queues of a given kind of element under the operations of the actions.
LEMMA AppendType ==
  ASSUME NEW S, NEW q \in Seq(S), NEW x \in S
  PROVE  Append(q, x) \in Seq(S)
OBVIOUS

LEMMA TailType ==
  ASSUME NEW S, NEW q \in Seq(S), q # <<>>
  PROVE  Tail(q) \in Seq(S)
OBVIOUS

\* The tables the events compute keep their types.
LEMMA TablesType ==
  ASSUME TypeOK
  PROVE  /\ \A h \in Handles : Added(h) \in [Handles -> SubStates]
         /\ \A h \in Handles : Inactivated(h) \in [Handles -> SubStates]
         /\ \A S : Without(S) \in [Handles -> SubStates]
         /\ \A S : ToldOpen(S) \in [Handles -> AtlStates]
         /\ \A S, end : end \in {"idle", "refused"} =>
              ToldEnd(S, end) \in [Handles -> AtlStates]
BY DEF TypeOK, Added, Inactivated, Without, ToldOpen, ToldEnd, SubStates, AtlStates

\* The events of the machine keep the types of what they change, for any
\* requests cmds the framework still has to handle.
LEMMA EventsType ==
  ASSUME TypeOK, NEW cmds \in Seq(Commands), Released(cmds) \/ Denied(cmds)
  PROVE  /\ state' \in States
         /\ subs' \in [Handles -> SubStates]
         /\ atl' \in [Handles -> AtlStates]
         /\ toFw' \in Seq(Commands)
<1>1. CASE Ignored(cmds)
  BY <1>1 DEF Ignored, TypeOK
<1>2. CASE ReleasingEnds(cmds)
  <2>1. Append(cmds, "REQUEST") \in Seq(Commands)
    BY AppendType DEF Commands
  <2> QED  BY <1>2, <2>1, TablesType DEF ReleasingEnds, States
<1>3. CASE EverybodyEnds("idle", cmds) \/ EverybodyEnds("refused", cmds)
  BY <1>3, TablesType DEF EverybodyEnds, States
<1> QED  BY <1>1, <1>2, <1>3 DEF Released, Denied

\* Every variable keeps its type, in every behaviour of the machine.
THEOREM AgpsTypeCorrect == Spec => []TypeOK
<1>1. Init => TypeOK
  <2> SUFFICES ASSUME Init PROVE TypeOK
    OBVIOUS
  <2>1. subs \in [Handles -> SubStates] /\ atl \in [Handles -> AtlStates]
    BY DEF Init, SubStates, AtlStates
  <2>2. toFw \in Seq(Commands) /\ fromFw \in Seq(Answers)
    BY DEF Init
  <2>3. state \in States /\ wds \in Nat /\ connected \in BOOLEAN
    BY DEF Init, States
  <2>4. ssrs \in 0 .. MaxSsr
    <3>1. MaxSsr \in Nat
      BY BoundsAssumption
    <3> QED  BY <3>1 DEF Init
  <2> QED  BY <2>1, <2>2, <2>3, <2>4 DEF TypeOK
<1>2. TypeOK /\ [Next]_vars => TypeOK'
  <2> SUFFICES ASSUME TypeOK, [Next]_vars PROVE TypeOK'
    OBVIOUS
  <2>1. ASSUME NEW h \in Handles, RequestATL(h) PROVE TypeOK'
    <3>1. Append(toFw, "REQUEST") \in Seq(Commands)
      BY AppendType DEF TypeOK, Commands
    <3>2. subs' \in [Handles -> SubStates] /\ atl' \in [Handles -> AtlStates]
      BY <2>1, TablesType DEF RequestATL, TypeOK, AtlStates
    <3> QED  BY <2>1, <3>1, <3>2 DEF RequestATL, TypeOK, States
  <2>2. ASSUME NEW h \in Handles, ReleaseATL(h) PROVE TypeOK'
    <3>1. Append(toFw, "RELEASE") \in Seq(Commands)
      BY AppendType DEF TypeOK, Commands
    <3>2. subs' \in [Handles -> SubStates] /\ atl' \in [Handles -> AtlStates]
      BY <2>2, TablesType DEF ReleaseATL, TypeOK, AtlStates
    <3>3. /\ state' \in States /\ toFw' \in Seq(Commands)
          /\ UNCHANGED <<fromFw, wds, connected, ssrs>>
      BY <2>2, <3>1 DEF ReleaseATL, TypeOK, States
    <3> QED  BY <3>2, <3>3 DEF TypeOK
  <2>3. ASSUME NEW a, NextAnswer(a) PROVE fromFw' \in Seq(Answers)
    BY <2>3, TailType DEF NextAnswer, TypeOK
  <2>4. CASE HandleOpen
    <3>1. CASE UsesWds
      BY <2>4, <2>3, <3>1 DEF HandleOpen, TypeOK
    <3>2. CASE ~UsesWds
      BY <2>4, <2>3, <3>2, TablesType DEF HandleOpen, Granted, TypeOK, States
    <3> QED  BY <3>1, <3>2
  <2>5. CASE HandlePdnType
    BY <2>5, <2>3, TablesType DEF HandlePdnType, Granted, TypeOK, States
  <2>6. CASE HandleFailed
    BY <2>6, <2>3, EventsType DEF HandleFailed, TypeOK
  <2>7. CASE HandleClosed
    BY <2>7, <2>3, EventsType DEF HandleClosed, TypeOK
  <2>8. CASE FwRequest
    <3>1. /\ Append(fromFw, "open") \in Seq(Answers)
          /\ Append(fromFw, "failed") \in Seq(Answers)
      BY AppendType DEF TypeOK, Answers
    <3> QED  BY <2>8, <3>1, TailType DEF FwRequest, TypeOK
  <2>9. CASE FwBadApn
    <3>1. Tail(toFw) \in Seq(Commands)
      BY <2>9, TailType DEF FwBadApn, TypeOK
    <3> QED  BY <2>9, <3>1, EventsType DEF FwBadApn, TypeOK
  <2>10. CASE FwRelease
    <3>1. Append(fromFw, "closed") \in Seq(Answers)
      BY AppendType DEF TypeOK, Answers
    <3> QED  BY <2>10, <3>1, TailType DEF FwRelease, TypeOK
  <2>11. CASE PdnTypeFound
    <3>1. Append(fromFw, "pdn") \in Seq(Answers)
      BY AppendType DEF TypeOK, Answers
    <3> QED  BY <2>11, <3>1 DEF PdnTypeFound, TypeOK
  <2>12. CASE FwLost
    <3>1. Append(fromFw, "closed") \in Seq(Answers)
      BY AppendType DEF TypeOK, Answers
    <3> QED  BY <2>12, <3>1 DEF FwLost, TypeOK
  <2>13. CASE ModemRestart
    BY <2>13, BoundsAssumption DEF ModemRestart, TypeOK, AtlStates
  <2>14. CASE UNCHANGED vars
    BY <2>14 DEF vars, TypeOK
  <2> QED
    BY <2>1, <2>2, <2>4, <2>5, <2>6, <2>7, <2>8, <2>9, <2>10, <2>11, <2>12,
       <2>13, <2>14 DEF Next, Handle, Framework
<1> QED  BY <1>1, <1>2, PTL DEF Spec

-----------------------------------------------------------------------------
(***************************************************************************)
(* The list of subscribers, the state and the modem.                       *)
(***************************************************************************)
\* The event of the end of a release keeps list and state in step.
LEMMA ReleasingEndsKeepsList ==
  ASSUME TypeOK, NEW cmds, ReleasingEnds(cmds)
  PROVE  ListMatchesState'
BY DEF ReleasingEnds, ListMatchesState, Without, Active, InUse, TypeOK, SubStates

LEMMA EverybodyEndsKeepsList ==
  ASSUME NEW end, NEW cmds, EverybodyEnds(end, cmds)
  PROVE  ListMatchesState'
BY DEF EverybodyEnds, ListMatchesState, Without, Active, InUse

LEMMA EventsKeepList ==
  ASSUME TypeOK, ListMatchesState, NEW cmds, Released(cmds) \/ Denied(cmds)
  PROVE  ListMatchesState'
<1>1. CASE Ignored(cmds)
  BY <1>1 DEF Ignored, ListMatchesState
<1>2. CASE ReleasingEnds(cmds)
  BY <1>2, ReleasingEndsKeepsList
<1>3. CASE EverybodyEnds("idle", cmds) \/ EverybodyEnds("refused", cmds)
  BY <1>3, EverybodyEndsKeepsList
<1> QED  BY <1>1, <1>2, <1>3 DEF Released, Denied

LEMMA GrantedKeepsList ==
  ASSUME ListMatchesState, Granted
  PROVE  ListMatchesState'
BY DEF Granted, ListMatchesState

\* The comment of processAgpsEventReleased holds in every state: the list is
\* empty in RELEASED, and a connection is asked for or held only on behalf of
\* an active subscriber, whatever the framework answers and whenever.
THEOREM AgpsListMatchesState == Spec => []ListMatchesState
<1>1. Init => ListMatchesState
  BY DEF Init, ListMatchesState, InUse
<1>2. TypeOK /\ ListMatchesState /\ [Next]_vars => ListMatchesState'
  <2> SUFFICES ASSUME TypeOK, ListMatchesState, [Next]_vars
               PROVE  ListMatchesState'
    OBVIOUS
  <2>1. ASSUME NEW h \in Handles, RequestATL(h) PROVE ListMatchesState'
    BY <2>1 DEF RequestATL, Added, ListMatchesState, Active, InUse, TypeOK, SubStates
  <2>2. ASSUME NEW h \in Handles, ReleaseATL(h) PROVE ListMatchesState'
    <3>1. InUse(subs') # {}
      BY <2>2 DEF ReleaseATL, Inactivated, InUse, TypeOK
    <3>2. state # "RELEASED"
      BY <2>2 DEF ReleaseATL, ListMatchesState, InUse
    <3>3. CASE state \in {"PENDING", "ACQUIRED"} /\ Active(Inactivated(h)) = {}
      BY <2>2, <3>1, <3>3 DEF ReleaseATL, ListMatchesState
    <3>4. CASE ~(state \in {"PENDING", "ACQUIRED"} /\ Active(Inactivated(h)) = {})
      BY <2>2, <3>1, <3>2, <3>4 DEF ReleaseATL, ListMatchesState
    <3> QED  BY <3>3, <3>4
  <2>3. CASE HandleOpen
    BY <2>3, GrantedKeepsList DEF HandleOpen, ListMatchesState
  <2>4. CASE HandlePdnType
    BY <2>4, GrantedKeepsList DEF HandlePdnType
  <2>5. CASE HandleFailed
    BY <2>5, EventsKeepList DEF HandleFailed
  <2>6. CASE HandleClosed
    BY <2>6, EventsKeepList DEF HandleClosed
  <2>7. CASE FwBadApn
    BY <2>7, EventsKeepList DEF FwBadApn
  <2>8. CASE FwRequest \/ FwRelease \/ PdnTypeFound \/ FwLost \/ ModemRestart
    BY <2>8 DEF FwRequest, FwRelease, PdnTypeFound, FwLost, ModemRestart,
                ListMatchesState
  <2>9. CASE UNCHANGED vars
    BY <2>9 DEF vars, ListMatchesState
  <2> QED
    BY <2>1, <2>2, <2>3, <2>4, <2>5, <2>6, <2>7, <2>8, <2>9
       DEF Next, Handle, Framework
<1> QED  BY <1>1, <1>2, AgpsTypeCorrect, PTL DEF Spec

-----------------------------------------------------------------------------
(***************************************************************************)
(* Agreement with the modem.  A modem that restarts forgets its handles    *)
(* and the machine keeps them, so both theorems are about one that does    *)
(* not.  Agreement is inductive together with the list and the types.      *)
(***************************************************************************)
Inv == TypeOK /\ ListMatchesState /\ ModemAgrees

\* A grant opens exactly the handles that wait.
LEMMA GrantedOpens ==
  ASSUME Inv, Granted
  PROVE  /\ ModemAgrees'
         /\ [Atl!Next]_(Atl!vars)
<1>1. CASE state = "PENDING"
  <2>1. state' = "ACQUIRED" /\ subs' = subs /\ atl' = ToldOpen(Active(subs))
    BY <1>1 DEF Granted
  <2>2. atl' = [h \in Handles |-> IF atl[h] = "waiting" THEN "open" ELSE atl[h]]
    BY <1>1, <2>1 DEF Inv, ModemAgrees, ToldOpen, Active
  <2>3. ModemAgrees'
    BY <1>1, <2>1, <2>2 DEF Inv, ModemAgrees, TypeOK, SubStates, AtlStates
  <2>4. Atl!ComeUp
    BY <1>1, <2>1, <2>2 DEF Atl!ComeUp, Atl!Move
  <2> QED  BY <2>3, <2>4 DEF Atl!Next
<1>2. CASE state # "PENDING"
  BY <1>2 DEF Granted, Inv, ModemAgrees, Atl!vars
<1> QED  BY <1>1, <1>2

\* The end of a release closes exactly the handles that were given back.
LEMMA ReleasingEndsCloses ==
  ASSUME Inv, state = "RELEASING", NEW cmds, ReleasingEnds(cmds)
  PROVE  /\ ModemAgrees'
         /\ Atl!Next
<1>1. /\ subs' = [h \in Handles |-> IF subs[h] = "inactive" THEN "none" ELSE subs[h]]
      /\ atl' = [h \in Handles |-> IF atl[h] = "closing" THEN "idle" ELSE atl[h]]
      /\ state' \in {"PENDING", "RELEASED"}
  BY DEF ReleasingEnds, Inv, ModemAgrees, TypeOK, SubStates, AtlStates, Without,
         ToldEnd, Active, InUse
<1>2. ModemAgrees'
  BY <1>1 DEF Inv, ModemAgrees, TypeOK, SubStates, AtlStates
<1>3. Atl!Closed
  BY <1>1 DEF Atl!Closed, Atl!Move
<1> QED  BY <1>2, <1>3 DEF Atl!Next

\* The end of everybody's use leaves no handle waiting, open or closing.
LEMMA EverybodyEndsAll ==
  ASSUME Inv, NEW end \in {"idle", "refused"}, NEW cmds, EverybodyEnds(end, cmds)
  PROVE  /\ ModemAgrees'
         /\ state' = "RELEASED"
         /\ atl' = [h \in Handles |-> IF atl[h] \in {"waiting", "open", "closing"}
                                     THEN end ELSE atl[h]]
<1>1. subs' = [h \in Handles |-> "none"] /\ state' = "RELEASED"
  BY DEF EverybodyEnds, Without
<1>2. atl' = [h \in Handles |-> IF atl[h] \in {"waiting", "open", "closing"}
                               THEN end ELSE atl[h]]
  BY DEF EverybodyEnds, Inv, ModemAgrees, ToldEnd, InUse
<1>3. ModemAgrees'
  BY <1>1, <1>2 DEF ModemAgrees, Inv, TypeOK, AtlStates
<1> QED  BY <1>1, <1>2, <1>3

\* What a close or a denial does is a step, or nothing, of the abstract service.
LEMMA EventsRefine ==
  ASSUME Inv, NEW cmds, Released(cmds) \/ Denied(cmds)
  PROVE  /\ ModemAgrees'
         /\ [Atl!Next]_(Atl!vars)
<1>1. CASE Ignored(cmds)
  BY <1>1 DEF Ignored, Inv, ModemAgrees, Atl!vars
<1>2. CASE state = "RELEASING" /\ ReleasingEnds(cmds)
  BY <1>2, ReleasingEndsCloses
<1>3. CASE state = "ACQUIRED" /\ EverybodyEnds("idle", cmds)
  <2>1. ModemAgrees' /\ state' = "RELEASED"
    BY <1>3, EverybodyEndsAll
  <2>2. atl' = [h \in Handles |-> IF atl[h] \in {"open", "closing"}
                                 THEN "idle" ELSE atl[h]]
    BY <1>3, EverybodyEndsAll DEF Inv, ModemAgrees
  <2>3. Atl!GoDown
    BY <1>3, <2>1, <2>2 DEF Atl!GoDown, Atl!Move
  <2> QED  BY <2>1, <2>3 DEF Atl!Next
<1>4. CASE state = "PENDING" /\ EverybodyEnds("refused", cmds)
  <2>1. ModemAgrees' /\ state' = "RELEASED"
    BY <1>4, EverybodyEndsAll
  <2>2. atl' = [h \in Handles |-> IF atl[h] \in {"waiting", "closing"}
                                 THEN "refused" ELSE atl[h]]
    BY <1>4, EverybodyEndsAll DEF Inv, ModemAgrees
  <2>3. Atl!Refuse
    BY <1>4, <2>1, <2>2 DEF Atl!Refuse, Atl!Move
  <2> QED  BY <2>1, <2>3 DEF Atl!Next
<1> QED  BY <1>1, <1>2, <1>3, <1>4 DEF Released, Denied

LEMMA RequestRefines ==
  ASSUME Inv, NEW h \in Handles, RequestATL(h)
  PROVE  ModemAgrees' /\ Atl!Next
<1>1. subs[h] = "none"
  BY DEF RequestATL, Inv, ModemAgrees, TypeOK, SubStates
<1>2. subs' = [subs EXCEPT ![h] = "active"]
  BY <1>1 DEF RequestATL, Added, Inv, TypeOK
<1>3. /\ atl' = [atl EXCEPT ![h] = IF state = "ACQUIRED" THEN "open" ELSE "waiting"]
      /\ state' = "ACQUIRED" <=> state = "ACQUIRED"
  BY DEF RequestATL
<1>4. ModemAgrees'
  BY <1>2, <1>3 DEF Inv, ModemAgrees, TypeOK, SubStates, AtlStates
<1>5. Atl!Request(h)
  BY <1>3 DEF RequestATL, Atl!Request, Atl!Free
<1> QED  BY <1>4, <1>5 DEF Atl!Next

\* The connection is kept iff another handle is open.
LEMMA ReleaseRefines ==
  ASSUME Inv, NEW h \in Handles, ReleaseATL(h)
  PROVE  ModemAgrees' /\ Atl!Next
<1>1. /\ subs' = [subs EXCEPT ![h] = "inactive"]
      /\ atl' = [atl EXCEPT ![h] = "closing"]
  BY DEF ReleaseATL, Inactivated
<1>2. Active(Inactivated(h)) = {g \in Handles \ {h} : subs[g] = "active"}
  BY DEF Active, Inactivated, Inv, TypeOK
<1>3. (state' = "ACQUIRED") = (\E g \in Handles \ {h} : atl[g] = "open")
  <2>1. CASE state = "ACQUIRED"
    <3>1. (state' = "ACQUIRED") = (Active(Inactivated(h)) # {})
      BY <2>1 DEF ReleaseATL
    <3>2. \A g \in Handles : atl[g] = "open" <=> subs[g] = "active"
      BY <2>1 DEF Inv, ModemAgrees
    <3> QED  BY <1>2, <3>1, <3>2
  <2>2. CASE state # "ACQUIRED"
    <3>1. state' # "ACQUIRED"
      BY <2>2 DEF ReleaseATL
    <3> QED  BY <2>2, <3>1 DEF Inv, ModemAgrees
  <2> QED  BY <2>1, <2>2
<1>4. ModemAgrees'
  <2>1. CASE state' = "ACQUIRED"
    <3>1. state = "ACQUIRED"
      BY <2>1 DEF ReleaseATL
    <3> QED  BY <1>1, <2>1, <3>1 DEF Inv, ModemAgrees, TypeOK, SubStates, AtlStates
  <2>2. CASE state' # "ACQUIRED"
    <3>1. \A g \in Handles \ {h} : atl[g] # "open"
      BY <1>3, <2>2
    <3>2. \A g \in Handles \ {h} : atl[g] = "waiting" <=> subs[g] = "active"
      BY <3>1 DEF Inv, ModemAgrees
    <3> QED  BY <1>1, <2>2, <3>1, <3>2 DEF Inv, ModemAgrees, TypeOK
  <2> QED  BY <2>1, <2>2
<1>5. Atl!Release(h)
  BY <1>1, <1>3 DEF ReleaseATL, Atl!Release
<1> QED  BY <1>4, <1>5 DEF Atl!Next

\* Every step of the machine is one of the abstract service, or none.
LEMMA StepRefines ==
  ASSUME MaxSsr = 0, Inv, [Next]_vars
  PROVE  ModemAgrees' /\ [Atl!Next]_(Atl!vars)
<1>1. ASSUME NEW h \in Handles, RequestATL(h)
      PROVE  ModemAgrees' /\ [Atl!Next]_(Atl!vars)
  BY <1>1, RequestRefines
<1>2. ASSUME NEW h \in Handles, ReleaseATL(h)
      PROVE  ModemAgrees' /\ [Atl!Next]_(Atl!vars)
  BY <1>2, ReleaseRefines
<1>3. CASE HandleOpen
  <2>1. CASE UsesWds
    BY <1>3, <2>1 DEF HandleOpen, Inv, ModemAgrees, Atl!vars
  <2>2. CASE ~UsesWds
    BY <1>3, <2>2, GrantedOpens DEF HandleOpen
  <2> QED  BY <2>1, <2>2
<1>4. CASE HandlePdnType
  BY <1>4, GrantedOpens DEF HandlePdnType
<1>5. CASE HandleFailed
  BY <1>5, EventsRefine DEF HandleFailed
<1>6. CASE HandleClosed
  BY <1>6, EventsRefine DEF HandleClosed
<1>7. CASE FwBadApn
  BY <1>7, EventsRefine DEF FwBadApn
<1>8. CASE FwRequest \/ FwRelease \/ PdnTypeFound \/ FwLost
  BY <1>8 DEF FwRequest, FwRelease, PdnTypeFound, FwLost, Inv, ModemAgrees, Atl!vars
<1>9. CASE ModemRestart
  BY <1>9 DEF ModemRestart, Inv, TypeOK
<1>10. CASE UNCHANGED vars
  BY <1>10 DEF vars, Inv, ModemAgrees, Atl!vars
<1> QED
  BY <1>1, <1>2, <1>3, <1>4, <1>5, <1>6, <1>7, <1>8, <1>9, <1>10
     DEF Next, Handle, Framework

\* The modem and the machine agree on every handle as long as the modem does
\* not restart: a handle is open to the modem iff it is an active subscriber
\* of a connection that is held, and closing iff it is an inactive one.
THEOREM AgpsModemAgrees ==
  ASSUME MaxSsr = 0
  PROVE  Spec => []ModemAgrees
<1>1. Init => ModemAgrees
  BY DEF Init, ModemAgrees
<1>2. TypeOK /\ ListMatchesState /\ ModemAgrees /\ [Next]_vars => ModemAgrees'
  BY StepRefines DEF Inv
<1> QED  BY <1>1, <1>2, AgpsTypeCorrect, AgpsListMatchesState, PTL DEF Spec

\* Without its list, its requests and the answers under way the machine is the
\* service of AtlService: it serves everyone who waits when the connection
\* comes up, keeps it while any handle is open and never longer.
THEOREM AgpsImplementsAtl ==
  ASSUME MaxSsr = 0
  PROVE  Spec => AtlSpec
<1>1. Init => Atl!Init
  BY DEF Init, Atl!Init
<1>2. TypeOK /\ ListMatchesState /\ ModemAgrees /\ [Next]_vars
        => [Atl!Next]_(Atl!vars)
  BY StepRefines DEF Inv
<1> QED
  BY <1>1, <1>2, AgpsTypeCorrect, AgpsListMatchesState, AgpsModemAgrees, PTL
     DEF Spec, AtlSpec, Atl!Spec

-----------------------------------------------------------------------------
(***************************************************************************)
(* Notifications, and locations on demand.                                 *)
(***************************************************************************)
Open(n) == answers[n] = <<>> /\ n \notin freed
Held(n) == \E s \in Sessions : rawRequest[s] = n

NiInv ==
  /\ NiTypeOK
  /\ \A n \in Notifs : Len(answers[n]) <= 1 /\ (n \in freed => answers[n] = <<>>)
  /\ \A s \in Sessions : waiter[s] # "none" => rawRequest[s] # None
  /\ \A s \in Sessions : rawRequest[s] # None => Open(rawRequest[s])
  /\ rawRequest["plain"] = rawRequest["es"] => rawRequest["plain"] = None
  /\ \A t \in leaving : Open(t.n) /\ ~Held(t.n)
  /\ \A t, u \in leaving : t.n = u.n => t = u

LEMMA Grows ==
  ASSUME NEW S, NEW q \in Seq(S), NEW r \in S
  PROVE  /\ Append(q, r) \in Seq(S)
         /\ q = <<>> => Len(Append(q, r)) = 1
OBVIOUS

LEMMA ToldOnly ==
  ASSUME NiTypeOK, NEW n \in Notifs, NEW r \in Responses, Told(n, r)
  PROVE  /\ answers' \in [Notifs -> Seq(Responses)]
         /\ answers'[n] = Append(answers[n], r)
         /\ \A m \in Notifs \ {n} : answers'[m] = answers[m]
BY Grows DEF NiTypeOK, Told

LEMMA VerdictType ==
  ASSUME NEW type, NEW urgent, NEW override
  PROVE  Verdict(type, urgent, override) \in {"ask", "accept", "deny"}
BY DEF Verdict

LEMMA StoresType ==
  ASSUME NiTypeOK, NEW s \in Sessions, NEW r \in Responses
  PROVE  /\ IgnorePlain \in Seq(Sessions \X Responses)
         /\ (IF s = "es" /\ r = "accept" THEN IgnorePlain ELSE <<>>) \o <<<<s, r>>>>
              \in Seq(Sessions \X Responses)
<1> DEFINE p == <<"plain", "ignore">>
           e == <<s, r>>
<1>1. p \in Sessions \X Responses /\ e \in Sessions \X Responses
  BY DEF Sessions, Responses
<1> HIDE DEF p, e
<1>2. <<>> \in Seq(Sessions \X Responses) /\ <<p>> \in Seq(Sessions \X Responses)
      /\ <<e>> \in Seq(Sessions \X Responses)
  BY <1>1
<1>3. IgnorePlain \in Seq(Sessions \X Responses)
  BY <1>2 DEF IgnorePlain, p
<1>4. ASSUME NEW q \in Seq(Sessions \X Responses)
      PROVE  q \o <<e>> \in Seq(Sessions \X Responses)
  BY <1>2
<1> QED  BY <1>2, <1>3, <1>4 DEF e

\* A request that has arrived is in no other place.
LEMMA RequestTypes ==
  ASSUME NiTypeOK, NEW n \in Notifs, RequestNiNotify(n)
  PROVE  NiTypeOK'
<1>1. PICK type \in Types, urgent \in BOOLEAN, override \in BOOLEAN :
        \/ /\ Told(n, Verdict(type, urgent, override))
           /\ Verdict(type, urgent, override) # "ask"
           /\ UNCHANGED <<reqIDCounter, session, stores, freed>>
        \/ Ask(n, SessionOf(type)) /\ UNCHANGED <<answers, stores>>
        \/ AskNobody(n, type)
  BY DEF RequestNiNotify
<1>2. UNCHANGED <<listening, leaving, given>>
  BY DEF RequestNiNotify
<1>3. CASE /\ Told(n, Verdict(type, urgent, override))
           /\ Verdict(type, urgent, override) # "ask"
           /\ UNCHANGED <<reqIDCounter, session, stores, freed>>
  <2>1. Verdict(type, urgent, override) \in Responses
    BY <1>3, VerdictType DEF Responses, UserResponses
  <2> QED  BY <1>2, <1>3, <2>1, ToldOnly DEF NiTypeOK, session
<1>4. CASE Ask(n, SessionOf(type)) /\ UNCHANGED <<answers, stores>>
  BY <1>2, <1>4 DEF Ask, SessionOf, Sessions, session, NiTypeOK
<1>5. CASE AskNobody(n, type)
  <2>1. "accept" \in Responses /\ "es" \in Sessions
    BY DEF Responses, UserResponses, Sessions
  <2>2. answers' \in [Notifs -> Seq(Responses)] /\ stores' \in Seq(Sessions \X Responses)
    BY <1>5, <2>1, ToldOnly, StoresType DEF AskNobody, NiTypeOK
  <2> QED  BY <1>2, <1>5, <2>2 DEF AskNobody, session, NiTypeOK
<1> QED  BY <1>1, <1>3, <1>4, <1>5

LEMMA LeaveTypes ==
  ASSUME NiTypeOK, NEW s \in Sessions, NEW r \in Responses, Leave(s, r),
         rawRequest[s] # None
  PROVE  NiTypeOK'
<1>1. [s |-> s, n |-> rawRequest[s], resp |-> r] \in Leaving
  BY DEF NiTypeOK, Leaving
<1> QED  BY <1>1 DEF Leave, NiTypeOK, history

LEMMA EndTypes ==
  ASSUME NiTypeOK, NEW t \in leaving, ThreadEnds(t)
  PROVE  NiTypeOK'
<1>1. t \in Leaving
  BY DEF NiTypeOK
<1>2. t.s \in Sessions /\ t.n \in Notifs /\ t.resp \in Responses
  BY <1>1 DEF Leaving
<1>3. answers' \in [Notifs -> Seq(Responses)] /\ freed' \subseteq Notifs
  BY <1>2, ToldOnly DEF ThreadEnds, NiTypeOK
<1> QED  BY <1>2, <1>3 DEF ThreadEnds, NiTypeOK

LEMMA OtherTypes ==
  ASSUME NiTypeOK,
         \/ \E c \in NiClients, id \in 1 .. reqIDCounter, r \in UserResponses :
              GnssNiResponse(c, id, r)
         \/ Store
         \/ \E c \in NiClients : ClientChanges(c)
         \/ \E s \in Sessions : ThreadWaits(s)
  PROVE  NiTypeOK'
<1>1. ASSUME NEW c \in NiClients, NEW id \in 1 .. reqIDCounter, NEW r \in UserResponses,
             GnssNiResponse(c, id, r)
      PROVE  NiTypeOK'
  <2>1. r \in Responses
    BY DEF Responses
  <2>2. PICK s \in Sessions :
          /\ rawRequest[s] # None
          /\ stores' = (IF s = "es" /\ r = "accept" THEN IgnorePlain ELSE <<>>) \o <<<<s, r>>>>
          /\ given' = given \cup {<<rawRequest[s], r>>}
    BY <1>1 DEF GnssNiResponse
  <2>3. stores' \in Seq(Sessions \X Responses)
    BY <2>1, <2>2, StoresType
  <2>4. given' \subseteq Notifs \X UserResponses
    BY <2>2 DEF NiTypeOK
  <2> QED  BY <1>1, <2>3, <2>4 DEF GnssNiResponse, session, NiTypeOK
<1>2. CASE Store
  <2> DEFINE S == Sessions \X Responses
             e == Head(stores)
  <2>1. stores \in Seq(S) /\ stores # <<>>
    BY <1>2 DEF Store, NiTypeOK
  <2>2. e \in S /\ Tail(stores) \in Seq(S)
    <3> HIDE DEF S
    <3> QED  BY <2>1
  <2>3. e[1] \in Sessions /\ e[2] \in Responses
    <3> HIDE DEF e
    <3> QED  BY <2>2
  <2> HIDE DEF e
  <2>4. /\ resp' = [resp EXCEPT ![e[1]] = e[2]]
        /\ respRecvd' = [respRecvd EXCEPT ![e[1]] = TRUE]
        /\ stores' = Tail(stores)
        /\ UNCHANGED <<listening, reqIDCounter, rawRequest, reqID, waiter, leaving, history>>
    BY <1>2 DEF Store, e
  <2> QED  BY <2>2, <2>3, <2>4 DEF history, NiTypeOK
<1>3. ASSUME NEW c \in NiClients, ClientChanges(c) PROVE NiTypeOK'
  BY <1>3 DEF ClientChanges, session, history, NiTypeOK
<1>4. ASSUME NEW s \in Sessions, ThreadWaits(s) PROVE NiTypeOK'
  BY <1>4 DEF ThreadWaits, history, NiTypeOK
<1> QED  BY <1>1, <1>2, <1>3, <1>4

-----------------------------------------------------------------------------
(***************************************************************************)
(* Where a notification is.                                                *)
(***************************************************************************)
\* Nothing moves, and no thread starts.
LEMMA StaysPut ==
  ASSUME NiInv, NiTypeOK', UNCHANGED <<rawRequest, leaving, answers, freed>>,
         \A s \in Sessions : waiter'[s] # "none" => waiter[s] # "none"
  PROVE  NiInv'
BY DEF NiInv, Open, Held

\* An unused notification is answered or dropped at once.
LEMMA DoneAtOnce ==
  ASSUME NiInv, NiTypeOK', NEW n \in Notifs, Unused(n),
         UNCHANGED <<rawRequest, waiter, leaving>>,
         \/ UNCHANGED freed /\ \E r \in Responses : Told(n, r)
         \/ UNCHANGED answers /\ freed' = freed \cup {n}
  PROVE  NiInv'
<1>1. NiTypeOK /\ answers[n] = <<>> /\ n \notin freed
  BY DEF NiInv, Unused
<1>2. \A m \in Notifs \ {n} : answers'[m] = answers[m] /\ (m \in freed' <=> m \in freed)
  BY <1>1, ToldOnly
<1>3. Len(answers'[n]) <= 1 /\ (n \in freed' => answers'[n] = <<>>)
  <2>1. CASE UNCHANGED answers
    BY <1>1, <2>1
  <2>2. ASSUME NEW r \in Responses, Told(n, r), UNCHANGED freed
        PROVE  Len(answers'[n]) <= 1 /\ (n \in freed' => answers'[n] = <<>>)
    <3>1. answers'[n] = Append(answers[n], r) /\ answers[n] \in Seq(Responses)
      BY <1>1, <2>2, ToldOnly DEF NiTypeOK
    <3> QED  BY <1>1, <2>2, <3>1, Grows
  <2> QED  BY <2>1, <2>2
<1>4. \A m \in Notifs : Len(answers'[m]) <= 1 /\ (m \in freed' => answers'[m] = <<>>)
  BY <1>2, <1>3 DEF NiInv
<1>5. \A s \in Sessions : rawRequest[s] # None => rawRequest[s] \in Notifs \ {n}
  BY <1>1 DEF Unused, NiTypeOK
<1>6. \A t \in leaving : t.n \in Notifs \ {n}
  BY <1>1 DEF Unused, NiTypeOK, Leaving
<1>7. \A m \in Notifs \ {n} : Open(m) => Open(m)'
  BY <1>2 DEF Open
<1> QED  BY <1>4, <1>5, <1>6, <1>7 DEF NiInv, Held

LEMMA RequestPlaces ==
  ASSUME NiInv, NiTypeOK', NEW n \in Notifs, RequestNiNotify(n)
  PROVE  NiInv'
<1>1. Unused(n) /\ UNCHANGED leaving /\ NiTypeOK
  BY DEF RequestNiNotify, NiInv
<1>2. PICK type \in Types :
        \/ /\ \E r \in Responses : Told(n, r)
           /\ UNCHANGED <<session, freed>>
        \/ Ask(n, SessionOf(type)) /\ UNCHANGED answers
        \/ UNCHANGED <<answers, session, freed>>
  <2>1. PICK type \in Types, urgent \in BOOLEAN, override \in BOOLEAN :
          \/ /\ Told(n, Verdict(type, urgent, override))
             /\ Verdict(type, urgent, override) # "ask"
             /\ UNCHANGED <<session, freed>>
          \/ Ask(n, SessionOf(type)) /\ UNCHANGED answers
          \/ AskNobody(n, type)
    BY DEF RequestNiNotify
  <2>2. "accept" \in Responses
        /\ (Verdict(type, urgent, override) # "ask"
              => Verdict(type, urgent, override) \in Responses)
    BY VerdictType DEF Responses, UserResponses
  <2> QED  BY <2>1, <2>2 DEF AskNobody
<1>3. CASE (\E r \in Responses : Told(n, r)) /\ UNCHANGED <<session, freed>>
  BY <1>1, <1>3, DoneAtOnce DEF session
<1>4. CASE UNCHANGED <<answers, session, freed>>
  BY <1>1, <1>4, StaysPut DEF session
<1>5. CASE Ask(n, SessionOf(type)) /\ UNCHANGED answers
  <2> DEFINE s == SessionOf(type)
  <2>1. s \in Sessions
    BY DEF SessionOf, Sessions
  <2> HIDE DEF s
  <2>2. CASE UNCHANGED session
    <3>1. freed' = freed \cup {n} \/ UNCHANGED freed
      BY <1>5 DEF Ask
    <3> QED  BY <1>1, <1>5, <2>2, <3>1, DoneAtOnce, StaysPut DEF session
  <2>3. CASE /\ rawRequest' = [rawRequest EXCEPT ![s] = n]
             /\ waiter' = [waiter EXCEPT ![s] = "starts"]
             /\ UNCHANGED freed
    <3>1. /\ rawRequest'[s] = n /\ n # None
          /\ \A q \in Sessions \ {s} : /\ rawRequest'[q] = rawRequest[q]
                                      /\ waiter'[q] = waiter[q]
                                      /\ rawRequest[q] # n
      BY <1>1, <2>1, <2>3, NoneAssumption DEF NiTypeOK, Unused
    <3>2. \A m : Open(m)' <=> Open(m)
      BY <1>5, <2>3 DEF Open
    <3>3. Open(n) /\ \A t \in leaving : t.n # n
      BY <1>1 DEF Unused, Open
    <3>4. \A t \in leaving : Open(t.n)' /\ ~Held(t.n)'
      <4> TAKE t \in leaving
      <4>1. Open(t.n) /\ ~Held(t.n) /\ t.n # n
        BY <3>3 DEF NiInv
      <4> QED  BY <3>1, <3>2, <4>1 DEF Held
    <3>5. (rawRequest["plain"] = rawRequest["es"] => rawRequest["plain"] = None)'
      BY <2>1, <3>1 DEF Sessions
    <3>6. \A q \in Sessions : (rawRequest[q] # None => Open(rawRequest[q]))'
      BY <1>5, <2>3, <3>1, <3>3 DEF NiInv, Open
    <3>7. \A q \in Sessions : waiter'[q] # "none" => rawRequest'[q] # None
      BY <3>1 DEF NiInv
    <3> QED  BY <1>1, <1>5, <2>3, <3>4, <3>5, <3>6, <3>7 DEF NiInv
  <2> QED  BY <1>5, <2>2, <2>3 DEF Ask, s
<1> QED  BY <1>2, <1>3, <1>4, <1>5

\* The request goes from the session to its thread.
LEMMA LeavePlaces ==
  ASSUME NiInv, NiTypeOK', NEW s \in Sessions, NEW r \in Responses, Leave(s, r),
         waiter[s] # "none"
  PROVE  NiInv'
<1> SUFFICES ASSUME NEW n, n = rawRequest[s], NEW t, t = [s |-> s, n |-> n, resp |-> r]
             PROVE  NiInv'
  OBVIOUS
<1>1. NiTypeOK /\ n # None /\ Open(n) /\ \A u \in leaving : u.n # n
  BY DEF NiInv, Held
<1>2. \A q \in Sessions \ {s} : rawRequest[q] # n
  BY <1>1 DEF NiInv, Sessions
<1>3. /\ UNCHANGED <<answers, freed>>
      /\ leaving' = leaving \cup {t}
      /\ rawRequest'[s] = None /\ waiter'[s] = "none"
      /\ \A q \in Sessions \ {s} : rawRequest'[q] = rawRequest[q] /\ waiter'[q] = waiter[q]
  BY <1>1 DEF Leave, history, NiTypeOK
<1>4. t.n = n
  OBVIOUS
<1>5. \A m : Open(m)' <=> Open(m)
  BY <1>3 DEF Open
<1>6. \A u \in leaving' : Open(u.n)' /\ ~Held(u.n)'
  <2>1. ASSUME NEW u \in leaving PROVE Open(u.n)' /\ ~Held(u.n)'
    <3>1. Open(u.n) /\ ~Held(u.n) /\ u.n \in Notifs
      BY <1>1 DEF NiInv, NiTypeOK, Leaving
    <3> QED  BY <1>3, <1>5, <3>1, NoneAssumption DEF Held
  <2>2. Open(t.n)' /\ ~Held(t.n)'
    BY <1>1, <1>2, <1>3, <1>4, <1>5 DEF Held
  <2> QED  BY <1>3, <2>1, <2>2
<1>7. \A u, w \in leaving' : u.n = w.n => u = w
  BY <1>1, <1>3, <1>4 DEF NiInv
<1>8. (rawRequest["plain"] = rawRequest["es"] => rawRequest["plain"] = None)'
  BY <1>3 DEF Sessions
<1> QED  BY <1>3, <1>5, <1>6, <1>7, <1>8 DEF NiInv

\* The thread's last step answers or drops what it took, and nobody else has it.
LEMMA EndPlaces ==
  ASSUME NiInv, NiTypeOK', NEW t \in leaving, ThreadEnds(t)
  PROVE  NiInv'
<1> DEFINE n == t.n
<1>1. NiTypeOK /\ t \in Leaving /\ Open(n) /\ ~Held(n)
      /\ \A u \in leaving \ {t} : u.n # n
  BY DEF NiInv, NiTypeOK
<1>2. n \in Notifs /\ t.resp \in Responses
  BY <1>1 DEF Leaving
<1> HIDE DEF n
<1>3. leaving' = leaving \ {t} /\ UNCHANGED <<rawRequest, waiter>>
  BY DEF ThreadEnds
<1>4. \/ freed' = freed \cup {n} /\ UNCHANGED answers
      \/ Told(n, t.resp) /\ UNCHANGED freed
  BY DEF ThreadEnds, n
<1>5. \A m \in Notifs \ {n} : answers'[m] = answers[m] /\ (m \in freed' <=> m \in freed)
  BY <1>1, <1>2, <1>4, ToldOnly
<1>6. Len(answers'[n]) <= 1 /\ (n \in freed' => answers'[n] = <<>>)
  <2>1. answers[n] = <<>> /\ n \notin freed /\ answers[n] \in Seq(Responses)
    BY <1>1, <1>2 DEF Open, NiTypeOK
  <2>2. CASE UNCHANGED answers
    BY <2>1, <2>2
  <2>3. CASE Told(n, t.resp) /\ UNCHANGED freed
    <3>1. answers'[n] = Append(answers[n], t.resp)
      BY <1>1, <1>2, <2>3, ToldOnly
    <3> QED  BY <1>2, <2>1, <2>3, <3>1, Grows
  <2> QED  BY <1>4, <2>2, <2>3
<1>7. \A m \in Notifs : Len(answers'[m]) <= 1 /\ (m \in freed' => answers'[m] = <<>>)
  BY <1>5, <1>6 DEF NiInv
<1>8. \A m \in Notifs \ {n} : Open(m) => Open(m)'
  BY <1>5 DEF Open
<1>9. \A s \in Sessions : rawRequest[s] # None => rawRequest[s] \in Notifs \ {n}
  BY <1>1 DEF Held, NiTypeOK
<1>10. \A u \in leaving' : u \in leaving /\ u.n \in Notifs \ {n}
  BY <1>1, <1>3 DEF NiTypeOK, Leaving
<1> QED  BY <1>3, <1>7, <1>8, <1>9, <1>10 DEF NiInv, Held

LEMMA NiStep ==
  ASSUME NiInv, [NiNext]_niVars
  PROVE  NiInv'
<1>1. NiTypeOK
  BY DEF NiInv
<1>2. ASSUME NEW n \in Notifs, RequestNiNotify(n) PROVE NiInv'
  BY <1>1, <1>2, RequestTypes, RequestPlaces
<1>3. CASE \/ \E c \in NiClients, id \in 1 .. reqIDCounter, r \in UserResponses :
                GnssNiResponse(c, id, r)
           \/ Store
           \/ \E c \in NiClients : ClientChanges(c)
           \/ \E s \in Sessions : ThreadWaits(s)
  <2>1. UNCHANGED <<rawRequest, leaving, answers, freed>>
    BY <1>3 DEF GnssNiResponse, Store, ClientChanges, ThreadWaits, session, history
  <2>2. \A s \in Sessions : waiter'[s] # "none" => waiter[s] # "none"
    BY <1>1, <1>3 DEF GnssNiResponse, Store, ClientChanges, ThreadWaits, session, NiTypeOK
  <2> QED  BY <1>1, <1>3, <2>1, <2>2, OtherTypes, StaysPut
<1>4. ASSUME NEW s \in Sessions, ThreadAnswered(s) \/ ThreadTimesOut(s) PROVE NiInv'
  <2>1. waiter[s] # "none" /\ rawRequest[s] # None
    BY <1>4 DEF ThreadAnswered, ThreadTimesOut, NiInv
  <2>2. \E r \in Responses : Leave(s, r)
    BY <1>1, <1>4 DEF ThreadAnswered, ThreadTimesOut, NiTypeOK, Responses
  <2> QED  BY <1>1, <2>1, <2>2, LeaveTypes, LeavePlaces
<1>5. ASSUME NEW t \in leaving, ThreadEnds(t) PROVE NiInv'
  BY <1>1, <1>5, EndTypes, EndPlaces
<1>6. CASE UNCHANGED niVars
  BY <1>6 DEF niVars, session, history, NiInv, NiTypeOK, Open, Held
<1> QED  BY <1>2, <1>3, <1>4, <1>5, <1>6 DEF NiNext, Thread

\* A notification is answered to the modem at most once and never after its data
\* was freed: for any clients and notifications, whether the user answers, answers
\* twice or lets the time-out pass, and whatever an emergency request interrupts.
THEOREM NiOneAnswer == NiSpec => []OneAnswer
<1>1. NiInit => NiInv
  <2> SUFFICES ASSUME NiInit PROVE NiInv
    OBVIOUS
  <2>1. NiTypeOK
    BY DEF NiInit, NiTypeOK, Responses
  <2>2. \A n \in Notifs : answers[n] = <<>> /\ Len(answers[n]) <= 1
    BY DEF NiInit
  <2> QED  BY <2>1, <2>2 DEF NiInit, NiInv, Sessions
<1>2. NiInv /\ [NiNext]_niVars => NiInv'
  BY NiStep
<1>3. NiInv => OneAnswer
  BY NoneAssumption DEF NiInv, OneAnswer, Open
<1> QED  BY <1>1, <1>2, <1>3, PTL DEF NiSpec

-----------------------------------------------------------------------------
(***************************************************************************)
(* On-demand locations.                                                    *)
(***************************************************************************)
\* However starts, stops, restarts of the modem and late expiries follow each
\* other, an active request for locations has its timer, and the timer either
\* runs or has an expiry on its way that will repeat the request.
THEOREM OdcpiAlwaysTimed == OdcpiSpec => []OdcpiTimed
<1> DEFINE IInv == expires \in Nat /\ OdcpiTimed
<1>1. OdcpiInit => IInv
  BY DEF OdcpiInit, OdcpiTimed
<1>2. IInv /\ [OdcpiNext]_odcpiVars => IInv'
  <2> SUFFICES ASSUME IInv, [OdcpiNext]_odcpiVars PROVE IInv'
    OBVIOUS
  <2> USE DEF OdcpiTimed, TimerStarted, TimerStopped, TimerKept
  <2>1. ASSUME NEW high \in BOOLEAN, InitOdcpi(high) PROVE IInv'
    BY <2>1 DEF InitOdcpi
  <2>2. ASSUME NEW em \in BOOLEAN, RequestStart(em) PROVE IInv'
    BY <2>2 DEF RequestStart, StartOf
  <2>3. CASE RequestStop
    BY <2>3 DEF RequestStop
  <2>4. CASE ModemRestarts
    BY <2>4 DEF ModemRestarts
  <2>5. CASE TimeOut
    BY <2>5 DEF TimeOut
  <2>6. CASE TimerExpire
    BY <2>6 DEF TimerExpire, StartOf
  <2>7. CASE UNCHANGED odcpiVars
    BY <2>7 DEF odcpiVars
  <2> QED  BY <2>1, <2>2, <2>3, <2>4, <2>5, <2>6, <2>7 DEF OdcpiNext
<1>3. IInv => OdcpiTimed
  OBVIOUS
<1> QED  BY <1>1, <1>2, <1>3, PTL DEF OdcpiSpec

-----------------------------------------------------------------------------
(***************************************************************************)
(* MsgTask, for every set of senders and any number of messages.           *)
(***************************************************************************)
\* What the sequences of messages are, and how many messages each sender has sent.
TaskTypes ==
  /\ list \in Seq(TaskMessages) /\ inHand \in Seq(TaskMessages)
  /\ accepted \in Seq(TaskMessages) /\ handled \in Seq(TaskMessages)
  /\ lost \subseteq TaskMessages /\ deallocated \subseteq TaskMessages
  /\ unblocked \in BOOLEAN /\ queueAlive \in BOOLEAN /\ dangling \in BOOLEAN
  /\ holders \subseteq {"thread", "owner"} /\ calling \subseteq Senders
  /\ thread \in {"run", "wait", "woken", "proc", "ending", "ended"}
  /\ owner \in {"uses", "stops", "leaves", "gone"}
  /\ sent \in [Senders -> 0 .. MaxSends] /\ late \in Nat
  /\ \A s \in calling : sent[s] >= 1

\* The newest message, at the head, is added, and the oldest, at the tail, is taken.
LEMMA QueueFacts ==
  ASSUME NEW S, NEW q \in Seq(S), NEW m \in S
  PROVE  /\ <<m>> \o q \in Seq(S) /\ <<m>> \o q # <<>>
         /\ ToSet(<<m>> \o q) = ToSet(q) \cup {m}
         /\ Append(q, m) \in Seq(S) /\ ToSet(Append(q, m)) = ToSet(q) \cup {m}
<1>1. /\ <<m>> \o q \in Seq(S) /\ <<m>> \o q # <<>> /\ DOMAIN q = 1 .. Len(q)
      /\ DOMAIN (<<m>> \o q) = 1 .. Len(q) + 1 /\ (<<m>> \o q)[1] = m
      /\ \A i \in 1 .. Len(q) : (<<m>> \o q)[i + 1] = q[i]
      /\ \A i \in 2 .. Len(q) + 1 : (<<m>> \o q)[i] = q[i - 1]
  OBVIOUS
<1>2. \A i \in 2 .. Len(q) + 1 : i - 1 \in 1 .. Len(q)
  OBVIOUS
<1>3. ToSet(<<m>> \o q) = ToSet(q) \cup {m}
  <2>1. ASSUME NEW x \in ToSet(<<m>> \o q) PROVE x \in ToSet(q) \cup {m}
    <3>1. PICK i \in 1 .. Len(q) + 1 : x = (<<m>> \o q)[i]
      BY <1>1, <2>1 DEF ToSet
    <3>2. CASE i = 1
      BY <1>1, <3>1, <3>2
    <3>3. CASE i \in 2 .. Len(q) + 1
      BY <1>1, <1>2, <3>1, <3>3 DEF ToSet
    <3> QED  BY <3>1, <3>2, <3>3
  <2>2. ASSUME NEW x \in ToSet(q) PROVE x \in ToSet(<<m>> \o q)
    <3>1. PICK i \in 1 .. Len(q) : x = q[i]
      BY <1>1, <2>2 DEF ToSet
    <3>2. i + 1 \in 1 .. Len(q) + 1 /\ (<<m>> \o q)[i + 1] = x
      BY <1>1, <3>1
    <3> QED  BY <1>1, <3>2 DEF ToSet
  <2>3. m \in ToSet(<<m>> \o q)
    BY <1>1 DEF ToSet
  <2> QED  BY <2>1, <2>2, <2>3
<1>4. /\ Append(q, m) \in Seq(S) /\ DOMAIN Append(q, m) = 1 .. Len(q) + 1
      /\ \A i \in 1 .. Len(q) : Append(q, m)[i] = q[i]
      /\ Append(q, m)[Len(q) + 1] = m
  OBVIOUS
<1>5. ToSet(Append(q, m)) = ToSet(q) \cup {m}
  BY <1>1, <1>4 DEF ToSet
<1> QED  BY <1>1, <1>3, <1>4, <1>5

LEMMA TakeFacts ==
  ASSUME NEW S, NEW q \in Seq(S), q # <<>>
  PROVE  /\ Last(q) \in S /\ Front(q) \in Seq(S)
         /\ Last(q) \in ToSet(q) /\ ToSet(Front(q)) \subseteq ToSet(q)
<1>1. Len(q) \in Nat /\ Len(q) >= 1 /\ DOMAIN q = 1 .. Len(q)
  OBVIOUS
<1>2. Last(q) \in S /\ Last(q) \in ToSet(q)
  BY <1>1 DEF Last, ToSet
<1>3. /\ Front(q) \in Seq(S) /\ DOMAIN Front(q) = 1 .. Len(q) - 1
      /\ \A i \in 1 .. Len(q) - 1 : Front(q)[i] = q[i]
  BY <1>1 DEF Front
<1> QED  BY <1>1, <1>2, <1>3 DEF ToSet

LEMMA JoinFacts ==
  ASSUME NEW S, NEW p \in Seq(S), NEW q \in Seq(S)
  PROVE  p \o q \in Seq(S) /\ ToSet(p \o q) = ToSet(p) \cup ToSet(q)
<1>1. /\ p \o q \in Seq(S) /\ DOMAIN (p \o q) = 1 .. Len(p) + Len(q)
      /\ Len(p) \in Nat /\ Len(q) \in Nat /\ DOMAIN p = 1 .. Len(p) /\ DOMAIN q = 1 .. Len(q)
      /\ \A i \in 1 .. Len(p) : (p \o q)[i] = p[i]
      /\ \A i \in Len(p) + 1 .. Len(p) + Len(q) : (p \o q)[i] = q[i - Len(p)]
  OBVIOUS
<1>2. ASSUME NEW x \in ToSet(p \o q) PROVE x \in ToSet(p) \cup ToSet(q)
  <2>1. PICK i \in 1 .. Len(p) + Len(q) : x = (p \o q)[i]
    BY <1>1, <1>2 DEF ToSet
  <2>2. CASE i \in 1 .. Len(p)
    BY <1>1, <2>1, <2>2 DEF ToSet
  <2>3. CASE i \in Len(p) + 1 .. Len(p) + Len(q)
    <3>1. i - Len(p) \in 1 .. Len(q)
      BY <1>1, <2>3
    <3> QED  BY <1>1, <2>1, <2>3, <3>1 DEF ToSet
  <2> QED  BY <1>1, <2>1, <2>2, <2>3
<1>3. ASSUME NEW x \in ToSet(p) PROVE x \in ToSet(p \o q)
  <2>1. PICK i \in 1 .. Len(p) : x = p[i]
    BY <1>1, <1>3 DEF ToSet
  <2> QED  BY <1>1, <2>1 DEF ToSet
<1>4. ASSUME NEW x \in ToSet(q) PROVE x \in ToSet(p \o q)
  <2>1. PICK i \in 1 .. Len(q) : x = q[i]
    BY <1>1, <1>4 DEF ToSet
  <2>2. i + Len(p) \in Len(p) + 1 .. Len(p) + Len(q) /\ (i + Len(p)) - Len(p) = i
    BY <1>1, <2>1
  <2>3. (p \o q)[i + Len(p)] = x
    BY <1>1, <2>1, <2>2
  <2> QED  BY <1>1, <2>2, <2>3 DEF ToSet
<1> QED  BY <1>1, <1>2, <1>3, <1>4

-----------------------------------------------------------------------------
LEMMA TaskTypesInit == ASSUME MaxSends \in Nat, TaskInit PROVE TaskTypes
<1>1. <<>> \in Seq(TaskMessages)
  OBVIOUS
<1>2. sent \in [Senders -> 0 .. MaxSends]
  BY DEF TaskInit
<1> QED  BY <1>1, <1>2 DEF TaskInit, TaskTypes

LEMMA FlushTypes ==
  ASSUME TaskTypes, NEW h, Drop(h)
  PROVE  /\ list' \in Seq(TaskMessages) /\ deallocated' \subseteq TaskMessages
         /\ queueAlive' \in BOOLEAN /\ holders' \subseteq {"thread", "owner"}
<1>1. ToSet(list) \subseteq TaskMessages
  BY DEF TaskTypes, ToSet
<1>2. CASE holders = {h}
  <2>1. list' = <<>> /\ deallocated' = deallocated \cup ToSet(list) /\ queueAlive' = FALSE
    BY <1>2 DEF Drop, Destroy, Flush
  <2>2. <<>> \in Seq(TaskMessages)
    OBVIOUS
  <2> QED  BY <1>1, <2>1, <2>2 DEF Drop, TaskTypes
<1>3. CASE holders # {h}
  BY <1>3 DEF Drop, TaskTypes
<1> QED  BY <1>2, <1>3

\* A message that is taken is one of the queue, and the rest stays in it.
LEMMA TakeTypes ==
  ASSUME TaskTypes, list # <<>>, RemoveTail
  PROVE  inHand' \in Seq(TaskMessages) /\ list' \in Seq(TaskMessages)
<1>1. Last(list) \in TaskMessages /\ Front(list) \in Seq(TaskMessages)
  BY TakeFacts DEF TaskTypes
<1> QED  BY <1>1 DEF RemoveTail

\* A step keeps every variable's type.
LEMMA TaskTypesStep ==
  ASSUME MaxSends \in Nat, TaskTypes, [TaskNext]_msgTaskVars
  PROVE  TaskTypes'
<1>1. ASSUME NEW s \in Senders, Call(s) PROVE TaskTypes'
  <2>1. sent[s] \in 0 .. MaxSends /\ sent[s] < MaxSends
    BY <1>1 DEF Call, TaskTypes
  <2>2. sent' \in [Senders -> 0 .. MaxSends] /\ sent'[s] >= 1
    BY <1>1, <2>1 DEF Call, TaskTypes
  <2>3. \A r \in calling' : sent'[r] >= 1
    BY <1>1, <2>2 DEF Call, TaskTypes
  <2> QED  BY <1>1, <2>2, <2>3 DEF Call, TaskTypes
<1>2. ASSUME NEW s \in Senders, Send(s) PROVE TaskTypes'
  <2> DEFINE m == <<s, sent[s]>>
  <2>1. m \in TaskMessages
    BY <1>2 DEF Send, TaskMessages, TaskTypes
  <2>2. /\ <<m>> \o list \in Seq(TaskMessages) /\ Append(accepted, m) \in Seq(TaskMessages)
    BY <2>1, QueueFacts DEF TaskTypes
  <2> HIDE DEF m
  <2>3. /\ \/ list' = <<m>> \o list /\ accepted' = Append(accepted, m)
           \/ list' = list /\ accepted' = accepted
        /\ lost' = lost \/ lost' = lost \cup {m}
        /\ dangling' \in BOOLEAN /\ calling' = calling \ {s}
        /\ thread' \in {thread, "woken"}
        /\ UNCHANGED <<unblocked, holders, queueAlive, inHand, owner, sent, handled, deallocated,
                       late>>
    BY <1>2 DEF Send, Refuse, AddHead, Signal, TaskTypes, m
  <2> QED  BY <2>1, <2>2, <2>3 DEF TaskTypes
<1>3. CASE Receive
  BY <1>3, TakeTypes DEF Receive, Take, NothingListed, TaskTypes
<1>4. CASE LookAgain
  BY <1>4, TakeTypes DEF LookAgain, Take, NothingListed, TaskTypes
<1>5. CASE WakeUp
  BY <1>5 DEF WakeUp, TaskTypes
<1>6. CASE Proc
  <2>1. handled \o inHand \in Seq(TaskMessages) /\ <<>> \in Seq(TaskMessages)
    BY JoinFacts DEF TaskTypes
  <2> QED  BY <1>6, <2>1 DEF Proc, TaskTypes
<1>7. CASE EndThread
  BY <1>7, FlushTypes DEF EndThread, TaskTypes
<1>8. CASE StopTask
  BY <1>8 DEF StopTask, TaskTypes
<1>9. CASE Unblock
  BY <1>9 DEF Unblock, Signal, TaskTypes
<1>10. CASE LeaveTask
  BY <1>10, FlushTypes DEF LeaveTask, TaskTypes
<1>11. CASE UNCHANGED msgTaskVars
  BY <1>11 DEF msgTaskVars, TaskTypes
<1> QED
  BY <1>1, <1>2, <1>3, <1>4, <1>5, <1>6, <1>7, <1>8, <1>9, <1>10, <1>11 DEF TaskNext

\* Every variable keeps its type.
THEOREM TaskTypeCorrect ==
  ASSUME MaxSends \in Nat
  PROVE  TaskSpec => []TaskTypes
<1>1. TaskInit => TaskTypes
  BY TaskTypesInit
<1>2. TaskTypes /\ [TaskNext]_msgTaskVars => TaskTypes'
  BY TaskTypesStep
<1> QED  BY <1>1, <1>2, PTL DEF TaskSpec

-----------------------------------------------------------------------------
\* A task that was stopped is on its way to its end: the message it began when it was
\* stopped, or looked for in the wait it was woken from, is the last.
Ending ==
  /\ ~unblocked => late = 0
  /\ late = 0 \/ (late = 1 /\ thread \in {"proc", "run", "ending", "ended"})
AtRest == NobodyOversleeps /\ Ending

\* A thread that waits has nothing to do, and one message at most is begun after the stop.
LEMMA AtRestStep ==
  ASSUME TaskTypes, AtRest, [TaskNext]_msgTaskVars
  PROVE  AtRest'
<1> USE DEF AtRest, NobodyOversleeps, Ending, TaskTypes
<1>1. ASSUME NEW s \in Senders, Call(s) PROVE AtRest'
  BY <1>1 DEF Call
<1>2. ASSUME NEW s \in Senders, Send(s) PROVE AtRest'
  BY <1>2 DEF Send, Refuse, Signal
<1>3. CASE Receive
  BY <1>3 DEF Receive, Take, NothingListed
<1>4. CASE LookAgain
  BY <1>4 DEF LookAgain, Take, NothingListed
<1>5. CASE WakeUp \/ Proc
  BY <1>5 DEF WakeUp, Proc
<1>6. CASE EndThread
  BY <1>6 DEF EndThread, Drop, Destroy, Flush
<1>7. CASE StopTask
  BY <1>7 DEF StopTask
<1>8. CASE Unblock
  BY <1>8 DEF Unblock, Signal
<1>9. CASE LeaveTask
  BY <1>9 DEF LeaveTask, Drop, Destroy, Flush
<1>10. CASE UNCHANGED msgTaskVars
  BY <1>10 DEF msgTaskVars
<1> QED  BY <1>1, <1>2, <1>3, <1>4, <1>5, <1>6, <1>7, <1>8, <1>9, <1>10 DEF TaskNext

\* No message and no stop is overslept, and the thread begins at most one more message
\* once the task was stopped.
THEOREM TaskRests ==
  ASSUME MaxSends \in Nat
  PROVE  TaskSpec => [](NobodyOversleeps /\ FewAfterStop)
<1>1. TaskInit => TaskTypes /\ AtRest
  BY TaskTypesInit DEF TaskInit, AtRest, NobodyOversleeps, Ending
<1>2. TaskTypes /\ AtRest /\ [TaskNext]_msgTaskVars => (TaskTypes /\ AtRest)'
  BY TaskTypesStep, AtRestStep
<1>3. AtRest => NobodyOversleeps /\ FewAfterStop
  BY DEF AtRest, Ending, FewAfterStop
<1> QED  BY <1>1, <1>2, <1>3, PTL DEF TaskSpec

-----------------------------------------------------------------------------
\* Who shares the runnable keeps the queue, and the thread does so until it ends, which it
\* does not before the queue was unblocked.
Shared ==
  /\ "thread" \in holders <=> thread # "ended"
  /\ holders # {} => queueAlive
  /\ ~unblocked => thread \notin {"ending", "ended"}
  /\ owner \in {"uses", "stops"} => ~unblocked

LEMMA SharedStep ==
  ASSUME TaskTypes, Shared, [TaskNext]_msgTaskVars
  PROVE  Shared'
<1> USE DEF Shared, TaskTypes
<1>1. ASSUME NEW s \in Senders, Call(s) PROVE Shared'
  BY <1>1 DEF Call
<1>2. ASSUME NEW s \in Senders, Send(s) PROVE Shared'
  BY <1>2 DEF Send, Refuse, Signal
<1>3. CASE Receive
  BY <1>3 DEF Receive, Take
<1>4. CASE LookAgain
  BY <1>4 DEF LookAgain, Take
<1>5. CASE WakeUp \/ Proc
  BY <1>5 DEF WakeUp, Proc
<1>6. CASE EndThread
  BY <1>6 DEF EndThread, Drop, Destroy
<1>7. CASE StopTask
  BY <1>7 DEF StopTask
<1>8. CASE Unblock
  BY <1>8 DEF Unblock, Signal
<1>9. CASE LeaveTask
  BY <1>9 DEF LeaveTask, Drop, Destroy
<1>10. CASE UNCHANGED msgTaskVars
  BY <1>10 DEF msgTaskVars
<1> QED  BY <1>1, <1>2, <1>3, <1>4, <1>5, <1>6, <1>7, <1>8, <1>9, <1>10 DEF TaskNext

\* Nobody is in a call of a task that is stopped by the rules, so nothing is refused.
Kept == Disciplined => /\ lost = {} /\ ~dangling
                       /\ calling # {} => owner = "uses"

LEMMA KeptStep ==
  ASSUME TaskTypes, Shared, Kept, [TaskNext]_msgTaskVars
  PROVE  Kept'
<1> USE DEF Kept
<1>1. ASSUME NEW s \in Senders, Call(s) PROVE Kept'
  BY <1>1 DEF Call
<1>2. ASSUME NEW s \in Senders, Send(s) PROVE Kept'
  <2>1. Disciplined => owner = "uses"
    BY <1>2 DEF Send
  <2>2. Disciplined => queueAlive /\ ~unblocked
    BY <2>1 DEF Shared
  <2> QED  BY <1>2, <2>1, <2>2 DEF Send
<1>3. CASE Receive
  BY <1>3 DEF Receive
<1>4. CASE LookAgain
  BY <1>4 DEF LookAgain
<1>5. CASE WakeUp \/ Proc
  BY <1>5 DEF WakeUp, Proc
<1>6. CASE EndThread
  BY <1>6 DEF EndThread
<1>7. CASE StopTask
  BY <1>7 DEF StopTask
<1>8. CASE Unblock
  BY <1>8, SharedStep DEF Unblock, Shared
<1>9. CASE LeaveTask
  BY <1>9 DEF LeaveTask, Shared
<1>10. CASE UNCHANGED msgTaskVars
  BY <1>10 DEF msgTaskVars
<1> QED  BY <1>1, <1>2, <1>3, <1>4, <1>5, <1>6, <1>7, <1>8, <1>9, <1>10 DEF TaskNext

\* The messages that the queue has or had.
Known == ToSet(list) \cup ToSet(inHand) \cup ToSet(accepted) \cup ToSet(handled) \cup deallocated

\* A message has been sent; that of a call under way is not yet known, nor lost.
Numbered ==
  /\ lost \cap Known = {}
  /\ \A m \in Known \cup lost :
       m[2] <= sent[m[1]] /\ (m[1] \in calling => m[2] < sent[m[1]])

LEMMA KnownTypes == ASSUME TaskTypes PROVE Known \subseteq TaskMessages
BY DEF TaskTypes, Known, ToSet

\* No step but the end of a call makes a message known or lost.
LEMMA NumberedFrame ==
  ASSUME TaskTypes, Numbered, Known' \subseteq Known, lost' = lost,
         UNCHANGED sent, calling' \subseteq calling
  PROVE  Numbered'
BY DEF Numbered

LEMMA TakeKnown ==
  ASSUME TaskTypes, list # <<>>, RemoveTail
  PROVE  ToSet(list') \cup ToSet(inHand') \subseteq ToSet(list)
<1>1. Last(list) \in ToSet(list) /\ ToSet(Front(list)) \subseteq ToSet(list)
  BY TakeFacts DEF TaskTypes
<1>2. inHand' = <<Last(list)>> /\ list' = Front(list)
  BY DEF RemoveTail
<1>3. ToSet(<<Last(list)>>) = {Last(list)}
  BY DEF ToSet
<1> QED  BY <1>1, <1>2, <1>3

LEMMA DropKnown ==
  ASSUME TaskTypes, NEW h, Drop(h), UNCHANGED <<inHand, accepted, handled>>
  PROVE  Known' \subseteq Known
<1>1. CASE holders = {h}
  <2>1. list' = <<>> /\ deallocated' = deallocated \cup ToSet(list)
    BY <1>1 DEF Drop, Destroy, Flush
  <2>2. ToSet(<<>>) = {}
    BY DEF ToSet
  <2> QED  BY <2>1, <2>2 DEF Known
<1>2. CASE holders # {h}
  BY <1>2 DEF Drop, Known
<1> QED  BY <1>1, <1>2

LEMMA NumberedStep ==
  ASSUME MaxSends \in Nat, TaskTypes, Numbered, [TaskNext]_msgTaskVars
  PROVE  Numbered'
<1>1. ASSUME NEW s \in Senders, Call(s) PROVE Numbered'
  <2>1. /\ Known' = Known /\ lost' = lost /\ calling' = calling \cup {s} /\ s \notin calling
        /\ sent' = [sent EXCEPT ![s] = @ + 1]
    BY <1>1 DEF Call, Known
  <2>2. \A r \in Senders : sent[r] \in Nat /\ sent'[r] \in Nat
                         /\ sent'[r] = IF r = s THEN sent[r] + 1 ELSE sent[r]
    BY <2>1 DEF TaskTypes
  <2>3. \A m \in Known \cup lost : m[1] \in Senders /\ m[2] \in Nat
    BY KnownTypes DEF TaskTypes, TaskMessages
  <2>4. ASSUME NEW m \in Known \cup lost
        PROVE  m[2] <= sent'[m[1]] /\ (m[1] \in calling' => m[2] < sent'[m[1]])
    <3>1. m[2] <= sent[m[1]] /\ (m[1] \in calling => m[2] < sent[m[1]])
      BY DEF Numbered
    <3>2. m[1] \in Senders /\ m[2] \in Nat /\ sent[m[1]] \in Nat
      BY <2>2, <2>3
    <3> QED  BY <2>1, <2>2, <3>1, <3>2
  <2> QED  BY <2>1, <2>4 DEF Numbered
<1>2. ASSUME NEW s \in Senders, Send(s) PROVE Numbered'
  <2> DEFINE m == <<s, sent[s]>>
  <2>1. m \in TaskMessages /\ m[1] = s /\ m[2] = sent[s] /\ sent[s] \in Nat
    BY <1>2 DEF Send, TaskMessages, TaskTypes
  <2>2. m \notin Known \cup lost
    <3>1. s \in calling
      BY <1>2 DEF Send
    <3> QED  BY <2>1, <3>1 DEF Numbered
  <2> HIDE DEF m
  <2>3. /\ calling' = calling \ {s} /\ sent' = sent
        /\ UNCHANGED <<inHand, handled, deallocated>>
        /\ \/ list' = <<m>> \o list /\ accepted' = Append(accepted, m) /\ lost' = lost
           \/ list' = list /\ accepted' = accepted /\ lost' \in {lost, lost \cup {m}}
    BY <1>2 DEF Send, Refuse, AddHead, m
  <2>4. /\ ToSet(<<m>> \o list) = ToSet(list) \cup {m}
        /\ ToSet(Append(accepted, m)) = ToSet(accepted) \cup {m}
    BY <2>1, QueueFacts DEF TaskTypes
  <2>5. \/ Known' = Known \cup {m} /\ lost' = lost
        \/ Known' = Known /\ lost' \in {lost, lost \cup {m}}
    BY <2>3, <2>4 DEF Known
  <2>6. lost' \cap Known' = {}
    BY <2>2, <2>5 DEF Numbered
  <2>7. ASSUME NEW n \in Known' \cup lost'
        PROVE  n[2] <= sent'[n[1]] /\ (n[1] \in calling' => n[2] < sent'[n[1]])
    <3>1. CASE n = m
      BY <2>1, <2>3, <3>1
    <3>2. CASE n \in Known \cup lost
      BY <2>3, <3>2 DEF Numbered
    <3> QED  BY <2>5, <3>1, <3>2
  <2> QED  BY <2>6, <2>7 DEF Numbered
<1>3. CASE Receive
  BY <1>3, TakeKnown, NumberedFrame DEF Receive, Take, NothingListed, Known
<1>4. CASE LookAgain
  BY <1>4, TakeKnown, NumberedFrame DEF LookAgain, Take, NothingListed, Known
<1>5. CASE WakeUp \/ StopTask \/ Unblock \/ UNCHANGED msgTaskVars
  <2>1. UNCHANGED <<list, inHand, accepted, handled, deallocated, lost, sent, calling>>
    BY <1>5 DEF WakeUp, StopTask, Unblock, msgTaskVars
  <2> QED  BY <2>1, NumberedFrame DEF Known
<1>6. CASE Proc
  <2>1. ToSet(handled \o inHand) = ToSet(handled) \cup ToSet(inHand) /\ ToSet(<<>>) = {}
    <3>1. ToSet(<<>>) = {}
      BY DEF ToSet
    <3> QED  BY <3>1, JoinFacts DEF TaskTypes
  <2>2. Known' \subseteq Known
    BY <1>6, <2>1 DEF Proc, Known
  <2> QED  BY <1>6, <2>2, NumberedFrame DEF Proc
<1>7. CASE EndThread
  BY <1>7, DropKnown, NumberedFrame DEF EndThread
<1>8. CASE LeaveTask
  BY <1>8, DropKnown, NumberedFrame DEF LeaveTask
<1> QED  BY <1>1, <1>2, <1>3, <1>4, <1>5, <1>6, <1>7, <1>8 DEF TaskNext

\* Nothing is lost, nor a queue used that is gone, when nobody is in a call of a task that
\* is stopped; and otherwise only what the queue refused.
THEOREM TaskLosesNothing ==
  ASSUME MaxSends \in Nat
  PROVE  TaskSpec => []NothingLost
<1> DEFINE Sound == TaskTypes /\ Shared /\ Kept /\ Numbered
<1>1. TaskInit => Sound
  <2> SUFFICES ASSUME TaskInit PROVE Sound
    OBVIOUS
  <2>1. Known = {}
    BY DEF TaskInit, Known, ToSet
  <2> QED  BY <2>1, TaskTypesInit DEF TaskInit, Shared, Kept, Numbered
<1>2. Sound /\ [TaskNext]_msgTaskVars => Sound'
  BY TaskTypesStep, SharedStep, KeptStep, NumberedStep
<1>3. Sound => NothingLost
  BY DEF Kept, Numbered, Known, NothingLost
<1> QED  BY <1>1, <1>2, <1>3, PTL DEF TaskSpec

-----------------------------------------------------------------------------
\* How many messages the thread has begun.
Begun == Len(handled) + Len(inHand)

\* What the queue took is what was begun, in that order, and the queue from its tail to its
\* head; or, when the queue is gone, what was freed.
Ordered ==
  /\ inHand = <<>> \/ (thread = "proc" /\ Len(inHand) = 1)
  /\ Begun <= Len(accepted)
  /\ \A i \in 1 .. Len(handled) : accepted[i] = handled[i]
  /\ \A i \in 1 .. Len(inHand) : accepted[Len(handled) + i] = inHand[i]
  /\ queueAlive => /\ Len(accepted) = Begun + Len(list) /\ deallocated = {}
                   /\ \A i \in 1 .. Len(list) : list[i] = accepted[Begun + Len(list) + 1 - i]
  /\ ~queueAlive => deallocated = {accepted[i] : i \in Begun + 1 .. Len(accepted)}
  /\ \A i, j \in 1 .. Len(accepted) : accepted[i] = accepted[j] => i = j

LEMMA OrderedFrame ==
  ASSUME Ordered, UNCHANGED <<list, inHand, accepted, handled, deallocated, queueAlive>>,
         thread = "proc" => thread' = "proc"
  PROVE  Ordered'
BY DEF Ordered, Begun

\* Taking a message from the tail.
LEMMA OrderedTake ==
  ASSUME TaskTypes, Ordered, queueAlive, thread # "proc", list # <<>>, Take,
         UNCHANGED <<accepted, handled, deallocated, queueAlive>>
  PROVE  Ordered'
<1>1. inHand = <<>> /\ Len(inHand) = 0
  BY DEF Ordered
<1>2. /\ inHand' = <<list[Len(list)]>> /\ list' = SubSeq(list, 1, Len(list) - 1)
      /\ thread' = "proc"
  BY DEF Take, RemoveTail, Last, Front
<1>3. /\ Len(list) \in Nat /\ Len(list) >= 1 /\ Len(list') = Len(list) - 1
      /\ \A i \in 1 .. Len(list) - 1 : list'[i] = list[i]
      /\ Len(inHand') = 1 /\ inHand'[1] = list[Len(list)]
      /\ Len(handled) \in Nat /\ Len(accepted) \in Nat
  BY <1>2 DEF TaskTypes
<1>4. Begun = Len(handled) /\ Begun' = Len(handled) + 1
  BY <1>1, <1>3 DEF Begun
<1>5. Len(accepted) = Len(handled) + Len(list) /\ deallocated = {}
  BY <1>4 DEF Ordered
<1>6. list[Len(list)] = accepted[Len(handled) + 1]
  BY <1>3, <1>4 DEF Ordered
<1>7. \A i \in 1 .. Len(inHand') : accepted'[Len(handled') + i] = inHand'[i]
  BY <1>3, <1>6
<1>8. ASSUME NEW i \in 1 .. Len(list')
      PROVE  list'[i] = accepted'[Begun' + Len(list') + 1 - i]
  <2>1. i \in 1 .. Len(list) /\ list'[i] = list[i]
    BY <1>3
  <2>2. list[i] = accepted[Len(handled) + Len(list) + 1 - i]
    BY <1>4, <2>1 DEF Ordered
  <2>3. Begun' + Len(list') + 1 - i = Len(handled) + Len(list) + 1 - i
    BY <1>3, <1>4, <2>1
  <2> QED  BY <2>1, <2>2, <2>3
<1>9. Begun' <= Len(accepted') /\ Len(accepted') = Begun' + Len(list')
  BY <1>3, <1>4, <1>5
<1> QED  BY <1>2, <1>3, <1>5, <1>7, <1>8, <1>9 DEF Ordered

\* A message that was not known is added at the head.
LEMMA OrderedAdd ==
  ASSUME TaskTypes, Ordered, queueAlive, NEW m \in TaskMessages, m \notin ToSet(accepted),
         AddHead(m), accepted' = Append(accepted, m),
         UNCHANGED <<inHand, handled, deallocated, queueAlive>>,
         thread = "proc" => thread' = "proc"
  PROVE  Ordered'
<1>1. /\ Len(accepted) \in Nat /\ Len(list) \in Nat /\ Len(handled) \in Nat /\ Len(inHand) \in Nat
      /\ Len(accepted') = Len(accepted) + 1 /\ accepted'[Len(accepted) + 1] = m
      /\ \A i \in 1 .. Len(accepted) : accepted'[i] = accepted[i]
  BY DEF TaskTypes
<1>2. /\ Len(list') = Len(list) + 1 /\ list'[1] = m
      /\ \A i \in 2 .. Len(list) + 1 : list'[i] = list[i - 1]
  BY DEF TaskTypes, AddHead
<1>3. Begun' = Begun /\ Begun \in Nat /\ Len(accepted) = Begun + Len(list) /\ Len(inHand) <= 1
  <2>1. Begun' = Begun /\ Begun \in Nat
    BY <1>1 DEF Begun
  <2>2. Len(accepted) = Begun + Len(list)
    BY DEF Ordered
  <2>3. Len(inHand) <= 1
    <3>1. inHand = <<>> \/ Len(inHand) = 1
      BY DEF Ordered
    <3> QED  BY <3>1
  <2> QED  BY <2>1, <2>2, <2>3
<1>4. ASSUME NEW i \in 1 .. Len(list')
      PROVE  list'[i] = accepted'[Begun' + Len(list') + 1 - i]
  <2>1. CASE i = 1
    BY <1>1, <1>2, <1>3, <2>1
  <2>2. CASE i # 1
    <3>1. i \in 2 .. Len(list) + 1 /\ i - 1 \in 1 .. Len(list)
      BY <1>1, <1>2, <2>2
    <3>2. list'[i] = accepted[Begun + Len(list) + 1 - (i - 1)]
      BY <1>2, <3>1 DEF Ordered
    <3>3. /\ Begun + Len(list) + 1 - (i - 1) \in 1 .. Len(accepted)
          /\ Begun + Len(list) + 1 - (i - 1) = Begun' + Len(list') + 1 - i
      BY <1>1, <1>2, <1>3, <3>1
    <3> QED  BY <1>1, <3>2, <3>3
  <2> QED  BY <2>1, <2>2
<1>5. \A i \in 1 .. Len(accepted) : accepted[i] # m
  BY DEF ToSet, TaskTypes
<1>6. ASSUME NEW i \in 1 .. Len(accepted'), NEW j \in 1 .. Len(accepted'),
             accepted'[i] = accepted'[j]
      PROVE  i = j
  <2>1. \A k \in 1 .. Len(accepted') : k \in 1 .. Len(accepted) \/ k = Len(accepted) + 1
    BY <1>1
  <2> QED  BY <1>1, <1>5, <1>6, <2>1 DEF Ordered
<1>7. \A i \in 1 .. Len(handled) : accepted'[i] = handled[i]
  <2>1. \A i \in 1 .. Len(handled) : i \in 1 .. Len(accepted)
    BY <1>1, <1>3 DEF Begun
  <2> QED  BY <1>1, <2>1 DEF Ordered
<1>8. \A i \in 1 .. Len(inHand) : accepted'[Len(handled) + i] = inHand[i]
  <2>1. \A i \in 1 .. Len(inHand) : Len(handled) + i \in 1 .. Len(accepted)
    BY <1>1, <1>3 DEF Begun
  <2> QED  BY <1>1, <2>1 DEF Ordered
<1>9. /\ Len(accepted') = Begun' + Len(list') /\ Begun' <= Len(accepted')
  BY <1>1, <1>2, <1>3
<1>10. deallocated = {} /\ (inHand = <<>> \/ (thread = "proc" /\ Len(inHand) = 1))
  BY DEF Ordered
<1> QED  BY <1>4, <1>6, <1>7, <1>8, <1>9, <1>10 DEF Ordered

\* The last who shares the queue frees what is left of it.
LEMMA OrderedDrop ==
  ASSUME TaskTypes, Ordered, Shared, NEW h, h \in holders, Drop(h), thread # "proc",
         UNCHANGED <<inHand, accepted, handled>>
  PROVE  Ordered'
<1>1. CASE holders # {h}
  BY <1>1, OrderedFrame DEF Drop
<1>2. CASE holders = {h}
  <2>1. /\ list' = <<>> /\ deallocated' = deallocated \cup ToSet(list) /\ queueAlive' = FALSE
        /\ Begun' = Begun /\ queueAlive
    BY <1>2 DEF Drop, Destroy, Flush, Begun, Shared
  <2>2. /\ deallocated = {} /\ Len(accepted) = Begun + Len(list)
        /\ \A i \in 1 .. Len(list) : list[i] = accepted[Begun + Len(list) + 1 - i]
        /\ inHand = <<>>
    BY <2>1 DEF Ordered
  <2>3. Begun \in Nat /\ Len(list) \in Nat
    BY DEF Begun, TaskTypes
  <2>4. ToSet(list) = {accepted[i] : i \in Begun + 1 .. Len(accepted)}
    <3>1. ToSet(list) = {list[i] : i \in 1 .. Len(list)}
      BY DEF ToSet, TaskTypes
    <3>2. ASSUME NEW i \in 1 .. Len(list)
          PROVE  list[i] \in {accepted[k] : k \in Begun + 1 .. Len(accepted)}
      <4>1. Begun + Len(list) + 1 - i \in Begun + 1 .. Len(accepted)
        BY <2>2, <2>3
      <4> QED  BY <2>2, <4>1
    <3>3. ASSUME NEW k \in Begun + 1 .. Len(accepted)
          PROVE  accepted[k] \in {list[i] : i \in 1 .. Len(list)}
      <4>1. /\ Begun + Len(list) + 1 - k \in 1 .. Len(list)
            /\ Begun + Len(list) + 1 - (Begun + Len(list) + 1 - k) = k
        BY <2>2, <2>3
      <4>2. list[Begun + Len(list) + 1 - k] = accepted[k]
        BY <2>2, <4>1
      <4> QED  BY <4>1, <4>2
    <3> QED  BY <3>1, <3>2, <3>3
  <2> QED  BY <2>1, <2>2, <2>4 DEF Ordered
<1> QED  BY <1>1, <1>2

LEMMA OrderedStep ==
  ASSUME TaskTypes, Shared, Numbered, Ordered, [TaskNext]_msgTaskVars
  PROVE  Ordered'
<1>1. ASSUME NEW s \in Senders, Call(s) PROVE Ordered'
  BY <1>1, OrderedFrame DEF Call
<1>2. ASSUME NEW s \in Senders, Send(s) PROVE Ordered'
  <2> DEFINE m == <<s, sent[s]>>
  <2>1. m \in TaskMessages /\ m[1] = s /\ m[2] = sent[s] /\ sent[s] \in Nat
    BY <1>2 DEF Send, TaskMessages, TaskTypes
  <2>2. m \notin ToSet(accepted)
    BY <1>2, <2>1 DEF Send, Numbered, Known
  <2> HIDE DEF m
  <2>3. thread = "proc" => thread' = "proc"
    BY <1>2 DEF Send, Refuse, Signal
  <2>4. CASE UNCHANGED <<list, accepted>>
    BY <1>2, <2>3, <2>4, OrderedFrame DEF Send
  <2>5. CASE queueAlive /\ AddHead(m) /\ accepted' = Append(accepted, m)
    BY <1>2, <2>1, <2>2, <2>3, <2>5, OrderedAdd DEF Send
  <2> QED  BY <1>2, <2>4, <2>5 DEF Send, Refuse, m
<1>3. CASE Receive
  <2>1. queueAlive /\ thread # "proc"
    BY <1>3 DEF Receive, Shared
  <2>2. CASE list # <<>> /\ Take
    BY <1>3, <2>1, <2>2, OrderedTake DEF Receive
  <2>3. CASE UNCHANGED <<list, inHand>>
    BY <1>3, <2>1, <2>3, OrderedFrame DEF Receive
  <2> QED  BY <1>3, <2>2, <2>3 DEF Receive, NothingListed
<1>4. CASE LookAgain
  <2>1. queueAlive /\ thread # "proc"
    BY <1>4 DEF LookAgain, Shared
  <2>2. CASE list # <<>> /\ Take
    BY <1>4, <2>1, <2>2, OrderedTake DEF LookAgain
  <2>3. CASE UNCHANGED <<list, inHand>>
    BY <1>4, <2>1, <2>3, OrderedFrame DEF LookAgain
  <2> QED  BY <1>4, <2>2, <2>3 DEF LookAgain, NothingListed
<1>5. CASE Proc
  <2>1. /\ handled' = handled \o inHand /\ inHand' = <<>> /\ thread' = "run"
        /\ UNCHANGED <<list, accepted, deallocated, queueAlive>>
    BY <1>5 DEF Proc
  <2>2. /\ Len(handled) \in Nat /\ Len(inHand) \in Nat /\ Len(accepted) \in Nat
        /\ Len(handled') = Len(handled) + Len(inHand) /\ Len(inHand') = 0
        /\ \A i \in 1 .. Len(handled) : handled'[i] = handled[i]
        /\ \A i \in Len(handled) + 1 .. Len(handled') : handled'[i] = inHand[i - Len(handled)]
    BY <2>1 DEF TaskTypes
  <2>3. Begun' = Begun
    BY <2>2 DEF Begun
  <2>4. ASSUME NEW i \in 1 .. Len(handled') PROVE accepted[i] = handled'[i]
    <3>1. CASE i \in 1 .. Len(handled)
      BY <2>2, <3>1 DEF Ordered
    <3>2. CASE i \in Len(handled) + 1 .. Len(handled')
      <4>1. i - Len(handled) \in 1 .. Len(inHand) /\ Len(handled) + (i - Len(handled)) = i
        BY <2>2, <3>2
      <4>2. accepted[Len(handled) + (i - Len(handled))] = inHand[i - Len(handled)]
        BY <4>1 DEF Ordered
      <4> QED  BY <2>2, <3>2, <4>1, <4>2
    <3> QED  BY <2>2, <3>1, <3>2
  <2>5. \A i \in 1 .. Len(inHand') : accepted'[Len(handled') + i] = inHand'[i]
    BY <2>2
  <2> QED  BY <2>1, <2>3, <2>4, <2>5 DEF Ordered
<1>6. CASE EndThread
  BY <1>6, OrderedDrop DEF EndThread, Shared
<1>7. CASE WakeUp \/ StopTask \/ Unblock \/ UNCHANGED msgTaskVars
  <2>1. /\ UNCHANGED <<list, inHand, accepted, handled, deallocated, queueAlive>>
        /\ thread = "proc" => thread' = "proc"
    BY <1>7 DEF WakeUp, StopTask, Unblock, Signal, msgTaskVars
  <2> QED  BY <2>1, OrderedFrame
<1>8. CASE LeaveTask
  <2>1. CASE holders = {"owner"}
    BY <1>8, <2>1, OrderedDrop DEF LeaveTask, Shared
  <2>2. CASE holders # {"owner"}
    BY <1>8, <2>2, OrderedFrame DEF LeaveTask, Drop
  <2> QED  BY <2>1, <2>2
<1> QED  BY <1>1, <1>2, <1>3, <1>4, <1>5, <1>6, <1>7, <1>8 DEF TaskNext

\* A sequence without repetitions has as many elements as places.
LEMMA Injective ==
  ASSUME NEW S, NEW q \in Seq(S), \A i, j \in 1 .. Len(q) : q[i] = q[j] => i = j
  PROVE  Cardinality(ToSet(q)) = Len(q)
<1>1. Len(q) \in Nat /\ DOMAIN q = 1 .. Len(q) /\ ToSet(q) = {q[i] : i \in 1 .. Len(q)}
  BY DEF ToSet
<1>2. q \in [1 .. Len(q) -> ToSet(q)]
  BY <1>1
<1>3. q \in Bijection(1 .. Len(q), ToSet(q))
  BY <1>1, <1>2 DEF Bijection, Injection, Surjection, IsInjective
<1>4. ExistsBijection(1 .. Len(q), ToSet(q))
  BY <1>3 DEF ExistsBijection
<1> QED  BY <1>1, <1>4, FS_CountingElements

LEMMA BeginFacts ==
  ASSUME NEW S, NEW q \in Seq(S), NEW n \in Nat, n <= Len(q)
  PROVE  /\ SubSeq(q, 1, n) \in Seq(S) /\ Len(SubSeq(q, 1, n)) = n
         /\ \A i \in 1 .. n : SubSeq(q, 1, n)[i] = q[i]
OBVIOUS

\* The order of the sequences is what EachOnce says.
LEMMA OrderedOnce == ASSUME TaskTypes, Ordered PROVE EachOnce
<1> DEFINE begun == handled \o inHand
           rest == SubSeq(accepted, Len(begun) + 1, Len(accepted))
<1>1. /\ Len(handled) \in Nat /\ Len(inHand) \in Nat /\ Len(accepted) \in Nat /\ Len(list) \in Nat
      /\ begun \in Seq(TaskMessages) /\ Len(begun) = Len(handled) + Len(inHand)
      /\ \A i \in 1 .. Len(handled) : begun[i] = handled[i]
      /\ \A i \in Len(handled) + 1 .. Len(handled) + Len(inHand) : begun[i] = inHand[i - Len(handled)]
  BY DEF TaskTypes
<1>2. Len(begun) = Begun /\ Len(begun) <= Len(accepted)
  BY <1>1 DEF Begun, Ordered
<1>3. ASSUME NEW i \in 1 .. Len(begun) PROVE begun[i] = accepted[i]
  <2>1. CASE i \in 1 .. Len(handled)
    BY <1>1, <2>1 DEF Ordered
  <2>2. CASE i \in Len(handled) + 1 .. Len(begun)
    <3>1. i - Len(handled) \in 1 .. Len(inHand) /\ Len(handled) + (i - Len(handled)) = i
      BY <1>1, <2>2
    <3>2. accepted[Len(handled) + (i - Len(handled))] = inHand[i - Len(handled)]
      BY <3>1 DEF Ordered
    <3> QED  BY <1>1, <2>2, <3>1, <3>2
  <2> QED  BY <1>1, <2>1, <2>2
<1> HIDE DEF begun
<1>4. SubSeq(begun, 1, Len(begun)) = SubSeq(accepted, 1, Len(begun))
  <2>1. /\ SubSeq(begun, 1, Len(begun)) \in Seq(TaskMessages)
        /\ SubSeq(accepted, 1, Len(begun)) \in Seq(TaskMessages)
        /\ Len(SubSeq(begun, 1, Len(begun))) = Len(begun)
        /\ Len(SubSeq(accepted, 1, Len(begun))) = Len(begun)
        /\ \A i \in 1 .. Len(begun) : SubSeq(begun, 1, Len(begun))[i] = begun[i]
        /\ \A i \in 1 .. Len(begun) : SubSeq(accepted, 1, Len(begun))[i] = accepted[i]
    <3>1. accepted \in Seq(TaskMessages) /\ Len(begun) \in Nat /\ Len(begun) <= Len(begun)
      BY <1>1, <1>2 DEF TaskTypes
    <3> QED  BY <1>1, <1>2, <3>1, BeginFacts
  <2> QED  BY <1>3, <2>1
<1>5. IsPrefix(begun, accepted)
  BY <1>2, <1>4 DEF IsPrefix
<1>6. /\ rest \in Seq(TaskMessages) /\ Len(rest) = Len(accepted) - Len(begun)
      /\ DOMAIN rest = 1 .. Len(rest)
      /\ \A i \in 1 .. Len(accepted) - Len(begun) : rest[i] = accepted[Len(begun) + i]
  BY <1>1, <1>2 DEF TaskTypes
<1> HIDE DEF rest
<1>7. ASSUME queueAlive PROVE rest = Reverse(list)
  <2>1. Len(rest) = Len(list)
    BY <1>1, <1>2, <1>6, <1>7 DEF Ordered
  <2>2. ASSUME NEW i \in 1 .. Len(list) PROVE rest[i] = list[(Len(list) - i) + 1]
    <3>1. /\ (Len(list) - i) + 1 \in 1 .. Len(list)
          /\ Begun + Len(list) + 1 - ((Len(list) - i) + 1) = Begun + i
      BY <1>1, <1>2
    <3>2. list[(Len(list) - i) + 1] = accepted[Begun + i]
      BY <1>7, <3>1 DEF Ordered
    <3> QED  BY <1>2, <1>6, <2>1, <3>2
  <2>3. rest = [i \in 1 .. Len(rest) |-> rest[i]]
    BY <1>6
  <2> QED  BY <2>1, <2>2, <2>3 DEF Reverse
<1>8. ASSUME ~queueAlive PROVE ToSet(rest) = deallocated
  <2>1. deallocated = {accepted[i] : i \in Begun + 1 .. Len(accepted)}
    BY <1>8 DEF Ordered
  <2>2. ToSet(rest) = {rest[i] : i \in 1 .. Len(rest)}
    BY <1>6 DEF ToSet
  <2>3. ASSUME NEW i \in 1 .. Len(rest) PROVE rest[i] \in deallocated
    <3>1. Begun + i \in Begun + 1 .. Len(accepted) /\ i \in 1 .. Len(accepted) - Len(begun)
      BY <1>1, <1>2, <1>6
    <3>2. rest[i] = accepted[Begun + i]
      BY <1>2, <1>6, <3>1
    <3> QED  BY <2>1, <3>1, <3>2
  <2>4. ASSUME NEW k \in Begun + 1 .. Len(accepted) PROVE accepted[k] \in ToSet(rest)
    <3>1. k - Begun \in 1 .. Len(rest) /\ Begun + (k - Begun) = k
      BY <1>1, <1>2, <1>6
    <3>2. rest[k - Begun] = accepted[k]
      BY <1>2, <1>6, <3>1
    <3> QED  BY <2>2, <3>1, <3>2
  <2> QED  BY <2>1, <2>2, <2>3, <2>4
<1>9. Cardinality(ToSet(accepted)) = Len(accepted)
  BY Injective DEF TaskTypes, Ordered
<1> QED  BY <1>5, <1>7, <1>8, <1>9 DEF EachOnce, begun, rest

\* The thread handles what the queue took, in that order and each message once; the rest is
\* in the queue, or freed with it.
THEOREM TaskHandlesEachOnce ==
  ASSUME MaxSends \in Nat
  PROVE  TaskSpec => []EachOnce
<1> DEFINE Sound == TaskTypes /\ Shared /\ Numbered /\ Ordered
<1>1. TaskInit => Sound
  <2> SUFFICES ASSUME TaskInit PROVE Sound
    OBVIOUS
  <2>1. Known = {}
    BY DEF TaskInit, Known, ToSet
  <2>2. Ordered
    <3>1. Begun = 0
      BY DEF TaskInit, Begun
    <3> QED  BY <3>1 DEF TaskInit, Ordered
  <2> QED  BY <2>1, <2>2, TaskTypesInit DEF TaskInit, Shared, Numbered
<1>2. Sound /\ [TaskNext]_msgTaskVars => Sound'
  BY TaskTypesStep, SharedStep, NumberedStep, OrderedStep
<1>3. Sound => EachOnce
  BY OrderedOnce
<1> QED  BY <1>1, <1>2, <1>3, PTL DEF TaskSpec

=============================================================================
