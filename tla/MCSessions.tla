------------------------------ MODULE MCSessions ------------------------------
(***************************************************************************)
(* Small instances of GnssTracking and Agps side by side: the initial      *)
(* state chooses one, by part, and the behaviour stays in it.              *)
(*   time      time based sessions of clients that do not wait: the        *)
(*             instance this module extends                                *)
(*   distance  three sessions of both kinds, clients that wait             *)
(*   agps      data connections, the modem restarts, APNs are rejected     *)
(* Intervals are in units of the minimum interval; 0 is below it, so the   *)
(* adapter raises it.                                                      *)
(***************************************************************************)
EXTENDS GnssTracking

CONSTANTS alice, bob, h1, h2, h3

VARIABLES part, state, subs, atl, toFw, fromFw, wds, connected

Opt(i, d, p) == [size |-> 1, interval |-> i, distance |-> d, power |-> p]

\* Three rates with three modes, one that falls back and one not set.
MixedOpts == {Opt(0, 0, M2), Opt(2, 0, M1), Opt(3, 0, M4), Opt(2, 0, INVALID)}
DistanceOpts == {Opt(1, 0, M2), Opt(2, 0, M2), Opt(2, 50, M2)}

\* Session 2 belongs to bob, the others to alice.
OwnerOf(sessions) == [s \in sessions |-> IF s = 2 THEN bob ELSE alice]

TimeOwner == OwnerOf(Sessions)

Distance == INSTANCE GnssTracking WITH
  Clients <- {alice, bob}, Sessions <- 1 .. 3, Owner <- OwnerOf(1 .. 3),
  Registrations <- {"ready"}, Opts <- DistanceOpts, MinInterval <- 1,
  ClientsWait <- TRUE, DistanceSupported <- TRUE, MayFail <- FALSE,
  NHzPossible <- FALSE, MayReconfigure <- FALSE, MaxSsr <- 0, MaxQueue <- 3

Agps == INSTANCE Agps WITH
  Handles <- {h1, h2, h3}, MayFail <- TRUE, MayLose <- TRUE, UsesWds <- TRUE,
  MayBadApn <- TRUE, MaxSsr <- 1, MaxQueue <- 4

\* The two models both count the restarts of the modem in ssrs.
trackingOnly == <<clients, capsKnown, timeSess, distSess, pending, mode, hubOn, nHz, speFast,
                  removing, msgs, calls, modemUp, engine, distEngine, stage, owed>>
agpsOnly == <<state, subs, atl, toFw, fromFw, wds, connected>>

SessionsInit ==
  /\ part \in {"time", "distance", "agps"}
  /\ IF part = "distance" THEN Distance!Init ELSE Init
  /\ Agps!Init

SessionsNext ==
  /\ UNCHANGED part
  /\ \/ part = "time" /\ Next /\ UNCHANGED agpsOnly
     \/ part = "distance" /\ Distance!Next /\ UNCHANGED agpsOnly
     \/ part = "agps" /\ Agps!Next /\ UNCHANGED trackingOnly

SessionsSpec == SessionsInit /\ [][SessionsNext]_<<part, vars, agpsOnly>>

-----------------------------------------------------------------------------
(***************************************************************************)
(* The properties each instance is there for, as its module states them.   *)
(***************************************************************************)
\* The modem serves the time based sessions that are listed and runs the distance based
\* ones, none of which is listed as time based too; calls are skipped only while it runs
\* at the highest rate; and a session that was stopped stays stopped, whatever it was
\* switched to.  The list of AGPS subscribers fits the state of the machine, whatever
\* fails.
SessionsHold ==
  CASE part = "time" -> TypeOK /\ EngineServes /\ FastIsTrue /\ NeverTwice /\ NoGhost
    [] part = "distance" ->
         /\ Distance!DistanceServed /\ Distance!OneKind /\ Distance!NoGhost
         /\ Distance!EngineServes
    [] part = "agps" -> Agps!TypeOK /\ Agps!ListMatchesState

=============================================================================
