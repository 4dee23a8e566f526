------------------------------ MODULE MCClients ------------------------------
(***************************************************************************)
(* Small instances of models of those who ask the HAL for something, side  *)
(* by side: the initial state chooses one, by part, and the behaviour      *)
(* stays in it.                                                            *)
(*   api       two clients of LocationAPI without sessions, an instance    *)
(*             this module extends                                         *)
(*   sessions  one address of it, whose clients start sessions             *)
(*   batching  the framework's batching session                            *)
(*   geofence  the framework's geofences, an extended instance again       *)
(*   lock      location enabled and disabled, the modem restarts           *)
(*   sats      satellites and constellations, the modem restarts           *)
(*   networks  networks and those who subscribed to them, an instance that *)
(*             this module extends too                                     *)
(*   items     other data items, the XTRA daemon restarts                  *)
(*   masks     what the modem reports, which the clients' callbacks        *)
(*             decide, an extended instance again                          *)
(***************************************************************************)
EXTENDS LocationApi, SystemStatus, EventMask, GeofenceClient, TLC

CONSTANTS
  Parts, a, b, NoSession, CallsLate, v1, v2, n1, n2, wifi, mobile, hub, Default,
  Refused, Overlap, f1, f2, g1, g2

VARIABLES
  part,
  mState, cache, delivered, reported, flushing, dict, queued, pc, inbox, runs, apiCalls,
  wanted, refused, flushOwed,
  conf, svIds, svTypes, tunc, qLock, afw, engineKnown, heldConfigs, adapterQ, locApiQ,
  nvram, modemOn, reopens, xtraLock, due, lastAnswer, lastSet

Batching == INSTANCE BatchingClient WITH
  Sessions <- 1 .. 2, MayFail <- TRUE, MaxLocations <- 3, MaxUnderway <- 1

batchingOnly == <<mState, cache, delivered, reported, flushing, dict, queued, pc, inbox,
                  runs, apiCalls, wanted, refused, flushOwed>>

Lock == INSTANCE Configuration WITH
  ConfValues <- {v1, v2}, NiValues <- {v2}, FlagSets <- {{"lock", "supl"}}, Inject <- TRUE,
  Constellations <- {}, MayRefuse <- {"lock", "supl"}, Uses <- {"config", "enable"}, SetsTypes <- FALSE,
  MaxCommanded <- 2, MaxReopens <- 1

Sats == INSTANCE Configuration WITH
  ConfValues <- {v1, v2}, NiValues <- {}, FlagSets <- {{"ids"}}, Inject <- TRUE,
  Constellations <- {"glo"}, MayRefuse <- {"ids"}, Uses <- {"config", "svs", "tunc"}, SetsTypes <- FALSE,
  MaxCommanded <- 2, MaxReopens <- 1

configOnly == <<conf, svIds, svTypes, tunc, qLock, afw, engineKnown, heldConfigs, adapterQ,
                locApiQ, nvram, modemOn, reopens, xtraLock, due, lastAnswer, lastSet>>

\* The network n1 is a wifi, the other a mobile one.
OneEach == [n \in Networks |-> IF n = n1 THEN wifi ELSE mobile]

Items == INSTANCE SystemStatus WITH
  Networks <- {n1}, TypeOf <- [n \in {n1} |-> wifi], Changing <- {"tac", "lock"},
  Listeners <- {hub}, Listened <- {"tac"}, MaxTasks <- 2

Offered == [gnss |-> {{"nmea"}, {"data", "system"}}, geofence |-> {{"breach"}},
            batching |-> {}]

ClientsInit ==
  /\ part \in Parts
  /\ ApiInit /\ Batching!BatchingClientInit /\ GeofenceClientInit
  /\ Lock!ConfigInit /\ MaskInit
  /\ IF part = "items" THEN Items!StatusInit ELSE StatusInit

AsksApi == UNCHANGED <<configOnly, statusVars>>
AsksElse == UNCHANGED <<apiVars, batchingOnly, fenceVars>>

\* The framework's ids are alike, and so are the sessions of geofences.
FenceSymmetry == Permutations(FenceIds) \cup Permutations(FenceSessions)

OthersNext ==
  \/ /\ \/ part = "api" /\ ApiNext /\ \A k \in Kinds : UsedIds(k)' = {}
        \/ part = "sessions" /\ ApiNext /\ object'[b] = "free"
     /\ AsksApi /\ UNCHANGED <<batchingOnly, fenceVars>>
  \/ part = "batching" /\ Batching!BatchingClientNext /\ AsksApi
     /\ UNCHANGED <<apiVars, fenceVars>>
  \/ part = "geofence" /\ GeofenceClientNext /\ AsksApi
     /\ UNCHANGED <<apiVars, batchingOnly>>
  \/ part = "lock" /\ Lock!ConfigNext /\ AsksElse /\ UNCHANGED statusVars
  \/ part = "sats" /\ Sats!ConfigNext /\ AsksElse /\ UNCHANGED statusVars
  \/ part = "networks" /\ StatusNext /\ AsksElse /\ UNCHANGED configOnly
  \/ part = "items" /\ Items!StatusNext /\ AsksElse /\ UNCHANGED configOnly

ClientsNext ==
  /\ UNCHANGED part
  /\ \/ OthersNext /\ UNCHANGED maskVars
     \/ part = "masks" /\ MaskNext /\ AsksElse /\ UNCHANGED <<configOnly, statusVars>>

clientsVars == <<part, apiVars, batchingOnly, fenceVars, configOnly, statusVars, maskVars>>

ClientsSpec == ClientsInit /\ [][ClientsNext]_clientsVars

-----------------------------------------------------------------------------

\* The modem has the configuration that clients set, and they get the results.
ConfigHolds ==
  IF part = "sats"
  THEN Sats!ConfigAgrees /\ Sats!IdsKept /\ Sats!ErrorsReach /\ Sats!ConfigTypeOK
  ELSE Lock!LockAgrees /\ Lock!MoFollows /\ Lock!ErrorsReach /\ Lock!ConfigTypeOK

\* A blacklist that was set with success is not taken back.
IdsKept == Sats!IdsKept

=============================================================================
