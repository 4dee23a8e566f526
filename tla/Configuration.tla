----------------------------- MODULE Configuration -----------------------------
(***************************************************************************)
(* The configuration of the location engine, gps/gnss/GnssAdapter.cpp: the *)
(* lock of the modem under the two behaviours the adapter knows, the items *)
(* of GnssConfig, the blacklist of satellites and the constellations, what *)
(* of it is injected again when the modem comes back, and the answers.     *)
(*                                                                         *)
(* Messages of the adapter run on its MsgTask; what they ask of the modem  *)
(* is queued to the task of LocApi with the values of that moment.         *)
(***************************************************************************)
EXTENDS SequencesExt, FiniteSetsExt

CONSTANTS
  ConfValues,    \* values of the items that are not the lock
  NiValues,      \* those with which the network may not locate the device
  Constellations,  \* those that can be enabled or disabled
  Default,       \* what the modem has of its own
  Refused,       \* what it has of an item whose last call it refused
  FlagSets,      \* combinations of items that clients configure at once
  Inject,        \* AGPS_CONFIG_INJECT
  MayRefuse,     \* items that the modem may refuse
  Overlap,       \* what is configured while other commands or a restart are under way
  Uses,          \* the commands that clients use
  SetsTypes,     \* UpdateSvConfig gives new constellations, not only the default
  MaxCommanded,  \* bound on what is under way when a command comes
  MaxReopens     \* bound on the restarts of the modem

VARIABLES
  conf,        \* ContextBase::mGps_conf
  svIds,       \* mBlacklistedSvIds and mGnssSvIdConfig
  svTypes,     \* mGnssSvTypeConfig
  tunc,        \* mLocConfigInfo.tuncConfigInfo; Default: not valid
  qLock,       \* mSupportNfwControl: the lock is a state, not a mask for NI
  afw,         \* mAfwControlId # 0: location is enabled
  engineKnown, \* isEngineCapabilitiesKnown()
  heldConfigs, \* mPendingMsgs
  adapterQ,    \* messages of the adapter
  locApiQ,     \* messages of LocApi
  nvram,       \* what the modem has of each item
  modemOn, reopens,
  xtraLock,    \* lock that the XTRA observer was told
  due,         \* number of commands that are not answered
  lastAnswer,  \* the last answer to a config command, with what was true
  lastSet       \* blacklist and tunc of the last commands that the adapter handled, and
                \* whether the last blacklist that it asked for had no whole constellations

configVars == <<conf, svIds, svTypes, tunc, qLock, afw, engineKnown, heldConfigs, adapterQ,
                locApiQ, nvram, modemOn, reopens, xtraLock, due, lastAnswer, lastSet>>

\* GnssConfigFlagsBits from low to high.  "supl" stands for the items with a value
\* of their own in mGps_conf, "es" for those that only the adapter uses.
BitOrder == <<"lock", "supl", "server", "es", "ids", "elevation">>
\* The order in which gnssUpdateConfig counts them.
EngineOrder == <<"lock", "server", "supl", "ids", "elevation">>
ModemItems == {"lock", "supl", "server", "ids", "elevation", "types", "tunc"}
Locks == SUBSET {"MO", "NI"}
\* GnssSvTypeConfig: the constellations that are enabled and those that are disabled.
\* Default stands for the one without a size, NoTypes for one that names none.
SvType == [on : SUBSET Constellations, off : SUBSET Constellations]
NoTypes == [on |-> {}, off |-> {}]
EnabledIn(t) == IF t = Default THEN {} ELSE t.on
DisabledIn(t) == IF t = Default THEN {} ELSE t.off
\* A blacklist for the modem: satellites, and constellations all of whose satellites
\* are listed too, which is how a constellation is disabled.
IdsAlone(v) == [ids |-> v, off |-> {}]
IdsMerged(v, t) == [ids |-> v, off |-> DisabledIn(t)]
\* What is sent of a constellation config besides: only what it enables.
TypesSent(t) == IF EnabledIn(t) = {} THEN Default ELSE [on |-> EnabledIn(t), off |-> {}]

SettingsOf(item) ==
  {Default, Refused} \cup
    CASE item = "lock" -> Locks
      [] item = "ids" -> [ids : ConfValues, off : SUBSET Constellations]
      [] item = "types" -> SvType
      [] OTHER -> ConfValues

\* A lock in the mask of a config command always has MO.
LockOf(v) == IF v \in NiValues THEN {"MO", "NI"} ELSE {"MO"}
\* readConfig gives every item of the file its value.
Initially == CHOOSE v \in ConfValues : TRUE
NoAnswer == [items |-> <<>>, errs |-> <<>>, truth |-> <<>>]

ConfigTypeOK ==
  /\ conf \in [lock : Locks, supl : ConfValues, server : ConfValues, es : ConfValues]
  /\ svIds \in ConfValues /\ tunc \in ConfValues \cup {Default}
  /\ svTypes \in SvType \cup {Default}
  /\ {qLock, afw, engineKnown, modemOn} \subseteq BOOLEAN
  /\ \A i \in ModemItems : nvram[i] \in SettingsOf(i)
  /\ xtraLock \in Locks /\ due \in Nat /\ reopens \in 0 .. MaxReopens

ConfigInit ==
  /\ conf = [lock |-> {"MO", "NI"}, supl |-> Initially, server |-> Initially,
             es |-> Initially]
  /\ svIds = Initially /\ svTypes = Default /\ tunc = Default
  /\ qLock = TRUE /\ afw = FALSE
  /\ engineKnown = FALSE /\ heldConfigs = <<>>
  /\ adapterQ = <<>> /\ locApiQ = <<[kind |-> "open"]>>
  /\ nvram = [i \in ModemItems |-> Default]
  /\ modemOn = FALSE /\ reopens = 0
  /\ xtraLock = {"MO", "NI"}
  /\ due = 0 /\ lastAnswer = NoAnswer
  /\ lastSet = [ids |-> Initially, tunc |-> Default, plain |-> TRUE]

-----------------------------------------------------------------------------
(***************************************************************************)
(* Commands, on threads of their callers.                                  *)
(***************************************************************************)
KindsOf(q) == {q[k].kind : k \in DOMAIN q}
Reopening == ~modemOn \/ "engineUp" \in KindsOf(adapterQ)
ConfiguresIds(q) ==
  \E k \in DOMAIN q : q[k].kind \in {"config", "inject"} /\ "ids" \in q[k].flags

\* A thing outside of Overlap is not configured while the modem comes back nor, for
\* the satellites, while a config command for them is under way.
Calm(what) ==
  \/ what \in Overlap
  \/ /\ ~Reopening
     /\ what = "ids" => ~\E q \in {adapterQ, locApiQ, heldConfigs} : ConfiguresIds(q)
     /\ what = "tunc" => {"inject", "loadTunc"} \cap KindsOf(locApiQ) = {}

Command(m) ==
  /\ Len(adapterQ) + Len(heldConfigs) + Len(locApiQ) < MaxCommanded
  /\ due' = due + 1
  /\ adapterQ' = Append(adapterQ, m)
  /\ UNCHANGED <<conf, svIds, svTypes, tunc, qLock, afw, engineKnown, heldConfigs, locApiQ,
                 nvram, modemOn, reopens, xtraLock, lastAnswer, lastSet>>

UpdateConfig(flags, v) ==
  /\ "ids" \in flags => Calm("ids")
  /\ Command([kind |-> "config", flags |-> flags, v |-> v])

\* gnssUpdateSvTypeConfigCommand, gnssResetSvTypeConfigCommand.
UpdateSvTypes(v) == Calm("ids") /\ Command([kind |-> "svTypes", v |-> v])

\* gnssUpdateSvConfigCommand: constellations and blacklist.
UpdateSvConfig(v, w) ==
  /\ Calm("ids") /\ (w = Default \/ SetsTypes)
  /\ Command([kind |-> "svConfig", v |-> v, w |-> w])

SetTunc(v) == Calm("tunc") /\ Command([kind |-> "tunc", v |-> v])

EnableCommand(on) == Command([kind |-> IF on THEN "enable" ELSE "disable"])

\* nfwControlCommand looks at mSupportNfwControl before its message is queued.
NfwControl(on) ==
  /\ qLock
  /\ "nfw" \in Overlap \/ adapterQ \o heldConfigs = <<>>
  /\ Command([kind |-> "nfw", on |-> on])

-----------------------------------------------------------------------------
(***************************************************************************)
(* Messages of the adapter.                                                *)
(***************************************************************************)
Request == Head(adapterQ)
ModemCall(item, v, answer) == [kind |-> "call", item |-> item, v |-> v, answer |-> answer]
Ask(calls) == locApiQ' = locApiQ \o calls
Done(n) == due' = due - n

\* Slip: GPS_LOCK is taken for the state under both behaviours below.
ModemLock_State == conf.lock
\* The lock for a modem that comes back: under Q behaviour GPS_LOCK is its state,
\* under P behaviour a mask that holds while location is disabled.
ModemLock == IF qLock \/ ~afw THEN conf.lock ELSE {}

\* gnssSvTypeConfigUpdate(bool): the satellites of disabled constellations join the
\* blacklist, and the modem is told only what is enabled.
ResetTypes == <<ModemCall("types", Default, FALSE)>>
SvTypeCalls(t, sendReset) ==
  IF t = Default THEN <<>>
  ELSE (IF sendReset THEN ResetTypes ELSE <<>>)
       \o <<ModemCall("ids", IdsMerged(svIds, t), FALSE)>>
       \o (IF EnabledIn(t) # {} THEN <<ModemCall("types", TypesSent(t), FALSE)>> ELSE <<>>)
\* Constellations that were enabled are not any more.
Removes(t) == EnabledIn(svTypes) \ EnabledIn(t) # {}

\* setConfig, the functions that follow it, and the messages that were held.
HandleUp ==
  /\ Request.kind = "engineUp"
  /\ engineKnown' = TRUE
  /\ Ask(<<[kind |-> "inject", flags |-> {"lock", "supl", "server", "ids"},
            lock |-> ModemLock, supl |-> conf.supl, server |-> conf.server, ids |-> svIds],
           ModemCall("ids", IdsAlone(svIds), FALSE)>>
         \o SvTypeCalls(svTypes, FALSE))
  /\ adapterQ' = Tail(adapterQ) \o heldConfigs
  /\ heldConfigs' = <<>>
  /\ UNCHANGED <<conf, svIds, svTypes, tunc, qLock, afw, xtraLock, due, lastAnswer>>

\* Config commands wait until the engine is known.
Hold ==
  /\ Request.kind \in {"config", "svTypes"} /\ ~engineKnown
  /\ heldConfigs' = Append(heldConfigs, Request)
  /\ adapterQ' = Tail(adapterQ)
  /\ UNCHANGED <<conf, svIds, svTypes, tunc, qLock, afw, engineKnown, locApiQ, xtraLock, due,
                 lastAnswer>>

\* MsgGnssUpdateConfig.  A lock makes the adapter behave as in P: enabled, it then
\* unlocks everything the first time and leaves the modem alone later.
HandleConfig ==
  LET flags == Request.flags
      Set(item, old) == IF item \in flags THEN Request.v ELSE old
      mask == IF "lock" \in flags THEN LockOf(Request.v) ELSE conf.lock
  IN /\ Request.kind = "config" /\ engineKnown
     /\ conf' = [lock |-> mask, supl |-> Set("supl", conf.supl),
                 server |-> IF Inject THEN Set("server", conf.server) ELSE conf.server,
                 es |-> Set("es", conf.es)]
     /\ qLock' = (qLock /\ "lock" \notin flags)
     /\ Ask(<<[kind |-> "config", flags |-> flags,
               update |-> IF afw /\ ~qLock THEN flags \ {"lock"} ELSE flags,
               lock |-> IF afw THEN {} ELSE mask, v |-> Request.v,
               server |-> conf'.server]>>)
     /\ adapterQ' = Tail(adapterQ)
     /\ UNCHANGED <<svIds, svTypes, tunc, afw, engineKnown, heldConfigs, xtraLock, due,
                    lastAnswer>>

\* These two commands have no answer.  The one that resets the constellations sends the
\* blacklist without them.
HandleSvTypes ==
  LET reset == Request.v = Default
  IN /\ Request.kind = "svTypes" /\ engineKnown
     /\ svTypes' = IF reset THEN NoTypes ELSE Request.v
     /\ Ask(IF reset THEN <<ModemCall("ids", IdsAlone(svIds), FALSE)>> \o ResetTypes
            ELSE SvTypeCalls(Request.v, Removes(Request.v)))
     /\ adapterQ' = Tail(adapterQ) /\ Done(1)
     /\ UNCHANGED <<conf, svIds, tunc, qLock, afw, engineKnown, heldConfigs, xtraLock,
                    lastAnswer>>

\* gnssUpdateSvConfig: the constellations that are sent are those set before, whole, and
\* the blacklist is sent without them.
HandleSvConfig ==
  /\ Request.kind = "svConfig"
  /\ Ask((IF Request.w = Default \/ Removes(Request.w) THEN ResetTypes ELSE <<>>)
         \o (IF Request.w = Default THEN <<>>
             ELSE <<ModemCall("types", IF svTypes = Default THEN NoTypes ELSE svTypes,
                              FALSE)>>)
         \o <<ModemCall("ids", IdsAlone(Request.v), TRUE)>>)
  /\ svTypes' = Request.w /\ svIds' = Request.v
  /\ adapterQ' = Tail(adapterQ)
  /\ UNCHANGED <<conf, tunc, qLock, afw, engineKnown, heldConfigs, xtraLock, due, lastAnswer>>

HandleTunc ==
  /\ Request.kind = "tunc"
  /\ tunc' = Request.v
  /\ Ask(<<ModemCall("tunc", Request.v, TRUE)>>)
  /\ adapterQ' = Tail(adapterQ)
  /\ UNCHANGED <<conf, svIds, svTypes, qLock, afw, engineKnown, heldConfigs, xtraLock, due,
                 lastAnswer>>

\* enableCommand and disableCommand, answered at once; the XTRA observer is told.
HandleEnable ==
  LET on == Request.kind = "enable"
      state == IF ~qLock THEN conf.lock
               ELSE IF on THEN conf.lock \cap {"NI"} ELSE conf.lock \cup {"MO"}
      lock == IF on /\ ~qLock THEN {} ELSE state
  IN /\ Request.kind \in {"enable", "disable"}
     /\ IF afw = on THEN UNCHANGED <<conf, afw, locApiQ, xtraLock>>
        ELSE /\ afw' = on
             /\ conf' = [conf EXCEPT !.lock = state]
             /\ Ask(<<ModemCall("lock", lock, FALSE)>>)
             /\ xtraLock' = lock
     /\ adapterQ' = Tail(adapterQ) /\ Done(1)
     /\ UNCHANGED <<svIds, svTypes, tunc, qLock, engineKnown, heldConfigs, lastAnswer>>

HandleNfw ==
  LET lock == IF Request.on THEN conf.lock \ {"NI"} ELSE conf.lock \cup {"NI"}
  IN /\ Request.kind = "nfw"
     /\ conf' = [conf EXCEPT !.lock = lock]
     /\ Ask(<<ModemCall("lock", lock, FALSE)>>)
     /\ adapterQ' = Tail(adapterQ) /\ Done(1)
     /\ UNCHANGED <<svIds, svTypes, tunc, qLock, afw, engineKnown, heldConfigs, xtraLock,
                    lastAnswer>>

\* LocApiResponse, LocApiCollectiveResponse: reportResponse.
HandleAnswered ==
  /\ Request.kind = "answer"
  /\ lastAnswer' = IF Request.answer = NoAnswer THEN lastAnswer ELSE Request.answer
  /\ adapterQ' = Tail(adapterQ) /\ Done(1)
  /\ UNCHANGED <<conf, svIds, svTypes, tunc, qLock, afw, engineKnown, heldConfigs, locApiQ,
                 xtraLock>>

SetsIds ==
  \/ Request.kind = "config" /\ engineKnown /\ "ids" \in Request.flags
  \/ Request.kind = "svConfig"
Reconfigures == Request.kind = "engineUp" \/ (Request.kind = "svTypes" /\ engineKnown)

AdapterRuns ==
  /\ adapterQ # <<>>
  /\ \/ HandleUp \/ Hold \/ HandleConfig \/ HandleSvTypes \/ HandleSvConfig
     \/ HandleTunc \/ HandleEnable \/ HandleNfw \/ HandleAnswered
  /\ lastSet' = [ids |-> IF SetsIds THEN Request.v ELSE lastSet.ids,
                tunc |-> IF Request.kind = "tunc" THEN Request.v ELSE lastSet.tunc,
                plain |-> SetsIds \/ (lastSet.plain /\ ~Reconfigures)]
  /\ UNCHANGED <<nvram, modemOn, reopens>>

-----------------------------------------------------------------------------
(***************************************************************************)
(* Messages of LocApi, and the modem.                                      *)
(***************************************************************************)
Job == Head(locApiQ)
Reply(answer) == adapterQ' = Append(adapterQ, [kind |-> "answer", answer |-> answer])

\* The modem takes the values of new, but for what it refuses.
Takes(new, refused) ==
  nvram' = [i \in ModemItems |->
              IF ~modemOn \/ i \notin DOMAIN new THEN nvram[i]
              ELSE IF i \in refused THEN Refused ELSE new[i]]
Failing(items) == IF modemOn THEN SUBSET (items \cap MayRefuse) ELSE {items}

RunCall ==
  /\ Job.kind = "call"
  /\ \E refused \in Failing({Job.item}) : Takes([i \in {Job.item} |-> Job.v], refused)
  /\ IF Job.answer THEN Reply(NoAnswer) ELSE UNCHANGED adapterQ
  /\ UNCHANGED <<svIds, tunc, modemOn>>

\* gnssUpdateConfig: what it passes on to the modem, and one result for each of these
\* in its own order, though the caller has an id for each bit.
Passed(flags) == flags \ (IF Inject THEN {"es"} ELSE {"es", "supl", "server"})
Counted(flags) == SelectSeq(EngineOrder, LAMBDA i : i \in Passed(flags))
IdsOf(flags) == SelectSeq(BitOrder, LAMBDA i : i \in flags)
ErrorList(flags, refused) ==
  [k \in 1 .. Cardinality(flags) |->
     ~(k \in DOMAIN Counted(flags) /\ Counted(flags)[k] \in refused)]
RunConfig ==
  LET sent == Passed(Job.flags) \cap (Job.update \cup {"ids", "elevation"})
      new == [i \in sent |-> IF i = "lock" THEN Job.lock
                             ELSE IF i = "server" THEN Job.server
                             ELSE IF i = "ids" THEN IdsAlone(Job.v) ELSE Job.v]
  IN /\ Job.kind = "config"
     /\ \E refused \in Failing(sent) :
          /\ Takes(new, refused)
          /\ Reply([items |-> IdsOf(Job.flags), errs |-> ErrorList(Job.flags, refused),
                    truth |-> [i \in Job.flags |-> i \notin refused]])
     /\ svIds' = IF "ids" \in sent THEN Job.v ELSE svIds
     /\ UNCHANGED <<tunc, modemOn>>

\* The function queued by setConfig.  At its end it looks whether a tunc was set, and
\* if not loads the one of the file: the adapter may set one in between.
RunInject ==
  LET sent == Passed(Job.flags)
      new == [i \in sent |-> IF i = "ids" THEN IdsAlone(Job.ids) ELSE Job[i]]
  IN /\ Job.kind = "inject"
     /\ \E refused \in Failing(sent) : Takes(new, refused)
     /\ svIds' = Job.ids
     /\ locApiQ' = <<[kind |-> "loadTunc", first |-> tunc = Default]>> \o Tail(locApiQ)
     /\ UNCHANGED <<tunc, adapterQ, modemOn>>

RunLoadTunc ==
  /\ Job.kind = "loadTunc"
  /\ tunc' = IF Job.first THEN Initially ELSE tunc
  /\ \E refused \in Failing({"tunc"}) : Takes([i \in {"tunc"} |-> tunc'], refused)
  /\ UNCHANGED <<svIds, adapterQ, modemOn>>

RunOpen ==
  /\ Job.kind = "open"
  /\ modemOn' = TRUE
  /\ adapterQ' = Append(adapterQ, [kind |-> "engineUp"])
  /\ UNCHANGED <<svIds, tunc, nvram>>

LocApiRuns ==
  /\ locApiQ # <<>>
  /\ \/ RunInject
     \/ /\ RunOpen \/ RunCall \/ RunConfig \/ RunLoadTunc
        /\ locApiQ' = Tail(locApiQ)
  /\ UNCHANGED <<conf, svTypes, qLock, afw, engineKnown, heldConfigs, reopens, xtraLock, due,
                 lastAnswer, lastSet>>

\* The modem restarts without what it was told.
ModemRestarts ==
  /\ modemOn /\ reopens < MaxReopens
  /\ "ids" \in Overlap \/ ~ConfiguresIds(adapterQ)
  /\ modemOn' = FALSE
  /\ nvram' = [i \in ModemItems |-> Default]
  /\ locApiQ' = Append(locApiQ, [kind |-> "open"])
  /\ reopens' = reopens + 1
  /\ UNCHANGED <<conf, svIds, svTypes, tunc, qLock, afw, engineKnown, heldConfigs, adapterQ,
                 xtraLock, due, lastAnswer, lastSet>>

-----------------------------------------------------------------------------
Commands ==
  \/ /\ "config" \in Uses
     /\ \E flags \in FlagSets, v \in ConfValues : UpdateConfig(flags, v)
  \/ /\ "svs" \in Uses
     /\ \E v \in ConfValues, w \in {t \in SvType : t.on \cap t.off = {}} \cup {Default} :
          UpdateSvTypes(w) \/ UpdateSvConfig(v, w)
  \/ "tunc" \in Uses /\ \E v \in ConfValues : SetTunc(v)
  \/ "enable" \in Uses /\ \E on \in BOOLEAN : EnableCommand(on) \/ NfwControl(on)

ConfigNext == Commands \/ AdapterRuns \/ LocApiRuns \/ ModemRestarts

ConfigSpec == ConfigInit /\ [][ConfigNext]_configVars

-----------------------------------------------------------------------------
(***************************************************************************)
(* Properties.                                                             *)
(***************************************************************************)
ConfigQuiet == adapterQ = <<>> /\ locApiQ = <<>> /\ modemOn

\* When nothing is under way the modem is locked as the comment in setConfig says:
\* by the state of the lock under Q behaviour, by its mask when location is
\* disabled under P behaviour, and not at all otherwise.
LockAgrees ==
  ConfigQuiet =>
    nvram["lock"] \in {Refused, IF qLock \/ ~afw THEN conf.lock ELSE {}}

\* The modem may locate the device for its clients exactly when that is enabled,
\* and the XTRA observer knows it.
MoFollows ==
  /\ ("MO" \in xtraLock) = ~afw
  /\ ConfigQuiet /\ nvram["lock"] # Refused => ("MO" \in nvram["lock"]) = ~afw

\* When nothing is under way the modem has what the adapter has of every item, and
\* that is what clients set last, through restarts of the modem and refusals.  Disabled
\* constellations are in the blacklist it has until a blacklist alone is set: that one
\* enables them again, until the modem restarts or constellations are set.
ConfigAgrees ==
  ConfigQuiet =>
    /\ lastSet.tunc # Default => tunc = lastSet.tunc
    /\ nvram["ids"] \in
         {Refused, IF lastSet.plain THEN IdsAlone(svIds) ELSE IdsMerged(svIds, svTypes)}
    /\ nvram["types"] \in {Refused, TypesSent(svTypes)}
    /\ nvram["tunc"] \in {Refused, tunc}
    /\ Inject => \A i \in {"supl", "server"} : nvram[i] \in {Refused, conf[i]}

\* When nothing is under way the adapter has the blacklist that clients set last: a
\* configuration that was answered with success is not taken back.
IdsKept == ConfigQuiet => svIds = lastSet.ids

\* The answer to a config command gives each id the result of its own item, and
\* when nothing is under way every command was answered.
ErrorsReach ==
  /\ \A k \in DOMAIN lastAnswer.items : lastAnswer.errs[k] = lastAnswer.truth[lastAnswer.items[k]]
  /\ ConfigQuiet /\ engineKnown => due = 0
=============================================================================
