--------------------------- MODULE GnssClientProofs ---------------------------
(***************************************************************************)
(* Proofs about GnssClient, for any ids, modes, items, refusals and number *)
(* of registrations and restarts of the framework.                         *)
(*                                                                         *)
(* The adapter is behind its queue, and answers behind the adapter.  What  *)
(* the framework wants is compared with what the adapter runs and what the *)
(* queue will make of it; an answer is told to whoever is registered then, *)
(* and is that of the session of then, since a start forgets the requests  *)
(* to the session before it.                                               *)
(***************************************************************************)
EXTENDS GnssClient, TLAPS

\* Requests to a session.
Commands == {"start", "stop", "update"}

\* What is said of the constants: the ids and the options that stand for none are none.
GnssClientAssumption ==
  /\ NoId \notin TrackIds /\ Unset \notin Modes /\ Unset \notin ItemValues
  /\ MayRefuseStart \in BOOLEAN
  /\ MaxCallbacks \in Nat /\ MaxCapabilities \in Nat

\* What a message carries, of each kind.
SoundMessages ==
  [k : {"start", "update"}, s : TrackIds, m : Modes]
  \cup [k : {"stop"}, s : TrackIds, m : {Unset}]
  \cup [k : {"config"}, s : {NoId}, m : Configured]

\* What a callback is about to give.
SoundCarried ==
  [k : Commands \cup {"nothing", "capabilities", "fix"}, to : 0 .. MaxCallbacks,
   c : 0 .. MaxCapabilities, ok : BOOLEAN]

TypeInv ==
  /\ GnssClientTypeOK
  /\ messages \in Seq(SoundMessages)
  /\ carried \in SoundCarried

\* Message i of the queue is a request k to the session s.
At(i, k, s) == i \in DOMAIN messages /\ messages[i].k = k /\ messages[i].s = s
Waits(k, s) == \E i \in DOMAIN messages : At(i, k, s)

\* The client and the framework agree on what is wanted.
Agreed ==
  /\ mTracking = wants /\ baseTracking = wants
  /\ wants => session \in TrackIds /\ api /\ step = "idle"
  /\ stuck => wants
  /\ step \in {"ask", "answer"} => api
  /\ ~api => session = NoId

\* A session is started once, and before anything else is said of it.
StartedOnce ==
  \A i \in DOMAIN messages : messages[i].k = "start" =>
    /\ messages[i].s \notin Running
    /\ \A j \in DOMAIN messages : messages[j].s = messages[i].s => j >= i

\* What nobody wants is stopped soon.
SoonStopped ==
  \A s \in TrackIds :
    (s \in Running \/ Waits("start", s)) /\ ~(wants /\ s = session) => Waits("stop", s)

\* What is wanted runs, or will, unless it was refused.
SoonRuns ==
  wants => /\ ~Waits("stop", session)
           /\ stuck \/ session \in Running \/ Waits("start", session)

\* Does message i say the options of the session?
Tells(i) == At(i, "start", session) \/ At(i, "update", session)

\* The last to say them says those of now, or they are those that it runs with.
SoonSet ==
  /\ \A i \in DOMAIN messages :
       Tells(i) => messages[i].m = options \/ \E j \in DOMAIN messages : j > i /\ Tells(j)
  /\ session \in Running /\ (\A i \in DOMAIN messages : ~Tells(i)) =>
       sessions[session] = options

\* The answer to the start is taken for it ...
Answers ==
  /\ session \in TrackIds /\ Waits("start", session) =>
       requests # <<>> /\ Head(requests) = "start"
  /\ wants => \A i \in DOMAIN requests : requests[i] # "stop"

\* ... and is told, with nothing of a stop behind it.
Told ==
  wants /\ ~stuck /\ ~Waits("start", session) =>
    \/ carried.k # "stop" /\ status[callback.n] = "begin"
    \/ carried.k = "start" /\ carried.ok

\* The callback that the client has, between the steps of setCallback.
Registered ==
  /\ step = "set" => \A v \in Versions \ {callback.v} : iface[v] = 0
  /\ api /\ step # "set" =>
       iface = [NoCallbacks EXCEPT ![callback.v] = callback.n] /\ callback.n > 0
  /\ ~api => iface = NoCallbacks /\ (step = "idle" => callback.n = 0)
  /\ step = "set" => callback.n > 0

\* The queue and the adapter, and all of it.
Core == StartedOnce /\ SoonStopped /\ SoonRuns /\ SoonSet /\ Answers
SessionInv == TypeInv /\ Agreed /\ Registered /\ Core /\ Told

\* A fix that is on its way is the only one that the framework may get after it stopped.
LateInv ==
  /\ wants => lateFixes = 0
  /\ lateFixes <= 1
  /\ carried.k = "fix" => lateFixes = 0

\* Capabilities that were told are cached, and known or about to be.
KnowsInv ==
  /\ capsCached = capsTold
  /\ step = "answer" => capsHeld = capsTold /\ capsTold # 0
  /\ carried.k = "capabilities" => carried.c = capsTold /\ api
  /\ ~api => capsTold = 0
  /\ capsTold = 0 => \A n \in 0 .. MaxCallbacks : knows[n] = 0
  /\ step = "idle" /\ api /\ capsTold # 0 =>
       carried.k = "capabilities" \/ knows[callback.n] = capsTold

\* Message n of the queue sets the item i.
SetsItem(n, i) ==
  n \in DOMAIN messages /\ messages[n].k = "config" /\ messages[n].m[i] # Unset

\* The item is in the queue, or with the adapter, as it was set last.
ItemHeld(i) ==
  /\ \A n \in DOMAIN messages : SetsItem(n, i) =>
       messages[n].m[i] = setConf[i] \/ \E p \in DOMAIN messages : p > n /\ SetsItem(p, i)
  /\ (\A n \in DOMAIN messages : ~SetsItem(n, i)) => adapterConf[i] = setConf[i]

\* What is not sent again is there already, and what cannot be sent yet waits.
ConfInv ==
  /\ ~api => pendingConf = setConf /\ adapterConf = NoConf /\ messages = <<>>
  /\ api => pendingConf = NoConf /\ \A i \in Items : ItemHeld(i)
  /\ \A i \in Items : lastConf[i] # Unset => api /\ lastConf[i] = setConf[i]

-----------------------------------------------------------------------------
(***************************************************************************)
(* The queue.                                                              *)
(***************************************************************************)
\* A message that is put at the end of the queue.
LEMMA AppendFacts ==
  ASSUME NEW S, NEW q \in Seq(S), NEW m \in S
  PROVE  /\ Append(q, m) \in Seq(S) /\ Len(q) \in Nat
         /\ DOMAIN q = 1 .. Len(q) /\ DOMAIN Append(q, m) = 1 .. Len(q) + 1
         /\ \A i \in DOMAIN q : Append(q, m)[i] = q[i] /\ q[i] \in S
         /\ Append(q, m)[Len(q) + 1] = m
         /\ Append(q, m) # <<>>
OBVIOUS

\* A message that is taken from the head of the queue.
LEMMA TailFacts ==
  ASSUME NEW S, NEW q \in Seq(S), q # <<>>
  PROVE  /\ Tail(q) \in Seq(S) /\ Head(q) \in S /\ Head(q) = q[1]
         /\ DOMAIN q = 1 .. Len(q) /\ Len(q) \in Nat /\ Len(q) >= 1
         /\ DOMAIN Tail(q) = 1 .. Len(q) - 1
         /\ \A i \in DOMAIN Tail(q) : Tail(q)[i] = q[i + 1]
         /\ \A i \in DOMAIN q : q[i] \in S
OBVIOUS

\* The kinds of message.
LEMMA MessageFacts ==
  ASSUME NEW m \in SoundMessages
  PROVE  /\ m.k \in Commands \cup {"config"}
         /\ m.k \in Commands => m.s \in TrackIds
         /\ m.k \in {"start", "update"} => m.m \in Modes
         /\ m.k = "config" => m.s = NoId /\ m.m \in Configured
BY DEF SoundMessages, Commands

\* What a message that is sent adds.
LEMMA SentFacts ==
  ASSUME messages \in Seq(SoundMessages), NEW m \in SoundMessages,
         messages' = Append(messages, m)
  PROVE  /\ messages' \in Seq(SoundMessages) /\ Len(messages) \in Nat
         /\ DOMAIN messages = 1 .. Len(messages)
         /\ DOMAIN messages' = 1 .. Len(messages) + 1
         /\ \A i \in DOMAIN messages : messages'[i] = messages[i]
         /\ messages'[Len(messages) + 1] = m
         /\ \A k, s : Waits(k, s)' <=> Waits(k, s) \/ (m.k = k /\ m.s = s)
<1>1. /\ messages' \in Seq(SoundMessages) /\ Len(messages) \in Nat
      /\ DOMAIN messages = 1 .. Len(messages)
      /\ DOMAIN messages' = 1 .. Len(messages) + 1
      /\ \A i \in DOMAIN messages : messages'[i] = messages[i]
      /\ messages'[Len(messages) + 1] = m
  BY AppendFacts
<1>2. ASSUME NEW k, NEW s PROVE Waits(k, s)' <=> Waits(k, s) \/ (m.k = k /\ m.s = s)
  <2>1. \A i \in DOMAIN messages : i \in DOMAIN messages'
    BY <1>1
  <2>2. Len(messages) + 1 \in DOMAIN messages'
    BY <1>1
  <2>3. \A i \in DOMAIN messages' : i \in DOMAIN messages \/ i = Len(messages) + 1
    BY <1>1
  <2> QED  BY <1>1, <2>1, <2>2, <2>3 DEF Waits, At
<1> QED  BY <1>1, <1>2

\* What a message that is handled was.
LEMMA TakenFacts ==
  ASSUME messages \in Seq(SoundMessages), messages # <<>>, messages' = Tail(messages)
  PROVE  /\ messages' \in Seq(SoundMessages) /\ Len(messages) \in Nat
         /\ DOMAIN messages = 1 .. Len(messages) /\ Len(messages) >= 1
         /\ DOMAIN messages' = 1 .. Len(messages) - 1
         /\ \A i \in DOMAIN messages' : messages'[i] = messages[i + 1]
         /\ Head(messages) = messages[1] /\ Head(messages) \in SoundMessages
         /\ \A i \in DOMAIN messages : messages[i] \in SoundMessages
         /\ \A k, s : Waits(k, s) <=> Waits(k, s)' \/ (Head(messages).k = k /\ Head(messages).s = s)
<1>1. /\ messages' \in Seq(SoundMessages) /\ Len(messages) \in Nat
      /\ DOMAIN messages = 1 .. Len(messages) /\ Len(messages) >= 1
      /\ DOMAIN messages' = 1 .. Len(messages) - 1
      /\ \A i \in DOMAIN messages' : messages'[i] = messages[i + 1]
      /\ Head(messages) = messages[1] /\ Head(messages) \in SoundMessages
      /\ \A i \in DOMAIN messages : messages[i] \in SoundMessages
  BY TailFacts
<1>2. ASSUME NEW k, NEW s
      PROVE  Waits(k, s) <=> Waits(k, s)' \/ (Head(messages).k = k /\ Head(messages).s = s)
  <2>1. \A i \in DOMAIN messages' : i + 1 \in DOMAIN messages
    BY <1>1
  <2>2. 1 \in DOMAIN messages
    BY <1>1
  <2>3. ASSUME Waits(k, s), ~(Head(messages).k = k /\ Head(messages).s = s) PROVE Waits(k, s)'
    <3>1. PICK i \in DOMAIN messages : messages[i].k = k /\ messages[i].s = s
      BY <2>3 DEF Waits, At
    <3>2. i - 1 \in DOMAIN messages' /\ messages'[i - 1] = messages[i]
      BY <1>1, <2>3, <3>1
    <3> QED  BY <3>1, <3>2 DEF Waits, At
  <2>4. ASSUME Waits(k, s)' PROVE Waits(k, s)
    BY <1>1, <2>1, <2>4 DEF Waits, At
  <2>5. Head(messages).k = k /\ Head(messages).s = s => Waits(k, s)
    BY <1>1, <2>2 DEF Waits, At
  <2> QED  BY <2>3, <2>4, <2>5
<1> QED  BY <1>1, <1>2

-----------------------------------------------------------------------------
(***************************************************************************)
(* Types.                                                                  *)
(***************************************************************************)
\* Messages of the client are sound.
LEMMA SendType ==
  /\ \A s \in TrackIds, m \in Modes : /\ Message("start", s, m) \in SoundMessages
                                      /\ Message("update", s, m) \in SoundMessages
  /\ \A s \in TrackIds : Message("stop", s, Unset) \in SoundMessages
  /\ \A c \in Configured : Message("config", NoId, c) \in SoundMessages
BY DEF Message, SoundMessages

\* A callback is called, or none.
LEMMA TargetType ==
  ASSUME GnssClientTypeOK
  PROVE  Target \in 0 .. MaxCallbacks
BY DEF GnssClientTypeOK, Target, Versions

\* The types hold at first.
LEMMA TypeInit ==
  ASSUME GnssClientAssumption, GnssClientInit
  PROVE  TypeInv
<1>1. 0 \in 0 .. MaxCallbacks /\ 0 \in 0 .. MaxCapabilities
  BY DEF GnssClientAssumption
<1>2. NoConf \in Configured
  BY DEF NoConf, Configured
<1>3. Nothing \in SoundCarried
  BY <1>1 DEF Nothing, Carry, SoundCarried
<1>4. /\ callback \in [n : 0 .. MaxCallbacks, v : Versions]
      /\ iface \in [Versions -> 0 .. MaxCallbacks]
      /\ sessions \in [TrackIds -> Modes \cup {Unset}]
      /\ knows \in [0 .. MaxCallbacks -> 0 .. MaxCapabilities]
      /\ status \in [0 .. MaxCallbacks -> {"none", "begin", "end"}]
  BY <1>1 DEF GnssClientInit, NoCallbacks, Versions
<1>5. requests \in Seq({"start", "stop", "update"}) /\ messages \in Seq(SoundMessages)
  BY DEF GnssClientInit
<1>6. /\ {pendingConf, lastConf, adapterConf, setConf} \subseteq Configured
      /\ {capsCached, capsHeld, capsTold} \subseteq 0 .. MaxCapabilities
  BY <1>1, <1>2 DEF GnssClientInit
<1>7. {mTracking, baseTracking, api, wants, stuck} \subseteq BOOLEAN
  BY DEF GnssClientInit
<1>8. /\ step \in {"idle", "set", "ask", "answer"} /\ lateFixes \in Nat
      /\ options \in Modes /\ session \in TrackIds \cup {NoId}
  BY DEF GnssClientInit
<1>9. carried \in SoundCarried
  BY <1>3 DEF GnssClientInit
<1> QED  BY <1>4, <1>5, <1>6, <1>7, <1>8, <1>9 DEF TypeInv, GnssClientTypeOK

\* A request to the session keeps the types.
LEMMA RequestType ==
  ASSUME TypeInv, NEW k \in {"stop", "update"}, NEW m, Request(k, m),
         k = "stop" => m = Unset, k = "update" => m \in Modes
  PROVE  /\ requests' \in Seq(Commands)
         /\ messages' \in Seq(SoundMessages)
<1>1. requests \in Seq(Commands) /\ k \in Commands
  BY DEF TypeInv, GnssClientTypeOK, Commands
<1>2. CASE session = NoId
  BY <1>1, <1>2 DEF Request, TypeInv
<1>3. CASE session # NoId
  <2>1. session \in TrackIds
    BY <1>3 DEF TypeInv, GnssClientTypeOK
  <2>2. Message(k, session, m) \in SoundMessages
    <3>1. CASE k = "stop"
      BY <2>1, <3>1, SendType
    <3>2. CASE k = "update"
      BY <2>1, <3>2, SendType
    <3> QED  BY <3>1, <3>2
  <2>3. requests' = Append(requests, k) /\ messages' = Append(messages, Message(k, session, m))
    BY <1>3 DEF Request, Send
  <2>4. messages \in Seq(SoundMessages)
    BY DEF TypeInv
  <2>5. requests' \in Seq(Commands)
    BY <1>1, <2>3, AppendFacts
  <2>6. messages' \in Seq(SoundMessages)
    BY <2>2, <2>3, <2>4, AppendFacts
  <2> QED  BY <2>5, <2>6
<1> QED  BY <1>2, <1>3

\* So does the answer to one.
LEMMA RespondType ==
  ASSUME GnssClientAssumption, TypeInv, NEW s, NEW ok \in BOOLEAN, Respond(s, ok)
  PROVE  requests' \in Seq(Commands) /\ carried' \in SoundCarried
<1>1. requests \in Seq(Commands)
  BY DEF TypeInv, GnssClientTypeOK, Commands
<1>2. CASE s = session /\ requests # <<>>
  <2>1. Head(requests) \in Commands /\ Tail(requests) \in Seq(Commands)
    BY <1>1, <1>2, TailFacts
  <2>2. 0 \in 0 .. MaxCallbacks /\ 0 \in 0 .. MaxCapabilities
    BY DEF GnssClientAssumption
  <2>3. carried' = Carry(Head(requests), 0, 0, ok)
    BY <1>2 DEF Respond
  <2>4. carried' \in SoundCarried
    BY <2>1, <2>2, <2>3 DEF SoundCarried, Carry
  <2> QED  BY <1>2, <2>1, <2>4 DEF Respond
<1>3. CASE ~(s = session /\ requests # <<>>)
  BY <1>1, <1>3 DEF Respond, TypeInv
<1> QED  BY <1>2, <1>3
\* Every item that is set keeps the configurations what they are.
LEMMA ConfType ==
  ASSUME TypeInv, NEW i \in Items, NEW v \in ItemValues
  PROVE  /\ NoConf \in Configured /\ [NoConf EXCEPT ![i] = v] \in Configured
         /\ Pending(i, v) \in Configured /\ [setConf EXCEPT ![i] = v] \in Configured
<1>1. pendingConf \in Configured /\ setConf \in Configured
  BY DEF TypeInv, GnssClientTypeOK
<1> QED  BY <1>1 DEF Configured, NoConf, Pending

\* A handler of the adapter keeps the types of what it changes.
LEMMA HandlerType ==
  ASSUME GnssClientAssumption, TypeInv, AdapterRuns
  PROVE  /\ sessions' \in [TrackIds -> Modes \cup {Unset}] /\ stuck' \in BOOLEAN
         /\ requests' \in Seq(Commands) /\ carried' \in SoundCarried
         /\ adapterConf' \in Configured /\ messages' \in Seq(SoundMessages)
<1> DEFINE m == Head(messages)
           Goal == /\ sessions' \in [TrackIds -> Modes \cup {Unset}] /\ stuck' \in BOOLEAN
                   /\ requests' \in Seq(Commands) /\ carried' \in SoundCarried
                   /\ adapterConf' \in Configured
<1>1. /\ messages \in Seq(SoundMessages) /\ messages # <<>> /\ messages' = Tail(messages)
      /\ HandleStart(m) \/ HandleStop(m) \/ HandleUpdate(m) \/ HandleConfig(m)
  BY DEF AdapterRuns, TypeInv
<1>2. m \in SoundMessages /\ messages' \in Seq(SoundMessages)
  BY <1>1, TailFacts
<1>3. /\ m.k \in Commands => m.s \in TrackIds
      /\ m.k \in {"start", "update"} => m.m \in Modes
      /\ m.k = "config" => m.m \in Configured
  BY <1>2, MessageFacts
<1>4. /\ sessions \in [TrackIds -> Modes \cup {Unset}] /\ stuck \in BOOLEAN
      /\ requests \in Seq(Commands) /\ carried \in SoundCarried /\ adapterConf \in Configured
      /\ wants \in BOOLEAN
  BY DEF TypeInv, GnssClientTypeOK, Commands
<1> HIDE DEF m
<1>5. CASE HandleStart(m)
  <2>1. PICK ok \in BOOLEAN :
          /\ sessions' = IF ok THEN [sessions EXCEPT ![m.s] = m.m] ELSE sessions
          /\ stuck' = (stuck \/ (~ok /\ wants /\ m.s = session))
          /\ Respond(m.s, ok)
    BY <1>5 DEF HandleStart, GnssClientAssumption
  <2>2. requests' \in Seq(Commands) /\ carried' \in SoundCarried
    BY <2>1, RespondType
  <2>3. sessions' \in [TrackIds -> Modes \cup {Unset}]
    BY <1>3, <1>4, <1>5, <2>1 DEF HandleStart
  <2>4. stuck' \in BOOLEAN
    BY <2>1
  <2> QED  BY <1>2, <1>4, <1>5, <2>2, <2>3, <2>4 DEF HandleStart
<1>6. CASE HandleStop(m)
  <2>1. Respond(m.s, m.s \in Running) /\ (m.s \in Running) \in BOOLEAN
    BY <1>6 DEF HandleStop
  <2>2. requests' \in Seq(Commands) /\ carried' \in SoundCarried
    BY <2>1, RespondType
  <2> QED  BY <1>2, <1>4, <1>6, <2>2 DEF HandleStop
<1>7. CASE HandleUpdate(m)
  <2>0. Respond(m.s, m.s \in Running) /\ (m.s \in Running) \in BOOLEAN
    BY <1>7 DEF HandleUpdate
  <2>1. requests' \in Seq(Commands) /\ carried' \in SoundCarried
    BY <2>0, RespondType
  <2>2. sessions' \in [TrackIds -> Modes \cup {Unset}]
    BY <1>3, <1>4, <1>7 DEF HandleUpdate
  <2> QED  BY <1>2, <1>4, <1>7, <2>1, <2>2 DEF HandleUpdate
<1>8. CASE HandleConfig(m)
  <2>1. adapterConf' \in Configured
    BY <1>3, <1>4, <1>8 DEF HandleConfig, Configured
  <2> QED  BY <1>2, <1>4, <1>8, <2>1 DEF HandleConfig
<1>9. Goal
  BY <1>1, <1>5, <1>6, <1>7, <1>8 DEF m
<1> QED  BY <1>2, <1>9

\* The types, one by one.
LEMMA TypeFacts ==
  TypeInv <=>
  /\ callback \in [n : 0 .. MaxCallbacks, v : Versions]
  /\ iface \in [Versions -> 0 .. MaxCallbacks]
  /\ step \in {"idle", "set", "ask", "answer"}
  /\ mTracking \in BOOLEAN /\ baseTracking \in BOOLEAN /\ api \in BOOLEAN
  /\ wants \in BOOLEAN /\ stuck \in BOOLEAN
  /\ options \in Modes /\ session \in TrackIds \cup {NoId} /\ requests \in Seq(Commands)
  /\ capsCached \in 0 .. MaxCapabilities /\ capsHeld \in 0 .. MaxCapabilities
  /\ capsTold \in 0 .. MaxCapabilities
  /\ pendingConf \in Configured /\ lastConf \in Configured
  /\ adapterConf \in Configured /\ setConf \in Configured
  /\ sessions \in [TrackIds -> Modes \cup {Unset}]
  /\ knows \in [0 .. MaxCallbacks -> 0 .. MaxCapabilities]
  /\ status \in [0 .. MaxCallbacks -> {"none", "begin", "end"}]
  /\ lateFixes \in Nat
  /\ messages \in Seq(SoundMessages)
  /\ carried \in SoundCarried
BY DEF TypeInv, GnssClientTypeOK, Commands

\* Every step keeps the types.
LEMMA TypeStep ==
  ASSUME GnssClientAssumption, TypeInv, [GnssClientNext]_gnssVars
  PROVE  TypeInv'
<1> USE DEF clientState, capsState, adapterState, frameworkState
<1> SUFFICES
      /\ callback' \in [n : 0 .. MaxCallbacks, v : Versions]
      /\ iface' \in [Versions -> 0 .. MaxCallbacks]
      /\ step' \in {"idle", "set", "ask", "answer"}
      /\ mTracking' \in BOOLEAN /\ baseTracking' \in BOOLEAN /\ api' \in BOOLEAN
      /\ wants' \in BOOLEAN /\ stuck' \in BOOLEAN
      /\ options' \in Modes /\ session' \in TrackIds \cup {NoId} /\ requests' \in Seq(Commands)
      /\ capsCached' \in 0 .. MaxCapabilities /\ capsHeld' \in 0 .. MaxCapabilities
      /\ capsTold' \in 0 .. MaxCapabilities
      /\ pendingConf' \in Configured /\ lastConf' \in Configured
      /\ adapterConf' \in Configured /\ setConf' \in Configured
      /\ sessions' \in [TrackIds -> Modes \cup {Unset}]
      /\ knows' \in [0 .. MaxCallbacks -> 0 .. MaxCapabilities]
      /\ status' \in [0 .. MaxCallbacks -> {"none", "begin", "end"}]
      /\ lateFixes' \in Nat
      /\ messages' \in Seq(SoundMessages)
      /\ carried' \in SoundCarried
  BY TypeFacts DEF TypeInv, GnssClientTypeOK, Commands
<1>1. ASSUME NEW v \in Versions, SetCallback(v)
      PROVE  /\ callback' \in [n : 0 .. MaxCallbacks, v : Versions]
             /\ iface' \in [Versions -> 0 .. MaxCallbacks]
  <2>1. NoCallbacks \in [Versions -> 0 .. MaxCallbacks]
    BY DEF NoCallbacks, GnssClientAssumption
  <2>2. callback.n + 1 \in 0 .. MaxCallbacks
    BY <1>1, TypeFacts, SMTT(20) DEF SetCallback, GnssClientAssumption
  <2>3. iface' \in [Versions -> 0 .. MaxCallbacks]
    BY <1>1, <2>1, TypeFacts DEF SetCallback
  <2> QED  BY <1>1, <2>2, <2>3 DEF SetCallback
<1>2. CASE \E v \in Versions : SetCallback(v)
  BY <1>1, <1>2, TypeFacts DEF SetCallback
<1>3. CASE SetsCallback
  <2>1. NoConf \in Configured
    BY DEF NoConf, Configured
  <2>2. Message("config", NoId, pendingConf) \in SoundMessages
    BY SendType, TypeFacts
  <2>3. messages' \in Seq(SoundMessages)
    <3>1. Append(messages, Message("config", NoId, pendingConf)) \in Seq(SoundMessages)
      BY <2>2, TypeFacts, AppendFacts
    <3> QED  BY <1>3, <3>1, TypeFacts DEF SetsCallback, Send
  <2>4. pendingConf' \in Configured /\ lastConf' \in Configured
    BY <1>3, <2>1, TypeFacts DEF SetsCallback
  <2>5. iface' \in [Versions -> 0 .. MaxCallbacks]
    BY <1>3, TypeFacts DEF SetsCallback
  <2> QED  BY <1>3, <2>3, <2>4, <2>5, TypeFacts DEF SetsCallback
<1>4. CASE AskCapabilities
  BY <1>4, TypeFacts DEF AskCapabilities
<1>5. CASE AnswerCapabilities
  BY <1>5, TypeFacts, TargetType DEF AnswerCapabilities
<1>6. CASE Start
  <2>1. ASSUME NEW s \in Fresh, session' = s, Send(Message("start", s, options)),
               requests' = <<"start">>
        PROVE  /\ session' \in TrackIds /\ messages' \in Seq(SoundMessages)
               /\ requests' \in Seq(Commands)
    <3>1. s \in TrackIds
      BY <2>1 DEF Fresh
    <3>2. messages' = Append(messages, Message("start", s, options))
      BY <2>1 DEF Send
    <3>3. Message("start", s, options) \in SoundMessages
      BY <3>1, SendType, TypeFacts
    <3>4. messages' \in Seq(SoundMessages)
      BY <3>2, <3>3, TypeFacts, AppendFacts
    <3> QED  BY <2>1, <3>1, <3>4 DEF Commands
  <2>2. /\ session' \in TrackIds \cup {NoId} /\ messages' \in Seq(SoundMessages)
        /\ requests' \in Seq(Commands)
    BY <1>6, <2>1, TypeFacts DEF Start
  <2> QED  BY <1>6, <2>2, TypeFacts DEF Start
<1>7. CASE Stop
  <2>1. requests' \in Seq(Commands) /\ messages' \in Seq(SoundMessages)
    BY <1>7, RequestType DEF Stop
  <2>2. baseTracking' \in BOOLEAN
    BY <1>7 DEF Stop
  <2> QED  BY <1>7, <2>1, <2>2, TypeFacts DEF Stop
<1>8. ASSUME NEW m \in Modes, SetPositionMode(m)
      PROVE  options' \in Modes /\ requests' \in Seq(Commands) /\ messages' \in Seq(SoundMessages)
  <2>1. requests' \in Seq(Commands) /\ messages' \in Seq(SoundMessages)
    BY <1>8, RequestType DEF SetPositionMode
  <2> QED  BY <1>8, <2>1 DEF SetPositionMode
<1>9. CASE \E m \in Modes : SetPositionMode(m)
  BY <1>8, <1>9, TypeFacts DEF SetPositionMode
<1>10. ASSUME NEW i \in Items, NEW v \in ItemValues, UpdateConfiguration(i, v)
       PROVE  /\ setConf' \in Configured /\ lastConf' \in Configured /\ pendingConf' \in Configured
              /\ messages' \in Seq(SoundMessages)
  <2>1. /\ [NoConf EXCEPT ![i] = v] \in Configured /\ Pending(i, v) \in Configured
        /\ [setConf EXCEPT ![i] = v] \in Configured
    BY ConfType
  <2>2. Message("config", NoId, [NoConf EXCEPT ![i] = v]) \in SoundMessages
    BY <2>1, SendType
  <2>3. messages' \in Seq(SoundMessages)
    <3>1. Append(messages, Message("config", NoId, [NoConf EXCEPT ![i] = v])) \in Seq(SoundMessages)
      BY <2>2, TypeFacts, AppendFacts
    <3> QED  BY <1>10, <3>1, TypeFacts DEF UpdateConfiguration, Send
  <2> QED  BY <1>10, <2>1, <2>3, TypeFacts DEF UpdateConfiguration
<1>11. CASE \E i \in Items, v \in ItemValues : UpdateConfiguration(i, v)
  <2>1. PICK i \in Items, v \in ItemValues : UpdateConfiguration(i, v)
    BY <1>11
  <2>2. /\ setConf' \in Configured /\ lastConf' \in Configured /\ pendingConf' \in Configured
        /\ messages' \in Seq(SoundMessages)
    BY <1>10, <2>1
  <2> QED  BY <2>1, <2>2, TypeFacts DEF UpdateConfiguration
<1>12. CASE AdapterRuns
  BY <1>12, HandlerType, TypeFacts DEF AdapterRuns
<1>13. CASE TellCapabilities
  <2>1. capsTold' \in 0 .. MaxCapabilities /\ capsCached' = capsTold'
    BY <1>13, TypeFacts DEF TellCapabilities, KeepCapabilities, GnssClientAssumption
  <2>2. Carry("capabilities", 0, capsTold', FALSE) \in SoundCarried
    BY <2>1 DEF Carry, SoundCarried, GnssClientAssumption
  <2> QED  BY <1>13, <2>1, <2>2, TypeFacts DEF TellCapabilities
<1>14. CASE ReportFix
  <2>1. Carry("fix", Target, 0, FALSE) \in SoundCarried
    BY TargetType DEF Carry, SoundCarried, GnssClientAssumption, TypeInv
  <2> QED  BY <1>14, <2>1, TypeFacts DEF ReportFix
<1>15. CASE Give
  <2>1. Nothing \in SoundCarried
    BY DEF Nothing, Carry, SoundCarried, GnssClientAssumption
  <2>2. carried.c \in 0 .. MaxCapabilities
    BY TypeFacts DEF SoundCarried
  <2>3. knows' \in [0 .. MaxCallbacks -> 0 .. MaxCapabilities]
    BY <1>15, <2>2, TypeFacts DEF Give
  <2>4. status' \in [0 .. MaxCallbacks -> {"none", "begin", "end"}]
    BY <1>15, TypeFacts DEF Give
  <2>5. lateFixes' \in Nat
    BY <1>15, TypeFacts DEF Give
  <2> QED  BY <1>15, <2>1, <2>3, <2>4, <2>5, TypeFacts DEF Give
<1>16. CASE UNCHANGED gnssVars
  BY <1>16, TypeFacts DEF gnssVars
<1> QED
  BY <1>2, <1>3, <1>4, <1>5, <1>6, <1>7, <1>9, <1>11, <1>12, <1>13, <1>14, <1>15, <1>16
  DEF GnssClientNext

-----------------------------------------------------------------------------
(***************************************************************************)
(* The session.                                                            *)
(***************************************************************************)
\* The client and the framework stay agreed.
LEMMA AgreedStep ==
  ASSUME GnssClientAssumption, TypeInv, Agreed, [GnssClientNext]_gnssVars
  PROVE  Agreed'
<1> USE DEF Agreed, clientState, capsState, adapterState, frameworkState
<1>1. CASE \E v \in Versions : SetCallback(v)
  BY <1>1 DEF SetCallback
<1>2. CASE SetsCallback
  BY <1>2 DEF SetsCallback
<1>3. CASE AskCapabilities
  BY <1>3 DEF AskCapabilities
<1>4. CASE AnswerCapabilities
  BY <1>4 DEF AnswerCapabilities
<1>5. CASE Start
  BY <1>5 DEF Start, Fresh, Calm
<1>6. CASE Stop
  BY <1>6, TypeFacts DEF Stop, GnssClientAssumption
<1>7. CASE \E m \in Modes : SetPositionMode(m)
  BY <1>7 DEF SetPositionMode
<1>8. CASE \E i \in Items, v \in ItemValues : UpdateConfiguration(i, v)
  BY <1>8 DEF UpdateConfiguration
<1>9. CASE AdapterRuns
  <2>1. stuck' => stuck \/ wants
    <3> DEFINE m == Head(messages)
    <3> HIDE DEF m
    <3>1. CASE HandleStart(m)
      BY <3>1 DEF HandleStart
    <3>2. CASE HandleStop(m) \/ HandleUpdate(m) \/ HandleConfig(m)
      BY <3>2 DEF HandleStop, HandleUpdate, HandleConfig
    <3> QED  BY <1>9, <3>1, <3>2 DEF AdapterRuns, m
  <2> QED  BY <1>9, <2>1 DEF AdapterRuns
<1>10. CASE TellCapabilities
  BY <1>10 DEF TellCapabilities
<1>11. CASE ReportFix
  BY <1>11 DEF ReportFix
<1>12. CASE Give
  BY <1>12 DEF Give
<1>13. CASE UNCHANGED gnssVars
  BY <1>13 DEF gnssVars
<1> QED
  BY <1>1, <1>2, <1>3, <1>4, <1>5, <1>6, <1>7, <1>8, <1>9, <1>10, <1>11, <1>12, <1>13
  DEF GnssClientNext

\* The callback that is called is the newest, once it is set.
LEMMA RegisteredStep ==
  ASSUME GnssClientAssumption, TypeInv, Agreed, Registered, [GnssClientNext]_gnssVars
  PROVE  Registered'
<1> USE DEF Registered, clientState, capsState, adapterState, frameworkState
<1>1. ASSUME NEW v \in Versions, SetCallback(v) PROVE Registered'
  <2>1. /\ callback'.n = callback.n + 1 /\ callback'.v = v /\ step' = "set" /\ api' = api
        /\ callback.n \in Nat
    BY <1>1, TypeFacts DEF SetCallback, GnssClientAssumption
  <2>2. \A w \in Versions \ {v} : iface'[w] = 0
    BY <1>1 DEF SetCallback, NoCallbacks
  <2>3. ~api => iface' = NoCallbacks
    BY <1>1 DEF SetCallback
  <2> QED  BY <2>1, <2>2, <2>3
<1>2. CASE SetsCallback
  <2>1. /\ iface' = [iface EXCEPT ![callback.v] = callback.n] /\ callback' = callback
        /\ api' /\ step' = "ask" /\ step = "set"
    BY <1>2 DEF SetsCallback
  <2>2. callback.v \in Versions /\ iface \in [Versions -> 0 .. MaxCallbacks]
    BY TypeFacts
  <2>3. iface' = [NoCallbacks EXCEPT ![callback.v] = callback.n]
    BY <2>1, <2>2 DEF NoCallbacks
  <2> QED  BY <2>1, <2>3
<1>3. CASE AskCapabilities
  BY <1>3 DEF AskCapabilities, Agreed
<1>4. CASE AnswerCapabilities
  BY <1>4 DEF AnswerCapabilities, Agreed
<1>5. CASE Start
  BY <1>5 DEF Start
<1>6. CASE Stop
  BY <1>6 DEF Stop
<1>7. CASE \E m \in Modes : SetPositionMode(m)
  BY <1>7 DEF SetPositionMode
<1>8. CASE \E i \in Items, v \in ItemValues : UpdateConfiguration(i, v)
  BY <1>8 DEF UpdateConfiguration
<1>9. CASE AdapterRuns
  BY <1>9 DEF AdapterRuns
<1>10. CASE TellCapabilities
  BY <1>10 DEF TellCapabilities
<1>11. CASE ReportFix
  BY <1>11 DEF ReportFix
<1>12. CASE Give
  BY <1>12 DEF Give
<1>13. CASE UNCHANGED gnssVars
  BY <1>13 DEF gnssVars
<1> QED
  BY <1>1, <1>2, <1>3, <1>4, <1>5, <1>6, <1>7, <1>8, <1>9, <1>10, <1>11, <1>12, <1>13
  DEF GnssClientNext

\* Once it is set, the newest callback is called.
LEMMA TargetIs ==
  ASSUME TypeInv, Registered, api, step # "set"
  PROVE  Target = callback.n
BY TypeFacts DEF Registered, Target, NoCallbacks, Versions

\* What says nothing to the adapter and hears nothing of it.
LEMMA CoreSame ==
  ASSUME Core, UNCHANGED <<messages, sessions, session, options, requests, stuck, wants>>
  PROVE  Core' /\ (\A k, s : Waits(k, s)' <=> Waits(k, s))
BY DEF Core, StartedOnce, SoonStopped, SoonRuns, SoonSet, Answers, Tells, Waits, At, Running

\* A message that is sent, if it starts no session that is there and stops none that is wanted.
LEMMA CoreSends ==
  ASSUME GnssClientAssumption, TypeInv, Core, NEW m \in SoundMessages,
         messages' = Append(messages, m),
         UNCHANGED <<sessions, session, stuck, wants>>,
         m.k # "start", ~(m.k = "stop" /\ m.s = session /\ wants),
         \/ UNCHANGED <<options, requests>>
            /\ ~(m.k = "update" /\ m.s = session)
         \/ m.k = "update" /\ m.s = session /\ m.m = options' /\ requests' = Append(requests, m.k)
  PROVE  Core'
<1> USE DEF Core
<1>0. PICK n \in Nat : n = Len(messages)
  BY SentFacts, TypeFacts
<1>1. /\ DOMAIN messages = 1 .. n /\ DOMAIN messages' = 1 .. n + 1
      /\ \A i \in DOMAIN messages : messages'[i] = messages[i]
      /\ messages'[n + 1] = m
      /\ \A k, s : Waits(k, s)' <=> Waits(k, s) \/ (m.k = k /\ m.s = s)
  BY <1>0, SentFacts, TypeFacts
<1>2. Running' = Running
  BY DEF Running
<1>3. StartedOnce'
  <2> SUFFICES ASSUME NEW i \in DOMAIN messages', messages'[i].k = "start"
               PROVE  /\ messages'[i].s \notin Running'
                      /\ \A j \in DOMAIN messages' : messages'[j].s = messages'[i].s => j >= i
    BY DEF StartedOnce
  <2>1. i \in DOMAIN messages
    BY <1>1
  <2> QED  BY <1>1, <1>2, <2>1 DEF StartedOnce
<1>4. SoonStopped'
  BY <1>1, <1>2 DEF SoonStopped
<1>5. SoonRuns'
  BY <1>1, <1>2 DEF SoonRuns
<1>6. Answers'
  <2>1. requests \in Seq(Commands)
    BY TypeFacts
  <2>2. Waits("start", session)' => Waits("start", session)
    BY <1>1
  <2>3. CASE UNCHANGED requests
    BY <2>2, <2>3 DEF Answers
  <2>4. CASE m.k = "update" /\ requests' = Append(requests, m.k)
    <3>1. \A i \in DOMAIN requests' :
            \/ i \in DOMAIN requests /\ requests'[i] = requests[i]
            \/ requests'[i] = "update"
      BY <2>1, <2>4, AppendFacts DEF Commands
    <3>2. requests # <<>> => requests' # <<>> /\ Head(requests') = Head(requests)
      BY <2>1, <2>4 DEF Commands
    <3> QED  BY <2>2, <3>1, <3>2 DEF Answers
  <2> QED  BY <2>3, <2>4
<1>7. SoonSet'
  <2>1. \A i \in DOMAIN messages : Tells(i)' <=> Tells(i)
    BY <1>1 DEF Tells, At
  <2>2. CASE UNCHANGED options /\ ~(m.k = "update" /\ m.s = session)
    <3>1. ~Tells(n + 1)'
      BY <1>1, <2>2 DEF Tells, At
    <3>2. \A i \in DOMAIN messages' : Tells(i)' => i \in DOMAIN messages
      BY <1>1, <3>1
    <3>3. DOMAIN messages \subseteq DOMAIN messages'
      BY <1>1
    <3> QED  BY <1>1, <1>2, <2>1, <2>2, <3>2, <3>3 DEF SoonSet
  <2>3. CASE m.k = "update" /\ m.s = session /\ m.m = options'
    <3>1. Tells(n + 1)' /\ n + 1 \in DOMAIN messages' /\ messages'[n + 1].m = options'
      BY <1>1, <2>3 DEF Tells, At
    <3>2. \A i \in DOMAIN messages' : i = n + 1 \/ n + 1 > i
      BY <1>1
    <3> QED  BY <3>1, <3>2 DEF SoonSet
  <2> QED  BY <2>2, <2>3
<1> QED  BY <1>3, <1>4, <1>5, <1>6, <1>7

\* A session is started.
LEMMA CoreStarts ==
  ASSUME GnssClientAssumption, TypeInv, Agreed, Core, ~wants, NEW s \in Fresh,
         messages' = Append(messages, Message("start", s, options)), session' = s,
         requests' = <<"start">>, UNCHANGED <<sessions, options, stuck>>, wants'
  PROVE  Core' /\ Waits("start", session)'
<1> USE DEF Core
<1> DEFINE m == Message("start", s, options)
<1>0. PICK n \in Nat : n = Len(messages)
  BY AppendFacts, TypeFacts
<1>1. /\ m \in SoundMessages /\ m.k = "start" /\ m.s = s /\ m.m = options
      /\ s \in TrackIds /\ s \notin Running /\ \A i \in DOMAIN messages : messages[i].s # s
  BY SendType, TypeFacts DEF Fresh, Message
<1> HIDE DEF m
<1>2. messages' = Append(messages, m)
  BY DEF m
<1>3. /\ DOMAIN messages = 1 .. n /\ DOMAIN messages' = 1 .. n + 1
      /\ \A i \in DOMAIN messages : messages'[i] = messages[i]
      /\ messages'[n + 1] = m
      /\ \A k, t : Waits(k, t)' <=> Waits(k, t) \/ (m.k = k /\ m.s = t)
  BY <1>0, <1>1, <1>2, SentFacts, TypeFacts
<1>4. Running' = Running
  BY DEF Running
<1>5. StartedOnce'
  <2> SUFFICES ASSUME NEW i \in DOMAIN messages', messages'[i].k = "start"
               PROVE  /\ messages'[i].s \notin Running'
                      /\ \A j \in DOMAIN messages' : messages'[j].s = messages'[i].s => j >= i
    BY DEF StartedOnce
  <2>1. CASE i \in DOMAIN messages
    BY <1>1, <1>3, <1>4, <2>1 DEF StartedOnce
  <2>2. CASE i = n + 1
    BY <1>1, <1>3, <1>4, <2>2
  <2> QED  BY <1>3, <2>1, <2>2
<1>6. SoonStopped'
  BY <1>1, <1>3, <1>4 DEF SoonStopped
<1>7. ~Waits("stop", s)
  BY <1>1 DEF Waits, At
<1>8. SoonRuns'
  BY <1>1, <1>3, <1>7 DEF SoonRuns
<1>9. Answers'
  BY DEF Answers
<1>10. SoonSet'
  <2>1. \A i \in DOMAIN messages : ~Tells(i)'
    BY <1>1, <1>3 DEF Tells, At
  <2>2. Tells(n + 1)' /\ messages'[n + 1].m = options' /\ n + 1 \in DOMAIN messages'
    BY <1>1, <1>3 DEF Tells, At
  <2>3. \A i \in DOMAIN messages' : i \in DOMAIN messages \/ i = n + 1
    BY <1>3
  <2> QED  BY <2>1, <2>2, <2>3 DEF SoonSet
<1>11. Waits("start", session)'
  <2>1. n + 1 \in DOMAIN messages'
    BY <1>3
  <2> QED  BY <1>1, <1>3, <2>1 DEF Waits, At
<1> QED  BY <1>5, <1>6, <1>8, <1>9, <1>10, <1>11

\* A session that is stopped by the one who wanted it, or once more.
LEMMA CoreStops ==
  ASSUME GnssClientAssumption, TypeInv, Agreed, Core, Request("stop", Unset), ~wants', ~stuck',
         UNCHANGED <<sessions, session, options>>
  PROVE  Core'
<1> USE DEF Core
<1>1. CASE session = NoId
  <2>1. ~wants /\ UNCHANGED <<messages, requests>>
    BY <1>1 DEF Request, Agreed, GnssClientAssumption
  <2> QED  BY <2>1 DEF StartedOnce, SoonStopped, SoonRuns, SoonSet, Answers, Tells, Waits, At,
                     Running
<1>2. CASE session # NoId
  <2> DEFINE m == Message("stop", session, Unset)
  <2>0. PICK n \in Nat : n = Len(messages)
    BY AppendFacts, TypeFacts
  <2>1. /\ m \in SoundMessages /\ m.k = "stop" /\ m.s = session
        /\ session \in TrackIds
    BY <1>2, SendType, TypeFacts DEF Message
  <2>2. messages' = Append(messages, m) /\ requests' = Append(requests, "stop")
    BY <1>2 DEF Request, Send
  <2> HIDE DEF m
  <2>3. /\ DOMAIN messages = 1 .. n /\ DOMAIN messages' = 1 .. n + 1
        /\ \A i \in DOMAIN messages : messages'[i] = messages[i]
        /\ messages'[n + 1] = m
        /\ \A k, t : Waits(k, t)' <=> Waits(k, t) \/ (m.k = k /\ m.s = t)
    BY <2>0, <2>1, <2>2, SentFacts, TypeFacts
  <2>4. Running' = Running
    BY DEF Running
  <2>5. StartedOnce'
    <3> SUFFICES ASSUME NEW i \in DOMAIN messages', messages'[i].k = "start"
                 PROVE  /\ messages'[i].s \notin Running'
                        /\ \A j \in DOMAIN messages' : messages'[j].s = messages'[i].s => j >= i
      BY DEF StartedOnce
    <3>1. i \in DOMAIN messages
      BY <2>1, <2>3
    <3> QED  BY <2>3, <2>4, <3>1 DEF StartedOnce
  <2>6. SoonStopped'
    BY <2>1, <2>3, <2>4 DEF SoonStopped
  <2>7. SoonRuns'
    BY DEF SoonRuns
  <2>8. Answers'
    <3>1. requests # <<>> => requests' # <<>> /\ Head(requests') = Head(requests)
      BY <2>2, TypeFacts DEF Commands
    <3>2. Waits("start", session)' => Waits("start", session)
      BY <2>1, <2>3
    <3> QED  BY <3>1, <3>2 DEF Answers
  <2>9. SoonSet'
    <3>1. \A i \in DOMAIN messages : Tells(i)' <=> Tells(i)
      BY <2>3 DEF Tells, At
    <3>2. ~Tells(n + 1)'
      BY <2>1, <2>3 DEF Tells, At
    <3>3. \A i \in DOMAIN messages' : Tells(i)' => i \in DOMAIN messages
      BY <2>3, <3>2
    <3>4. DOMAIN messages \subseteq DOMAIN messages'
      BY <2>3
    <3> QED  BY <2>3, <2>4, <3>1, <3>3, <3>4 DEF SoonSet
  <2> QED  BY <2>5, <2>6, <2>7, <2>8, <2>9
<1> QED  BY <1>1, <1>2

\* A handler does one of three things to the session of its message: it starts it, or
\* refuses to; it stops it; it updates it.  Other messages are not about sessions.
LEMMA Handles ==
  ASSUME GnssClientAssumption, TypeInv, AdapterRuns, NEW m, m = Head(messages)
  PROVE  /\ m \in SoundMessages /\ messages' = Tail(messages) /\ messages # <<>>
         /\ carried = Nothing
         /\ UNCHANGED <<session, options, wants, baseTracking, callback, status>>
         /\ m.s # session => UNCHANGED <<carried, requests>>
         /\ \/ UNCHANGED <<carried, requests>>
            \/ requests # <<>> /\ requests' = Tail(requests) /\ carried'.k = Head(requests)
         /\ \/ /\ m.k = "start"
               /\ \/ sessions' = [sessions EXCEPT ![m.s] = m.m] /\ stuck' = stuck
                     /\ (m.s = session /\ requests # <<>> => carried'.ok)
                  \/ sessions' = sessions /\ stuck' = (stuck \/ (wants /\ m.s = session))
               /\ (m.s = session /\ requests # <<>> => carried'.k = Head(requests))
            \/ m.k = "stop" /\ sessions' = [sessions EXCEPT ![m.s] = Unset] /\ stuck' = stuck
            \/ /\ m.k = "update" /\ stuck' = stuck
               /\ sessions' = IF m.s \in Running THEN [sessions EXCEPT ![m.s] = m.m] ELSE sessions
            \/ m.k = "config" /\ UNCHANGED <<sessions, stuck, carried, requests>>
<1>1. /\ messages \in Seq(SoundMessages) /\ messages # <<>> /\ messages' = Tail(messages)
      /\ carried = Nothing
      /\ UNCHANGED <<session, options, wants, baseTracking, callback, status>>
      /\ HandleStart(m) \/ HandleStop(m) \/ HandleUpdate(m) \/ HandleConfig(m)
  BY TypeFacts DEF AdapterRuns
<1>2. m \in SoundMessages
  BY <1>1, TailFacts
<1>3. ASSUME NEW s, NEW ok, Respond(s, ok)
      PROVE  /\ s # session => UNCHANGED <<carried, requests>>
             /\ \/ UNCHANGED <<carried, requests>>
                \/ requests # <<>> /\ requests' = Tail(requests) /\ carried'.k = Head(requests)
             /\ s = session /\ requests # <<>> => carried'.k = Head(requests) /\ carried'.ok = ok
  BY <1>3 DEF Respond, Carry
<1>4. CASE HandleStart(m)
  <2>1. PICK ok \in BOOLEAN :
          /\ sessions' = IF ok THEN [sessions EXCEPT ![m.s] = m.m] ELSE sessions
          /\ stuck' = (stuck \/ (~ok /\ wants /\ m.s = session))
          /\ Respond(m.s, ok)
    BY <1>4 DEF HandleStart, GnssClientAssumption
  <2>2. /\ m.s # session => UNCHANGED <<carried, requests>>
        /\ \/ UNCHANGED <<carried, requests>>
           \/ requests # <<>> /\ requests' = Tail(requests) /\ carried'.k = Head(requests)
        /\ m.s = session /\ requests # <<>> => carried'.k = Head(requests) /\ carried'.ok = ok
    BY <1>3, <2>1
  <2>3. CASE ok
    <3>1. stuck' = stuck
      BY <2>1, <2>3, TypeFacts
    <3> QED  BY <1>1, <1>2, <1>4, <2>1, <2>2, <2>3, <3>1 DEF HandleStart
  <2>4. CASE ~ok
    BY <1>1, <1>2, <1>4, <2>1, <2>2, <2>4 DEF HandleStart
  <2> QED  BY <2>1, <2>3, <2>4
<1>5. CASE HandleStop(m)
  BY <1>1, <1>2, <1>3, <1>5 DEF HandleStop
<1>6. CASE HandleUpdate(m)
  BY <1>1, <1>2, <1>3, <1>6 DEF HandleUpdate
<1>7. CASE HandleConfig(m)
  BY <1>1, <1>2, <1>7 DEF HandleConfig
<1> QED  BY <1>1, <1>4, <1>5, <1>6, <1>7

\* The adapter handles a message.
LEMMA CoreRuns ==
  ASSUME GnssClientAssumption, TypeInv, Agreed, Core, Told, AdapterRuns
  PROVE  Core' /\ Told'
<1> USE DEF Core
<1>0. PICK m : m = Head(messages)
  OBVIOUS
<1>1. /\ m \in SoundMessages /\ messages' = Tail(messages) /\ messages # <<>>
      /\ carried = Nothing
      /\ UNCHANGED <<session, options, wants, baseTracking, callback, status>>
      /\ m.s # session => UNCHANGED <<carried, requests>>
      /\ \/ UNCHANGED <<carried, requests>>
         \/ requests # <<>> /\ requests' = Tail(requests) /\ carried'.k = Head(requests)
  BY <1>0, Handles
<1>2. \/ /\ m.k = "start"
         /\ \/ sessions' = [sessions EXCEPT ![m.s] = m.m] /\ stuck' = stuck
               /\ (m.s = session /\ requests # <<>> => carried'.ok)
            \/ sessions' = sessions /\ stuck' = (stuck \/ (wants /\ m.s = session))
         /\ (m.s = session /\ requests # <<>> => carried'.k = Head(requests))
      \/ m.k = "stop" /\ sessions' = [sessions EXCEPT ![m.s] = Unset] /\ stuck' = stuck
      \/ /\ m.k = "update" /\ stuck' = stuck
         /\ sessions' = IF m.s \in Running THEN [sessions EXCEPT ![m.s] = m.m] ELSE sessions
      \/ m.k = "config" /\ UNCHANGED <<sessions, stuck, carried, requests>>
  BY <1>0, Handles
<1>3. PICK n \in Nat : n = Len(messages)
  BY AppendFacts, TypeFacts
<1>4. /\ DOMAIN messages = 1 .. n /\ n >= 1 /\ DOMAIN messages' = 1 .. n - 1
      /\ \A i \in DOMAIN messages' : messages'[i] = messages[i + 1]
      /\ m = messages[1]
      /\ \A k, s : Waits(k, s) <=> Waits(k, s)' \/ (m.k = k /\ m.s = s)
  BY <1>0, <1>1, <1>3, TakenFacts, TypeFacts
<1>5. /\ m.k \in Commands => m.s \in TrackIds
      /\ m.k \in {"start", "update"} => m.m \in Modes
      /\ m.k = "config" => m.s = NoId
  BY <1>1, MessageFacts
<1>6. sessions \in [TrackIds -> Modes \cup {Unset}] /\ NoId \notin TrackIds /\ Unset \notin Modes
  BY TypeFacts DEF GnssClientAssumption
<1>7. /\ \A s \in Running' : s \in Running \/ (m.k = "start" /\ m.s = s)
      /\ m.k # "stop" => Running \subseteq Running'
      /\ m.k = "stop" => Running' = Running \ {m.s}
  BY <1>2, <1>5, <1>6 DEF Running, Commands
\* A start is the first that is said of its session.
<1>8. ASSUME Waits("start", m.s)' PROVE FALSE
  <2>1. PICK i \in DOMAIN messages' : messages'[i].k = "start" /\ messages'[i].s = m.s
    BY <1>8 DEF Waits, At
  <2>2. i + 1 \in DOMAIN messages /\ messages[i + 1].k = "start" /\ messages[i + 1].s = m.s
        /\ 1 \in DOMAIN messages /\ i + 1 > 1
    BY <1>4, <2>1
  <2> QED  BY <1>4, <2>2 DEF StartedOnce
<1>9. StartedOnce'
  <2> SUFFICES ASSUME NEW i \in DOMAIN messages', messages'[i].k = "start"
               PROVE  /\ messages'[i].s \notin Running'
                      /\ \A j \in DOMAIN messages' : messages'[j].s = messages'[i].s => j >= i
    BY DEF StartedOnce
  <2>1. messages'[i].s # m.s
    BY <1>8 DEF Waits, At
  <2>2. i + 1 \in DOMAIN messages /\ messages[i + 1] = messages'[i]
    BY <1>4
  <2>3. messages'[i].s \notin Running'
    BY <1>7, <2>1, <2>2 DEF StartedOnce
  <2>4. ASSUME NEW j \in DOMAIN messages', messages'[j].s = messages'[i].s PROVE j >= i
    <3>1. j + 1 \in DOMAIN messages /\ messages[j + 1] = messages'[j]
      BY <1>4
    <3>2. j + 1 >= i + 1
      BY <2>2, <2>4, <3>1 DEF StartedOnce
    <3> QED  BY <1>4, <3>2
  <2> QED  BY <2>3, <2>4
<1>10. SoonStopped'
  <2> SUFFICES ASSUME NEW s \in TrackIds, s \in Running' \/ Waits("start", s)',
                      ~(wants /\ s = session)
               PROVE  Waits("stop", s)'
    BY <1>1 DEF SoonStopped
  <2>1. s \in Running \/ Waits("start", s)
    BY <1>4, <1>7
  <2>2. Waits("stop", s)
    BY <2>1 DEF SoonStopped
  <2>3. ~(m.k = "stop" /\ m.s = s)
    BY <1>7, <1>8
  <2> QED  BY <1>4, <2>2, <2>3
<1>11. SoonRuns'
  <2> SUFFICES ASSUME wants
               PROVE  /\ ~Waits("stop", session)'
                      /\ stuck' \/ session \in Running' \/ Waits("start", session)'
    BY <1>1 DEF SoonRuns
  <2>1. ~Waits("stop", session) /\ (stuck \/ session \in Running \/ Waits("start", session))
    BY DEF SoonRuns
  <2>2. ~Waits("stop", session)' /\ ~(m.k = "stop" /\ m.s = session)
    BY <1>1, <1>4, <2>1
  <2>3. CASE stuck
    BY <1>2, <2>2, <2>3
  <2>4. CASE session \in Running
    BY <1>7, <2>2, <2>4
  <2>5. CASE Waits("start", session)
    <3>1. CASE m.k = "start" /\ m.s = session
      <4>1. CASE sessions' = [sessions EXCEPT ![m.s] = m.m]
        BY <1>5, <1>6, <2>2, <3>1, <4>1 DEF Running, Commands
      <4>2. CASE stuck' = (stuck \/ (wants /\ m.s = session))
        BY <2>2, <3>1, <4>2
      <4> QED  BY <1>2, <3>1, <4>1, <4>2
    <3>2. CASE ~(m.k = "start" /\ m.s = session)
      BY <1>1, <1>4, <2>2, <2>5, <3>2
    <3> QED  BY <3>1, <3>2
  <2> QED  BY <2>1, <2>3, <2>4, <2>5
<1>12. SoonSet'
  <2>1. \A i \in DOMAIN messages' :
          /\ i + 1 \in DOMAIN messages /\ messages'[i] = messages[i + 1]
          /\ Tells(i)' <=> Tells(i + 1)
    BY <1>1, <1>4 DEF Tells, At
  <2>2. \A j \in DOMAIN messages : j > 1 => j - 1 \in DOMAIN messages' /\ (j - 1) + 1 = j
    BY <1>4
  <2>3. 1 \in DOMAIN messages
    BY <1>4
  <2>4. ASSUME NEW i \in DOMAIN messages', Tells(i)'
        PROVE  messages'[i].m = options' \/ \E j \in DOMAIN messages' : j > i /\ Tells(j)'
    <3>1. \/ messages[i + 1].m = options
          \/ \E j \in DOMAIN messages : j > i + 1 /\ Tells(j)
      BY <2>1, <2>4 DEF SoonSet
    <3>2. ASSUME NEW j \in DOMAIN messages, j > i + 1, Tells(j)
          PROVE  j - 1 \in DOMAIN messages' /\ j - 1 > i /\ Tells(j - 1)'
      <4>1. j - 1 \in DOMAIN messages' /\ j - 1 > i /\ (j - 1) + 1 = j
        BY <1>4, <3>2
      <4> QED  BY <2>1, <3>2, <4>1
    <3> QED  BY <1>1, <2>1, <3>1, <3>2
  <2>5. ASSUME session \in Running', \A i \in DOMAIN messages' : ~Tells(i)'
        PROVE  sessions'[session] = options
    <3>1. \A j \in DOMAIN messages : j > 1 => ~Tells(j)
      BY <2>1, <2>2, <2>5
    <3>2. session \in TrackIds
      BY <1>1, <2>5 DEF Running
    <3>3. CASE Tells(1)
      <4>1. m.m = options /\ m.s = session /\ m.k \in {"start", "update"}
        BY <1>4, <2>3, <3>1, <3>3 DEF SoonSet, Tells, At
      <4>2. session \notin Running => m.k = "start"
        BY <1>7, <2>5, <1>1
      <4>3. m.k = "start" => session \notin Running
        BY <1>4, <2>3, <4>1 DEF StartedOnce
      <4>4. CASE m.k = "start"
        BY <1>2, <1>6, <2>5, <3>2, <4>1, <4>3, <4>4 DEF Running
      <4>5. CASE m.k = "update"
        BY <1>2, <1>6, <3>2, <4>1, <4>2, <4>5
      <4> QED  BY <4>1, <4>4, <4>5
    <3>4. CASE ~Tells(1)
      <4>1. \A j \in DOMAIN messages : ~Tells(j)
        BY <1>4, <3>1, <3>4
      <4>2. ~(m.k \in {"start", "update"} /\ m.s = session)
        BY <1>4, <2>3, <3>4 DEF Tells, At
      <4>3. session \in Running
        BY <1>7, <2>5, <4>2, <1>1
      <4>4. sessions[session] = options
        BY <4>1, <4>3 DEF SoonSet
      <4>5. ~(m.k = "stop" /\ m.s = session)
        BY <1>1, <1>7, <2>5
      <4>6. sessions'[session] = sessions[session]
        BY <1>2, <1>6, <3>2, <4>2, <4>5
      <4> QED  BY <4>4, <4>6
    <3> QED  BY <3>3, <3>4
  <2> QED  BY <1>1, <2>4, <2>5 DEF SoonSet
<1>13. Answers'
  <2>1. requests \in Seq(Commands)
    BY TypeFacts
  <2>2. ASSUME session \in TrackIds, Waits("start", session)'
        PROVE  requests' # <<>> /\ Head(requests') = "start"
    <3>1. m.s # session
      BY <1>1, <1>8, <2>2
    <3> QED  BY <1>1, <1>4, <2>2, <3>1 DEF Answers
  <2>3. ASSUME wants, NEW i \in DOMAIN requests' PROVE requests'[i] # "stop"
    <3>1. CASE requests' = requests
      BY <2>3, <3>1 DEF Answers
    <3>2. CASE requests # <<>> /\ requests' = Tail(requests)
      <4>1. i + 1 \in DOMAIN requests /\ requests'[i] = requests[i + 1]
        BY <2>1, <2>3, <3>2, TailFacts
      <4> QED  BY <2>3, <4>1 DEF Answers
    <3> QED  BY <1>1, <3>1, <3>2
  <2> QED  BY <1>1, <2>2, <2>3 DEF Answers
<1>14. Told'
  <2> SUFFICES ASSUME wants, ~stuck', ~Waits("start", session)'
               PROVE  \/ carried'.k # "stop" /\ status[callback.n] = "begin"
                      \/ carried'.k = "start" /\ carried'.ok
    BY <1>1 DEF Told
  <2>1. ~stuck /\ session \in TrackIds
    <3>1. stuck => stuck'
      BY <1>2
    <3> QED  BY <3>1 DEF Agreed
  <2>2. CASE m.k = "start" /\ m.s = session
    <3>1. Waits("start", session)
      BY <1>4, <2>2
    <3>2. requests # <<>> /\ Head(requests) = "start"
      BY <2>1, <3>1 DEF Answers
    <3> QED  BY <1>2, <2>2, <3>2
  <2>3. CASE ~(m.k = "start" /\ m.s = session)
    <3>1. ~Waits("start", session)
      BY <1>1, <1>4, <2>3
    <3>2. carried.k = "nothing"
      BY <1>1 DEF Nothing, Carry
    <3>3. status[callback.n] = "begin"
      BY <2>1, <3>1, <3>2 DEF Told
    <3>4. carried'.k # "stop"
      <4>1. CASE requests # <<>> /\ carried'.k = Head(requests)
        <5>1. 1 \in DOMAIN requests /\ Head(requests) = requests[1]
          BY <4>1, TypeFacts, TailFacts
        <5> QED  BY <4>1, <5>1 DEF Answers
      <4> QED  BY <1>1, <3>2, <4>1
    <3> QED  BY <3>3, <3>4
  <2> QED  BY <2>2, <2>3
<1> QED  BY <1>9, <1>10, <1>11, <1>12, <1>13, <1>14

\* What is sent or told of a session, by each step.
LEMMA SessionStep ==
  ASSUME GnssClientAssumption, SessionInv, [GnssClientNext]_gnssVars
  PROVE  SessionInv'
<1> USE DEF SessionInv, clientState, capsState, adapterState, frameworkState
<1>1. TypeInv' /\ Agreed' /\ Registered'
  BY TypeStep, AgreedStep, RegisteredStep
<1> SUFFICES Core' /\ Told'
  BY <1>1
<1>2. ASSUME UNCHANGED <<messages, sessions, session, options, requests, stuck, wants>>,
             ~wants \/ (UNCHANGED <<callback, status>>
                        /\ (carried = Nothing \/ UNCHANGED carried) /\ carried'.k # "stop")
             \/ UNCHANGED <<callback, status, carried>>
      PROVE  Core' /\ Told'
  <2>1. Core' /\ (\A k, s : Waits(k, s)' <=> Waits(k, s))
    BY <1>2, CoreSame
  <2>2. Nothing.k = "nothing"
    BY DEF Nothing, Carry
  <2>3. Waits("start", session)' <=> Waits("start", session)
    BY <1>2, <2>1
  <2> QED  BY <1>2, <2>1, <2>2, <2>3 DEF Told
\* Adding a message that starts nothing keeps what was told.
<1>3. ASSUME NEW m \in SoundMessages, messages' = Append(messages, m), m.k # "start",
             UNCHANGED <<session, stuck, wants, callback, status, carried>>
      PROVE  Told'
  <2>1. \A k, s : Waits(k, s)' <=> Waits(k, s) \/ (m.k = k /\ m.s = s)
    BY <1>3, SentFacts, TypeFacts
  <2>2. Waits("start", session)' <=> Waits("start", session)
    BY <1>3, <2>1
  <2> QED  BY <1>3, <2>2 DEF Told
<1>4. ASSUME NEW c \in Configured, Send(Message("config", NoId, c)),
             UNCHANGED <<sessions, session, stuck, wants, options, requests, callback, status,
                         carried>>
      PROVE  Core' /\ Told'
  <2>1. PICK m : m = Message("config", NoId, c)
    OBVIOUS
  <2>2. m \in SoundMessages /\ m.k = "config" /\ messages' = Append(messages, m)
    BY <1>4, <2>1, SendType DEF Send, Message
  <2>3. Core'
    BY <1>4, <2>2, CoreSends
  <2> QED  BY <1>3, <1>4, <2>2, <2>3
<1>5. CASE \E v \in Versions : SetCallback(v)
  BY <1>2, <1>5 DEF SetCallback
<1>6. CASE SetsCallback
  <2>1. CASE UNCHANGED messages
    BY <1>2, <1>6, <2>1 DEF SetsCallback
  <2>2. CASE Send(Message("config", NoId, pendingConf))
    BY <1>4, <1>6, <2>2, TypeFacts DEF SetsCallback
  <2> QED  BY <1>6, <2>1, <2>2 DEF SetsCallback
<1>7. CASE AskCapabilities
  BY <1>2, <1>7 DEF AskCapabilities
<1>8. CASE AnswerCapabilities
  BY <1>2, <1>8 DEF AnswerCapabilities
<1>9. CASE Start
  <2>1. CASE baseTracking
    <3>1. UNCHANGED <<messages, sessions, session, options, requests, stuck, callback, status,
                     carried>>
      BY <1>9, <2>1 DEF Start
    <3>2. wants' = wants
      BY <1>9, <2>1, TypeFacts DEF Start, Agreed
    <3> QED  BY <1>2, <3>1, <3>2
  <2>2. CASE ~baseTracking
    <3>1. PICK s \in Fresh : session' = s /\ Send(Message("start", s, options))
      BY <1>9, <2>2 DEF Start
    <3>2. Core' /\ Waits("start", session)'
      BY <1>9, <2>2, <3>1, CoreStarts DEF Start, Send, Agreed
    <3> QED  BY <3>2 DEF Told
  <2> QED  BY <2>1, <2>2
<1>10. CASE Stop
  <2>1. Core'
    BY <1>10, CoreStops DEF Stop
  <2> QED  BY <1>10, <2>1 DEF Told, Stop
<1>11. ASSUME NEW v \in Modes, SetPositionMode(v) PROVE Core' /\ Told'
  <2>1. CASE session = NoId
    <3>1. ~wants /\ UNCHANGED <<messages, requests, sessions, session, stuck, wants>>
      BY <1>11, <2>1 DEF SetPositionMode, Request, Agreed, GnssClientAssumption
    <3>2. \A i \in DOMAIN messages : ~Tells(i)
      <4>1. \A i \in DOMAIN messages : messages[i] \in SoundMessages
        BY TypeFacts, AppendFacts
      <4> QED  BY <2>1, <4>1, MessageFacts DEF Tells, At, GnssClientAssumption, Commands
    <3>3. session \notin Running
      BY <2>1 DEF Running, GnssClientAssumption
    <3> QED  BY <3>1, <3>2, <3>3
             DEF Core, StartedOnce, SoonStopped, SoonRuns, SoonSet, Answers, Told, Tells, Waits,
                 At, Running
  <2>2. CASE session # NoId
    <3>1. PICK m : m = Message("update", session, v)
      OBVIOUS
    <3>2. m \in SoundMessages /\ m.k = "update" /\ m.s = session /\ m.m = v
      BY <2>2, <3>1, SendType, TypeFacts DEF Message
    <3>3. messages' = Append(messages, m) /\ requests' = Append(requests, m.k) /\ options' = m.m
      BY <1>11, <2>2, <3>1, <3>2 DEF SetPositionMode, Request, Send
    <3>4. UNCHANGED <<sessions, session, stuck, wants, callback, status, carried>>
      BY <1>11 DEF SetPositionMode
    <3>5. Core'
      BY <3>2, <3>3, <3>4, CoreSends
    <3> QED  BY <1>3, <3>2, <3>3, <3>4, <3>5
  <2> QED  BY <2>1, <2>2
<1>12. ASSUME NEW i \in Items, NEW v \in ItemValues, UpdateConfiguration(i, v)
       PROVE  Core' /\ Told'
  <2>1. CASE UNCHANGED messages
    BY <1>2, <1>12, <2>1 DEF UpdateConfiguration
  <2>2. CASE Send(Message("config", NoId, [NoConf EXCEPT ![i] = v]))
    <3>1. [NoConf EXCEPT ![i] = v] \in Configured
      BY ConfType
    <3> QED  BY <1>4, <1>12, <2>2, <3>1 DEF UpdateConfiguration
  <2> QED  BY <1>12, <2>1, <2>2 DEF UpdateConfiguration
<1>13. CASE AdapterRuns
  BY <1>13, CoreRuns
<1>14. CASE TellCapabilities
  BY <1>2, <1>14 DEF TellCapabilities, Carry
<1>15. CASE ReportFix
  BY <1>2, <1>15 DEF ReportFix, Carry
<1>16. CASE Give
  <2>1. UNCHANGED <<messages, sessions, session, options, requests, stuck, wants, callback>>
    BY <1>16 DEF Give
  <2>2. Core' /\ (\A k, s : Waits(k, s)' <=> Waits(k, s))
    BY <2>1, CoreSame
  <2>3. Waits("start", session)' <=> Waits("start", session)
    BY <2>1, <2>2
  <2>4. carried'.k = "nothing"
    BY <1>16 DEF Give, Nothing, Carry
  <2>5. ASSUME wants, ~stuck, ~Waits("start", session) PROVE status'[callback.n] = "begin"
    <3>1. Target = callback.n /\ callback.n \in 0 .. MaxCallbacks
      BY <2>5, TargetIs, TypeFacts DEF Agreed
    <3>2. CASE carried.k = "start" /\ carried.ok
      BY <1>16, <3>1, <3>2, TypeFacts DEF Give
    <3>3. CASE /\ carried.k # "stop" /\ status[callback.n] = "begin"
               /\ ~(carried.k = "start" /\ carried.ok)
      BY <1>16, <3>3 DEF Give
    <3> QED  BY <2>5, <3>2, <3>3 DEF Told
  <2> QED  BY <2>1, <2>2, <2>3, <2>4, <2>5 DEF Told
<1>17. CASE UNCHANGED gnssVars
  BY <1>2, <1>17 DEF gnssVars
<1> QED
  BY <1>5, <1>6, <1>7, <1>8, <1>9, <1>10, <1>11, <1>12, <1>13, <1>14, <1>15, <1>16, <1>17
  DEF GnssClientNext

\* The invariant holds at first.
LEMMA SessionInit ==
  ASSUME GnssClientAssumption, GnssClientInit
  PROVE  SessionInv
<1>1. TypeInv
  BY TypeInit
<1>2. messages = <<>> /\ Running = {} /\ ~wants /\ session = NoId
  BY DEF GnssClientInit, Running
<1>3. Core /\ Told
  BY <1>2 DEF Core, Told, StartedOnce, SoonStopped, SoonRuns, SoonSet, Answers, Waits, At
<1>4. Agreed
  BY DEF GnssClientInit, Agreed
<1>5. Registered
  BY DEF GnssClientInit, Registered
<1> QED  BY <1>1, <1>3, <1>4, <1>5 DEF SessionInv

\* It says that the session follows.
LEMMA SessionServes ==
  ASSUME GnssClientAssumption, SessionInv
  PROVE  SessionFollows
<1> SUFFICES ASSUME Settled, ~stuck
             PROVE  /\ Running = IF wants THEN {session} ELSE {}
                    /\ wants => sessions[session] = options
                    /\ wants => status[callback.n] = "begin"
  BY DEF SessionFollows
<1>1. \A k, s : ~Waits(k, s)
  BY DEF Settled, Waits, At
<1>2. Running \subseteq TrackIds
  BY DEF Running
<1>3. \A s \in Running : wants /\ s = session
  BY <1>1, <1>2 DEF SessionInv, Core, SoonStopped
<1>4. wants => session \in Running
  BY <1>1 DEF SessionInv, Core, SoonRuns
<1>5. wants => sessions[session] = options
  BY <1>4 DEF SessionInv, Core, SoonSet, Settled
<1>6. carried.k = "nothing"
  BY DEF Settled, Nothing, Carry
<1>7. wants => status[callback.n] = "begin"
  BY <1>1, <1>6 DEF SessionInv, Told
<1> QED  BY <1>3, <1>4, <1>5, <1>7

-----------------------------------------------------------------------------
(***************************************************************************)
(* Fixes and capabilities.                                                 *)
(***************************************************************************)
\* Every step keeps the number of late fixes.
LEMMA LateStep ==
  ASSUME GnssClientAssumption, SessionInv, LateInv, [GnssClientNext]_gnssVars
  PROVE  LateInv'
<1> USE DEF LateInv, clientState, capsState, adapterState, frameworkState
<1>1. lateFixes \in Nat /\ mTracking = wants
  BY TypeFacts DEF SessionInv, Agreed
<1>2. CASE \E v \in Versions : SetCallback(v)
  BY <1>2 DEF SetCallback
<1>3. CASE SetsCallback
  BY <1>3 DEF SetsCallback
<1>4. CASE AskCapabilities
  BY <1>4 DEF AskCapabilities
<1>5. CASE AnswerCapabilities
  BY <1>5 DEF AnswerCapabilities
<1>6. CASE Start
  BY <1>6 DEF Start
<1>7. CASE Stop
  BY <1>7 DEF Stop
<1>8. CASE \E m \in Modes : SetPositionMode(m)
  BY <1>8 DEF SetPositionMode
<1>9. CASE \E i \in Items, v \in ItemValues : UpdateConfiguration(i, v)
  BY <1>9 DEF UpdateConfiguration
<1>10. CASE AdapterRuns
  <2>1. PICK m : m = Head(messages)
    OBVIOUS
  <2>2. UNCHANGED <<wants, lateFixes>> /\ carried = Nothing
    BY <1>10 DEF AdapterRuns
  <2>3. carried'.k # "fix"
    <3>1. requests # <<>> => Head(requests) \in Commands
      BY TypeFacts, TailFacts DEF SessionInv
    <3> QED  BY <1>10, <2>1, <2>2, <3>1, Handles DEF SessionInv, Nothing, Carry, Commands
  <2> QED  BY <2>2, <2>3
<1>11. CASE TellCapabilities
  BY <1>11 DEF TellCapabilities, Carry
<1>12. CASE ReportFix
  BY <1>1, <1>12 DEF ReportFix
<1>13. CASE Give
  BY <1>1, <1>13 DEF Give, Nothing, Carry
<1>14. CASE UNCHANGED gnssVars
  BY <1>14 DEF gnssVars
<1> QED
  BY <1>2, <1>3, <1>4, <1>5, <1>6, <1>7, <1>8, <1>9, <1>10, <1>11, <1>12, <1>13, <1>14
  DEF GnssClientNext

\* Every step keeps what is known of the capabilities.
LEMMA KnowsStep ==
  ASSUME GnssClientAssumption, MaxCapabilities \in 0 .. 1, SessionInv, KnowsInv,
         [GnssClientNext]_gnssVars
  PROVE  KnowsInv'
<1> USE DEF KnowsInv, clientState, capsState, adapterState, frameworkState
<1>1. /\ knows \in [0 .. MaxCallbacks -> 0 .. MaxCapabilities]
      /\ capsTold \in 0 .. MaxCapabilities /\ callback.n \in 0 .. MaxCallbacks
      /\ api /\ step # "set" => Target = callback.n
      /\ Target \in 0 .. MaxCallbacks
  BY TypeFacts, TargetIs, TargetType DEF SessionInv, TypeInv
<1>2. CASE \E v \in Versions : SetCallback(v)
  BY <1>2 DEF SetCallback
<1>3. CASE SetsCallback
  BY <1>3 DEF SetsCallback
<1>4. CASE AskCapabilities
  BY <1>4 DEF AskCapabilities
<1>5. CASE AnswerCapabilities
  <2>1. Target = callback.n
    BY <1>1, <1>5 DEF AnswerCapabilities, SessionInv, Agreed
  <2>2. knows'[callback.n] = capsTold
    BY <1>1, <1>5, <2>1 DEF AnswerCapabilities
  <2> QED  BY <1>5, <2>2 DEF AnswerCapabilities
<1>6. CASE Start
  BY <1>6 DEF Start
<1>7. CASE Stop
  BY <1>7 DEF Stop
<1>8. CASE \E m \in Modes : SetPositionMode(m)
  BY <1>8 DEF SetPositionMode
<1>9. CASE \E i \in Items, v \in ItemValues : UpdateConfiguration(i, v)
  BY <1>9 DEF UpdateConfiguration
<1>10. CASE AdapterRuns
  <2>1. PICK m : m = Head(messages)
    OBVIOUS
  <2>2. /\ UNCHANGED <<capsCached, capsTold, capsHeld, step, api, knows, callback>>
        /\ carried = Nothing
    BY <1>10 DEF AdapterRuns
  <2>3. carried'.k # "capabilities"
    <3>1. requests # <<>> => Head(requests) \in Commands
      BY TypeFacts, TailFacts DEF SessionInv
    <3> QED  BY <1>10, <2>1, <2>2, <3>1, Handles DEF SessionInv, Nothing, Carry, Commands
  <2>4. carried.k # "capabilities"
    BY <2>2 DEF Nothing, Carry
  <2> QED  BY <2>2, <2>3, <2>4
<1>11. CASE TellCapabilities
  <2>1. capsTold = 0 /\ capsTold' = 1 /\ capsCached' = 1
    BY <1>1, <1>11 DEF TellCapabilities, KeepCapabilities
  <2>2. carried'.k = "capabilities" /\ carried'.c = capsTold'
    BY <1>11 DEF TellCapabilities, Carry
  <2>3. UNCHANGED <<step, api, knows, callback, capsHeld>> /\ api
    BY <1>11 DEF TellCapabilities
  <2> QED  BY <2>1, <2>2, <2>3
<1>12. CASE ReportFix
  <2>1. UNCHANGED <<capsCached, capsTold, capsHeld, step, api, knows, callback>>
    BY <1>12 DEF ReportFix
  <2>2. carried.k # "capabilities" /\ carried'.k # "capabilities"
    BY <1>12 DEF ReportFix, Nothing, Carry
  <2> QED  BY <2>1, <2>2
<1>13. CASE Give
  <2>1. UNCHANGED <<capsCached, capsTold, capsHeld, step, api, callback>>
    BY <1>13 DEF Give
  <2>2. carried'.k = "nothing"
    BY <1>13 DEF Give, Nothing, Carry
  <2>3. CASE carried.k = "capabilities"
    <3>1. knows' = [knows EXCEPT ![Target] = capsTold]
      BY <1>13, <2>3 DEF Give
    <3> QED  BY <1>1, <2>1, <2>2, <3>1
  <2>4. CASE carried.k # "capabilities"
    BY <1>13, <2>1, <2>2, <2>4 DEF Give
  <2> QED  BY <2>3, <2>4
<1>14. CASE UNCHANGED gnssVars
  BY <1>14 DEF gnssVars
<1> QED
  BY <1>2, <1>3, <1>4, <1>5, <1>6, <1>7, <1>8, <1>9, <1>10, <1>11, <1>12, <1>13, <1>14
  DEF GnssClientNext

-----------------------------------------------------------------------------
(***************************************************************************)
(* The configuration.                                                      *)
(***************************************************************************)
\* A message that does not set the item.
LEMMA ItemKept ==
  ASSUME TypeInv, NEW i \in Items, ItemHeld(i), NEW m \in SoundMessages,
         messages' = Append(messages, m), m.k = "config" => m.m[i] = Unset,
         setConf'[i] = setConf[i], adapterConf'[i] = adapterConf[i]
  PROVE  ItemHeld(i)'
<1>0. PICK n \in Nat : n = Len(messages)
  BY AppendFacts, TypeFacts
<1>1. /\ DOMAIN messages = 1 .. n /\ DOMAIN messages' = 1 .. n + 1
      /\ \A j \in DOMAIN messages : messages'[j] = messages[j]
      /\ messages'[n + 1] = m
  BY <1>0, SentFacts, TypeFacts
<1>2. ~SetsItem(n + 1, i)'
  BY <1>1 DEF SetsItem
<1>3. \A j \in DOMAIN messages : j \in DOMAIN messages' /\ (SetsItem(j, i)' <=> SetsItem(j, i))
  BY <1>1 DEF SetsItem
<1>4. \A j \in DOMAIN messages' : SetsItem(j, i)' => j \in DOMAIN messages
  BY <1>1, <1>2
<1>5. ASSUME NEW j \in DOMAIN messages', SetsItem(j, i)'
      PROVE  messages'[j].m[i] = setConf'[i] \/ \E p \in DOMAIN messages' : p > j /\ SetsItem(p, i)'
  BY <1>1, <1>3, <1>4, <1>5 DEF ItemHeld
<1>6. ASSUME \A j \in DOMAIN messages' : ~SetsItem(j, i)' PROVE adapterConf'[i] = setConf'[i]
  BY <1>3, <1>6 DEF ItemHeld
<1> QED  BY <1>5, <1>6 DEF ItemHeld

\* A message that sets it to what it shall be.
LEMMA ItemSent ==
  ASSUME TypeInv, NEW i \in Items, NEW m \in SoundMessages, messages' = Append(messages, m),
         m.k = "config", m.m[i] # Unset, m.m[i] = setConf'[i]
  PROVE  ItemHeld(i)'
<1>0. PICK n \in Nat : n = Len(messages)
  BY AppendFacts, TypeFacts
<1>1. DOMAIN messages' = 1 .. n + 1 /\ messages'[n + 1] = m
  BY <1>0, SentFacts, TypeFacts
<1>2. n + 1 \in DOMAIN messages' /\ SetsItem(n + 1, i)'
  BY <1>1 DEF SetsItem
<1>3. \A j \in DOMAIN messages' : j = n + 1 \/ n + 1 > j
  BY <1>1
<1> QED  BY <1>1, <1>2, <1>3 DEF ItemHeld

\* The adapter handles a message.
LEMMA ItemTaken ==
  ASSUME TypeInv, NEW i \in Items, ItemHeld(i), AdapterRuns
  PROVE  ItemHeld(i)'
<1>1. PICK m : m = Head(messages)
  OBVIOUS
<1>2. /\ messages # <<>> /\ messages' = Tail(messages) /\ setConf' = setConf
      /\ \/ m.k = "config"
            /\ adapterConf' = [j \in Items |-> IF m.m[j] = Unset THEN adapterConf[j] ELSE m.m[j]]
         \/ m.k # "config" /\ adapterConf' = adapterConf
  <2>1. HandleStart(m) \/ HandleStop(m) \/ HandleUpdate(m) \/ HandleConfig(m)
    BY <1>1 DEF AdapterRuns
  <2> QED  BY <2>1 DEF AdapterRuns, HandleStart, HandleStop, HandleUpdate, HandleConfig
<1>3. PICK n \in Nat : n = Len(messages)
  BY AppendFacts, TypeFacts
<1>4. /\ DOMAIN messages = 1 .. n /\ n >= 1 /\ DOMAIN messages' = 1 .. n - 1
      /\ \A j \in DOMAIN messages' : messages'[j] = messages[j + 1]
      /\ m = messages[1]
  BY <1>1, <1>2, <1>3, TakenFacts, TypeFacts
<1>5. \A j \in DOMAIN messages' :
        j + 1 \in DOMAIN messages /\ (SetsItem(j, i)' <=> SetsItem(j + 1, i))
  BY <1>4 DEF SetsItem
<1>6. ASSUME NEW j \in DOMAIN messages', SetsItem(j, i)'
      PROVE  messages'[j].m[i] = setConf'[i] \/ \E p \in DOMAIN messages' : p > j /\ SetsItem(p, i)'
  <2>1. \/ messages[j + 1].m[i] = setConf[i]
        \/ \E p \in DOMAIN messages : p > j + 1 /\ SetsItem(p, i)
    BY <1>5, <1>6 DEF ItemHeld
  <2>2. ASSUME NEW p \in DOMAIN messages, p > j + 1, SetsItem(p, i)
        PROVE  p - 1 \in DOMAIN messages' /\ p - 1 > j /\ SetsItem(p - 1, i)'
    <3>1. p - 1 \in DOMAIN messages' /\ p - 1 > j /\ (p - 1) + 1 = p
      BY <1>4, <2>2
    <3> QED  BY <1>5, <2>2, <3>1
  <2> QED  BY <1>2, <1>4, <2>1, <2>2
<1>7. ASSUME \A j \in DOMAIN messages' : ~SetsItem(j, i)' PROVE adapterConf'[i] = setConf'[i]
  <2>1. \A p \in DOMAIN messages : p # 1 => ~SetsItem(p, i)
    <3> SUFFICES ASSUME NEW p \in DOMAIN messages, p # 1 PROVE ~SetsItem(p, i)
      OBVIOUS
    <3>1. p - 1 \in DOMAIN messages' /\ (p - 1) + 1 = p
      BY <1>4
    <3> QED  BY <1>5, <1>7, <3>1
  <2>2. CASE SetsItem(1, i)
    <3>1. m.k = "config" /\ m.m[i] # Unset /\ m.m[i] = setConf[i]
      <4>1. 1 \in DOMAIN messages /\ \A p \in DOMAIN messages : p > 1 => ~SetsItem(p, i)
        BY <1>4, <2>1
      <4> QED  BY <1>4, <2>2, <4>1 DEF ItemHeld, SetsItem
    <3> QED  BY <1>2, <3>1
  <2>3. CASE ~SetsItem(1, i)
    <3>1. adapterConf[i] = setConf[i]
      BY <2>1, <2>3 DEF ItemHeld
    <3>2. m.k = "config" => m.m[i] = Unset
      BY <1>4, <2>3 DEF SetsItem
    <3> QED  BY <1>2, <3>1, <3>2
  <2> QED  BY <2>2, <2>3
<1> QED  BY <1>6, <1>7 DEF ItemHeld

\* Every step holds the configuration.
LEMMA ConfStep ==
  ASSUME GnssClientAssumption, "server" \notin BeforeCallback, SessionInv, ConfInv,
         [GnssClientNext]_gnssVars
  PROVE  ConfInv'
<1> USE DEF clientState, capsState, adapterState, frameworkState
<1>0. TypeInv /\ Agreed /\ Unset \notin ItemValues
  BY DEF SessionInv, GnssClientAssumption
<1>1. ASSUME UNCHANGED <<api, pendingConf, lastConf, setConf, adapterConf, messages>>
      PROVE  ConfInv'
  BY <1>1 DEF ConfInv, ItemHeld, SetsItem
<1>2. ASSUME NEW m \in SoundMessages, messages' = Append(messages, m), m.k # "config", api,
             UNCHANGED <<api, pendingConf, lastConf, setConf, adapterConf>>
      PROVE  ConfInv'
  <2>1. ASSUME NEW i \in Items PROVE ItemHeld(i)'
    BY <1>0, <1>2, ItemKept DEF ConfInv
  <2> QED  BY <1>2, <2>1 DEF ConfInv
<1>3. CASE \E v \in Versions : SetCallback(v)
  BY <1>1, <1>3 DEF SetCallback
<1>4. CASE SetsCallback
  <2>1. api' /\ UNCHANGED <<setConf, adapterConf>>
    BY <1>4 DEF SetsCallback
  <2>2. CASE pendingConf = NoConf
    <3>1. UNCHANGED <<messages, lastConf, pendingConf>>
      BY <1>4, <2>2 DEF SetsCallback
    <3>2. CASE api
      BY <1>1, <2>1, <3>1, <3>2
    <3>3. CASE ~api
      <4>1. adapterConf = setConf /\ messages = <<>>
        BY <2>2, <3>3 DEF ConfInv
      <4> QED  BY <2>1, <2>2, <3>1, <4>1 DEF ConfInv, ItemHeld, SetsItem
    <3> QED  BY <3>2, <3>3
  <2>3. CASE pendingConf # NoConf
    <3>1. /\ ~api /\ pendingConf = setConf /\ adapterConf = NoConf /\ messages = <<>>
          /\ pendingConf' = NoConf /\ lastConf' = setConf
      BY <1>4, <2>3 DEF SetsCallback, ConfInv
    <3>2. PICK m : m = Message("config", NoId, setConf)
      OBVIOUS
    <3>3. m \in SoundMessages /\ m.k = "config" /\ m.m = setConf /\ messages' = Append(messages, m)
      BY <1>0, <1>4, <2>3, <3>1, <3>2, SendType, TypeFacts DEF SetsCallback, Send, Message
    <3>4. ASSUME NEW i \in Items PROVE ItemHeld(i)'
      <4>1. CASE setConf[i] = Unset
        <5>1. ItemHeld(i)
          BY <3>1, <4>1 DEF ItemHeld, NoConf
        <5> QED  BY <1>0, <2>1, <3>3, <4>1, <5>1, ItemKept
      <4>2. CASE setConf[i] # Unset
        BY <1>0, <2>1, <3>3, <4>2, ItemSent
      <4> QED  BY <4>1, <4>2
    <3> QED  BY <2>1, <3>1, <3>4 DEF ConfInv
  <2> QED  BY <2>2, <2>3
<1>5. CASE AskCapabilities
  BY <1>1, <1>5 DEF AskCapabilities
<1>6. CASE AnswerCapabilities
  BY <1>1, <1>6 DEF AnswerCapabilities
<1>7. CASE Start
  <2>1. CASE baseTracking
    BY <1>1, <1>7, <2>1 DEF Start
  <2>2. CASE ~baseTracking
    <3>1. PICK s \in Fresh : session' = s /\ Send(Message("start", s, options))
      BY <1>7, <2>2 DEF Start
    <3>2. PICK m : m = Message("start", s, options)
      OBVIOUS
    <3>3. m \in SoundMessages /\ m.k # "config" /\ messages' = Append(messages, m)
      BY <1>0, <3>1, <3>2, SendType, TypeFacts DEF Send, Message, Fresh
    <3> QED  BY <1>2, <1>7, <3>3 DEF Start
  <2> QED  BY <2>1, <2>2
<1>8. ASSUME NEW k \in {"stop", "update"}, NEW v, Request(k, v), api,
             k = "stop" => v = Unset, k = "update" => v \in Modes,
             UNCHANGED <<api, pendingConf, lastConf, setConf, adapterConf>>
      PROVE  ConfInv'
  <2>1. CASE session = NoId
    BY <1>1, <1>8, <2>1 DEF Request
  <2>2. CASE session # NoId
    <3>1. PICK m : m = Message(k, session, v)
      OBVIOUS
    <3>2. m \in SoundMessages
      <4>1. session \in TrackIds
        BY <1>0, <2>2, TypeFacts
      <4>2. CASE k = "stop"
        BY <1>8, <3>1, <4>1, <4>2, SendType
      <4>3. CASE k = "update"
        BY <1>8, <3>1, <4>1, <4>3, SendType
      <4> QED  BY <4>2, <4>3
    <3>3. m.k # "config" /\ messages' = Append(messages, m)
      BY <1>8, <2>2, <3>1 DEF Request, Send, Message
    <3> QED  BY <1>2, <1>8, <3>2, <3>3
  <2> QED  BY <2>1, <2>2
<1>9. CASE Stop
  BY <1>8, <1>9 DEF Stop
<1>10. CASE \E m \in Modes : SetPositionMode(m)
  BY <1>8, <1>10 DEF SetPositionMode
<1>11. ASSUME NEW i \in Items, NEW v \in ItemValues, UpdateConfiguration(i, v)
       PROVE  ConfInv'
  <2> DEFINE conf == [NoConf EXCEPT ![i] = v]
  <2>1. /\ setConf' = [setConf EXCEPT ![i] = v] /\ UNCHANGED <<api, adapterConf>>
        /\ setConf \in Configured /\ lastConf \in Configured
        /\ conf \in Configured /\ v # Unset
    BY <1>0, <1>11, ConfType, TypeFacts DEF UpdateConfiguration
  <2>2. conf[i] = v /\ \A j \in Items \ {i} : conf[j] = Unset
    BY DEF NoConf
  <2>3. setConf'[i] = v /\ \A j \in Items \ {i} : setConf'[j] = setConf[j]
    BY <2>1 DEF Configured
  <2> HIDE DEF conf
  <2>4. CASE api /\ conf # lastConf
    <3>1. lastConf' = conf /\ pendingConf' = pendingConf /\ Send(Message("config", NoId, conf))
      BY <1>11, <2>4 DEF UpdateConfiguration, conf
    <3>2. PICK m : m = Message("config", NoId, conf)
      OBVIOUS
    <3>3. m \in SoundMessages /\ m.k = "config" /\ m.m = conf /\ messages' = Append(messages, m)
      BY <2>1, <3>1, <3>2, SendType DEF Send, Message
    <3>4. ASSUME NEW j \in Items PROVE ItemHeld(j)'
      <4>1. CASE j = i
        BY <1>0, <2>1, <2>2, <2>3, <3>3, <4>1, ItemSent
      <4>2. CASE j # i
        BY <1>0, <2>1, <2>2, <2>3, <2>4, <3>3, <4>2, ItemKept DEF ConfInv
      <4> QED  BY <4>1, <4>2
    <3> QED  BY <2>1, <2>2, <2>3, <2>4, <3>1, <3>4 DEF ConfInv
  <2>5. CASE api /\ conf = lastConf
    <3>1. setConf[i] = v
      BY <2>1, <2>2, <2>5 DEF ConfInv
    <3>2. setConf' = setConf
      BY <2>1, <3>1 DEF Configured
    <3> QED  BY <1>1, <1>11, <2>1, <2>5, <3>2 DEF UpdateConfiguration, conf
  <2>6. CASE ~api
    <3>1. /\ pendingConf' = Pending(i, v) /\ i # "server" /\ UNCHANGED <<lastConf, messages>>
      BY <1>11, <2>6 DEF UpdateConfiguration
    <3>2. pendingConf' = setConf'
      BY <2>1, <2>6, <3>1 DEF Pending, ConfInv
    <3> QED  BY <2>1, <2>6, <3>1, <3>2 DEF ConfInv
  <2> QED  BY <2>4, <2>5, <2>6
<1>12. CASE AdapterRuns
  <2>1. api
    BY <1>12 DEF AdapterRuns, ConfInv
  <2>2. ASSUME NEW i \in Items PROVE ItemHeld(i)'
    BY <1>0, <1>12, <2>1, ItemTaken DEF ConfInv
  <2> QED  BY <1>12, <2>1, <2>2 DEF AdapterRuns, ConfInv
<1>13. CASE TellCapabilities
  BY <1>1, <1>13 DEF TellCapabilities
<1>14. CASE ReportFix
  BY <1>1, <1>14 DEF ReportFix
<1>15. CASE Give
  BY <1>1, <1>15 DEF Give
<1>16. CASE UNCHANGED gnssVars
  BY <1>1, <1>16 DEF gnssVars
<1> QED
  BY <1>3, <1>4, <1>5, <1>6, <1>7, <1>9, <1>10, <1>11, <1>12, <1>13, <1>14, <1>15, <1>16
  DEF GnssClientNext

-----------------------------------------------------------------------------
\* The adapter runs the session that the framework wants, as it last set it, or none,
\* however often the framework dies and in whichever order answers come; it knows that the
\* session began, and one fix at most comes after it stopped.
THEOREM SessionAlwaysFollows ==
  ASSUME GnssClientAssumption
  PROVE  GnssClientSpec => [](GnssClientTypeOK /\ SessionFollows /\ FewLateFixes)
<1> DEFINE I == SessionInv /\ LateInv
<1>1. GnssClientInit => I
  <2>1. GnssClientInit => LateInv
    BY DEF LateInv, GnssClientInit
  <2> QED  BY <2>1, SessionInit
<1>2. I /\ [GnssClientNext]_gnssVars => I'
  BY SessionStep, LateStep
<1>3. I => GnssClientTypeOK /\ SessionFollows /\ FewLateFixes
  BY SessionServes DEF SessionInv, LateInv, TypeInv, FewLateFixes
<1> QED  BY <1>1, <1>2, <1>3, PTL DEF GnssClientSpec

\* A framework that has registered is the one that is called, and knows what the device
\* can do, if that is told once; told again, a request of it may write back what was read.
THEOREM FrameworkAlwaysKnows ==
  ASSUME GnssClientAssumption, MaxCapabilities \in 0 .. 1
  PROVE  GnssClientSpec => []FrameworkKnows
<1> DEFINE I == SessionInv /\ KnowsInv
<1>1. GnssClientInit => I
  <2>1. GnssClientInit => KnowsInv
    BY DEF KnowsInv, GnssClientInit, Nothing, Carry
  <2> QED  BY <2>1, SessionInit
<1>2. I /\ [GnssClientNext]_gnssVars => I'
  BY SessionStep, KnowsStep
<1>3. I => FrameworkKnows
  <2> SUFFICES ASSUME I PROVE FrameworkKnows
    OBVIOUS
  <2>1. callback.n \in 0 .. MaxCallbacks
    BY TypeFacts DEF SessionInv
  <2>2. ASSUME Settled, api PROVE knows[callback.n] = capsTold
    <3>1. carried.k # "capabilities"
      BY <2>2 DEF Settled, Nothing, Carry
    <3> QED  BY <2>1, <2>2, <3>1 DEF KnowsInv, Settled
  <2>3. step = "idle" /\ api => iface = [NoCallbacks EXCEPT ![callback.v] = callback.n]
    BY DEF SessionInv, Registered
  <2> QED  BY <2>2, <2>3 DEF FrameworkKnows
<1> QED  BY <1>1, <1>2, <1>3, PTL DEF GnssClientSpec

\* The adapter has the configuration that the framework set last, even what it set before
\* it registered, unless that is the server, of which the client forgets the name.
THEOREM ConfigurationAlwaysHeld ==
  ASSUME GnssClientAssumption, "server" \notin BeforeCallback
  PROVE  GnssClientSpec => []ConfigurationHeld
<1> DEFINE I == SessionInv /\ ConfInv
<1>1. GnssClientInit => I
  <2>1. ASSUME GnssClientInit PROVE ConfInv
    BY <2>1 DEF ConfInv, GnssClientInit, NoConf
  <2> QED  BY <2>1, SessionInit
<1>2. I /\ [GnssClientNext]_gnssVars => I'
  BY SessionStep, ConfStep
<1>3. I => ConfigurationHeld
  <2> SUFFICES ASSUME SessionInv, ConfInv, Settled, api PROVE adapterConf = setConf
    BY DEF ConfigurationHeld
  <2>1. \A i \in Items : adapterConf[i] = setConf[i]
    BY DEF ConfInv, ItemHeld, SetsItem, Settled
  <2>2. adapterConf \in Configured /\ setConf \in Configured
    BY TypeFacts DEF SessionInv
  <2> QED  BY <2>1, <2>2 DEF Configured
<1> QED  BY <1>1, <1>2, <1>3, PTL DEF GnssClientSpec
=============================================================================
