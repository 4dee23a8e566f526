-------------------------- MODULE LocationApiProofs --------------------------
(***************************************************************************)
(* Proofs about LocationApi, for any objects, kinds of adapters, missing   *)
(* libraries and length of queues, about the geofences that a client of it *)
(* keeps (GeofenceClient), for any ids and sessions, and at the end about  *)
(* the measurements of another (MeasurementClient).                        *)
(*                                                                         *)
(* A freed address is unknown everywhere because the remove message is the *)
(* last that makes its object known or unknown in every queue, and because *)
(* the object waits for exactly the adapters that have one; those that     *)
(* were not loaded when it was destroyed never heard of it.  Answers of    *)
(* LocApi and requests that wait for the engine may come later, and find   *)
(* that the adapter does not know their object.                            *)
(***************************************************************************)
EXTENDS LocationApi, GeofenceClient, MeasurementClient, FiniteSetTheorems, TLAPS

Removal(c) == Msg("remove", c)

\* The message makes an object known to the adapter, or unknown.
Of(m, c) == m.k \in {"add", "remove"} /\ m.c = c

\* Adapter k neither knows the object nor has a message that makes it known or unknown.
Clean(c, k) ==
  /\ c \notin adapter[k].clients
  /\ \A i \in DOMAIN queue[k] : ~Of(queue[k][i], c)

Types ==
  /\ object \in [Apis -> {"free", "live", "leaving"}]
  /\ destroyData \in [Apis -> SUBSET Kinds]
  /\ loaded \subseteq Kinds
  /\ queue \in [Kinds -> Seq(Msgs)]
  /\ adapter \in [Kinds -> AdapterStates]

LiveStays ==
  \A c \in Apis : object[c] = "live" =>
    /\ destroyData[c] = {}
    /\ \A k \in Kinds : \A i \in DOMAIN queue[k] : queue[k][i] # Removal(c)

FreeIsForgotten ==
  \A c \in Apis : object[c] = "free" => destroyData[c] = {} /\ \A k \in Kinds : Clean(c, k)

RemovalIsLast ==
  \A c \in Apis, k \in Kinds : \A i, j \in DOMAIN queue[k] :
    i < j /\ queue[k][i] = Removal(c) => ~Of(queue[k][j], c)

Expected ==
  \A c \in Apis : \A k \in destroyData[c] :
    \E i \in DOMAIN queue[k] : queue[k][i] = Removal(c)

\* An object that still waits is unknown to the adapters it does not wait for.
OthersForgot ==
  \A c \in Apis : destroyData[c] # {} =>
    \A k \in Kinds \ destroyData[c] : Clean(c, k)

UnloadedIsEmpty ==
  \A k \in Kinds \ loaded : queue[k] = <<>> /\ adapter[k].clients = {}

ApiInv ==
  /\ Types /\ LiveStays /\ FreeIsForgotten /\ RemovalIsLast
  /\ Expected /\ OthersForgot /\ UnloadedIsEmpty

\* What an adapter has asked LocApi for and what it keeps for later: messages that make
\* no object known or unknown.
WorkInv ==
  /\ locCalls \in [Kinds -> Seq(LocCalls)]
  /\ \A k \in Kinds \ loaded : locCalls[k] = <<>>
  /\ kept \in [Kinds -> Seq(Msgs)]
  /\ \A k \in Kinds : \A i \in DOMAIN kept[k] : kept[k][i].k \in {"caps", "start"}

-----------------------------------------------------------------------------
\* q is r with messages at its end, of which none is a removal, and that make known no
\* other objects than those of C.
Grown(q, r, C) ==
  /\ r \in Seq(Msgs) /\ Len(q) <= Len(r)
  /\ \A i \in DOMAIN q : r[i] = q[i]
  /\ \A i \in DOMAIN r : i > Len(q) => r[i].k # "remove" /\ (r[i].k = "add" => r[i].c \in C)

LEMMA GrownSame ==
  ASSUME NEW q \in Seq(Msgs), NEW C
  PROVE  Grown(q, q, C)
BY DEF Grown

LEMMA GrownAppend ==
  ASSUME NEW q \in Seq(Msgs), NEW C, NEW m \in Msgs, m.k \notin {"add", "remove"}
  PROVE  Grown(q, Append(q, m), C)
<1>1. /\ Append(q, m) \in Seq(Msgs) /\ Len(Append(q, m)) = Len(q) + 1 /\ Len(q) \in Nat
      /\ \A i \in DOMAIN q : Append(q, m)[i] = q[i]
      /\ DOMAIN Append(q, m) = 1 .. Len(q) + 1 /\ Append(q, m)[Len(q) + 1] = m
  OBVIOUS
<1> DEFINE r == Append(q, m)
<1> HIDE DEF r
<1>2. \A i \in DOMAIN r : i > Len(q) => r[i] = m
  <2>1. \A i \in 1 .. Len(q) + 1 : i > Len(q) => i = Len(q) + 1
    BY <1>1
  <2> QED  BY <1>1, <2>1 DEF r
<1> QED  BY <1>1, <1>2 DEF Grown, r

LEMMA GrownJoin ==
  ASSUME NEW q \in Seq(Msgs), NEW c \in Apis, NEW k, NEW asks \in BOOLEAN
  PROVE  Grown(q, q \o Registration(c, k, asks), {c})
<1> DEFINE a == Msg("add", c)
           b == Msg("caps", c)
<1>1. /\ a \in Msgs /\ a.c = c /\ a.k = "add"
      /\ b \in Msgs /\ b.k = "caps"
  BY DEF Msg, Msgs
<1> HIDE DEF a, b
<1>2. CASE asks
  <2>1. Registration(c, k, asks) = <<a, b>>
    BY <1>2 DEF Registration, a, b
  <2>2. /\ q \o <<a, b>> \in Seq(Msgs) /\ Len(q \o <<a, b>>) = Len(q) + 2
        /\ \A i \in DOMAIN q : (q \o <<a, b>>)[i] = q[i]
        /\ (q \o <<a, b>>)[Len(q) + 1] = a /\ (q \o <<a, b>>)[Len(q) + 2] = b
    BY <1>1
  <2>3. DOMAIN (q \o <<a, b>>) = 1 .. Len(q) + 2
    BY <2>2
  <2>4. \A i \in 1 .. Len(q) + 2 : i > Len(q) => i = Len(q) + 1 \/ i = Len(q) + 2
    OBVIOUS
  <2> QED  BY <1>1, <2>1, <2>2, <2>3, <2>4 DEF Grown
<1>3. CASE ~asks
  <2>1. Registration(c, k, asks) = <<a>>
    BY <1>3 DEF Registration, a
  <2>2. /\ q \o <<a>> \in Seq(Msgs) /\ Len(q \o <<a>>) = Len(q) + 1
        /\ \A i \in DOMAIN q : (q \o <<a>>)[i] = q[i]
        /\ (q \o <<a>>)[Len(q) + 1] = a
    BY <1>1
  <2>3. DOMAIN (q \o <<a>>) = 1 .. Len(q) + 1
    BY <2>2
  <2>4. \A i \in 1 .. Len(q) + 1 : i > Len(q) => i = Len(q) + 1
    OBVIOUS
  <2> QED  BY <1>1, <2>1, <2>2, <2>3, <2>4 DEF Grown
<1> QED  BY <1>2, <1>3

\* What was kept comes behind the messages that are there.
LEMMA GrownKept ==
  ASSUME NEW q \in Seq(Msgs), NEW C, NEW p \in Seq(Msgs),
         \A i \in DOMAIN p : p[i].k \in {"caps", "start"}
  PROVE  Grown(q, q \o p, C)
<1>1. /\ q \o p \in Seq(Msgs) /\ Len(q \o p) = Len(q) + Len(p) /\ Len(q) \in Nat /\ Len(p) \in Nat
      /\ \A i \in DOMAIN q : (q \o p)[i] = q[i]
      /\ DOMAIN (q \o p) = 1 .. Len(q) + Len(p) /\ DOMAIN p = 1 .. Len(p)
      /\ \A i \in 1 .. Len(q) + Len(p) : i > Len(q) => (q \o p)[i] = p[i - Len(q)]
  OBVIOUS
<1>2. ASSUME NEW i \in 1 .. Len(q) + Len(p), i > Len(q)
      PROVE  (q \o p)[i].k \in {"caps", "start"}
  <2>1. i - Len(q) \in DOMAIN p
    BY <1>1, <1>2
  <2> QED  BY <1>1, <1>2, <2>1
<1> DEFINE r == q \o p
<1> HIDE DEF r
<1>3. \A i \in DOMAIN r : i > Len(q) => r[i].k # "remove" /\ r[i].k # "add"
  BY <1>1, <1>2 DEF r
<1> QED  BY <1>1, <1>3 DEF Grown, r

LEMMA TakenFacts ==
  ASSUME NEW q \in Seq(Msgs), q # <<>>
  PROVE  /\ Tail(q) \in Seq(Msgs) /\ Head(q) = q[1] /\ 1 \in DOMAIN q /\ Head(q) \in Msgs
         /\ \A i \in DOMAIN Tail(q) : i + 1 \in DOMAIN q /\ 1 < i + 1 /\ Tail(q)[i] = q[i + 1]
         /\ \A i \in DOMAIN q : i # 1 => i - 1 \in DOMAIN Tail(q) /\ Tail(q)[i - 1] = q[i]
<1>1. /\ Len(q) \in Nat /\ Len(q) >= 1 /\ DOMAIN q = 1 .. Len(q)
      /\ Tail(q) \in Seq(Msgs) /\ Len(Tail(q)) = Len(q) - 1
      /\ Head(q) = q[1] /\ DOMAIN Tail(q) = 1 .. Len(q) - 1
      /\ \A i \in 1 .. Len(q) - 1 : Tail(q)[i] = q[i + 1]
  OBVIOUS
<1>2. ASSUME NEW i \in DOMAIN q, i # 1 PROVE i - 1 \in DOMAIN Tail(q) /\ Tail(q)[i - 1] = q[i]
  <2>1. i - 1 \in 1 .. Len(q) - 1 /\ (i - 1) + 1 = i
    BY <1>1, <1>2
  <2> QED  BY <1>1, <2>1
<1>3. \A i \in 1 .. Len(q) - 1 : i + 1 \in 1 .. Len(q) /\ 1 < i + 1
  BY <1>1
<1>4. 1 \in DOMAIN q /\ q[1] \in Msgs
  BY <1>1
<1> QED  BY <1>1, <1>2, <1>3, <1>4

\* Which messages make an object known or unknown.
LEMMA MsgFacts ==
  /\ \A c \in Apis : Removal(c).c = c /\ Removal(c).k = "remove" /\ Of(Removal(c), c)
  /\ \A c \in Apis : Removal(c) \in Msgs
  /\ \A m \in Msgs : m.k \in {"add", "remove", "caps"} => m.c \in Apis
  /\ \A m \in Msgs : m.k = "remove" => m = Removal(m.c)
  /\ \A m \in Msgs : m.k = "add" => m = Msg("add", m.c)
<1>1. ASSUME NEW c \in Apis
      PROVE  Removal(c).c = c /\ Removal(c).k = "remove" /\ Of(Removal(c), c) /\ Removal(c) \in Msgs
  BY DEF Removal, Msg, Of, Msgs
<1>2. ASSUME NEW m \in Msgs, m.k \in {"add", "remove", "caps"}
      PROVE  m.c \in Apis /\ m = [k |-> m.k, c |-> m.c]
  <2>1. m \in [k : {"add", "caps", "remove"}, c : Apis]
    BY <1>2 DEF Msgs, UpMsg
  <2> QED  BY <2>1
<1> QED  BY <1>1, <1>2 DEF Removal, Msg

-----------------------------------------------------------------------------
\* A call that adds messages, those of C by which objects that are live, or become live,
\* are known.
LEMMA CallKeepsInv ==
  ASSUME ApiInv, NEW C \in SUBSET Apis, \A c \in C : object[c] \in {"free", "live"},
         object' = [c \in Apis |-> IF c \in C THEN "live" ELSE object[c]],
         adapter' = adapter, destroyData' = destroyData,
         loaded \subseteq loaded', loaded' \subseteq Kinds,
         queue' \in [Kinds -> Seq(Msgs)],
         \A k \in Kinds : Grown(queue[k], queue'[k], C),
         \A k \in Kinds \ loaded' : queue'[k] = queue[k]
  PROVE  ApiInv'
<1>1. /\ Types /\ \A k \in Kinds : queue[k] \in Seq(Msgs) /\ queue'[k] \in Seq(Msgs)
      /\ \A d \in Apis : d \notin C => object'[d] = object[d]
      /\ \A d \in C : object'[d] = "live"
  BY DEF ApiInv, Types
<1>2. \A c \in C : destroyData[c] = {}
  BY DEF ApiInv, LiveStays, FreeIsForgotten
<1>3. ASSUME NEW k \in Kinds, NEW i \in DOMAIN queue'[k]
      PROVE  \/ i \in DOMAIN queue[k] /\ queue'[k][i] = queue[k][i]
             \/ /\ i > Len(queue[k]) /\ queue'[k][i].k # "remove"
                /\ queue'[k][i].k = "add" => queue'[k][i].c \in C
  <2>1. Grown(queue[k], queue'[k], C) /\ i \in Nat /\ Len(queue[k]) \in Nat /\ i >= 1
    BY <1>1, <1>3
  <2> QED  BY <1>1, <1>3, <2>1 DEF Grown
<1>4. \A d \in Apis : Removal(d).k = "remove" /\ Of(Removal(d), d)
  BY MsgFacts
<1>5. \A k \in Kinds : \A i \in DOMAIN queue[k] :
        i \in DOMAIN queue'[k] /\ queue'[k][i] = queue[k][i]
  <2> SUFFICES ASSUME NEW k \in Kinds, NEW i \in DOMAIN queue[k]
               PROVE  i \in DOMAIN queue'[k] /\ queue'[k][i] = queue[k][i]
    OBVIOUS
  <2>1. Grown(queue[k], queue'[k], C)
    OBVIOUS
  <2> QED  BY <1>1, <2>1 DEF Grown
<1>6. ASSUME NEW d \in Apis, d \notin C, NEW k \in Kinds, Clean(d, k) PROVE Clean(d, k)'
  <2>1. \A i \in DOMAIN queue'[k] : ~Of(queue'[k][i], d)
    BY <1>3, <1>6 DEF Clean, Of
  <2> QED  BY <1>6, <2>1 DEF Clean, Of
<1>7. Types'
  BY <1>1 DEF Types
<1>8. LiveStays'
  <2> SUFFICES ASSUME NEW d \in Apis, object'[d] = "live"
               PROVE  /\ destroyData'[d] = {}
                      /\ \A k \in Kinds : \A i \in DOMAIN queue'[k] : queue'[k][i] # Removal(d)
    BY DEF LiveStays, Removal, Msg
  <2>1. \A k \in Kinds : \A i \in DOMAIN queue[k] : queue[k][i] # Removal(d)
    <3>1. CASE object[d] = "live"
      BY <3>1 DEF ApiInv, LiveStays
    <3>2. CASE object[d] # "live"
      <4>1. object[d] = "free"
        BY <1>1, <3>2
      <4> QED  BY <1>4, <4>1 DEF ApiInv, FreeIsForgotten, Clean
    <3> QED  BY <3>1, <3>2
  <2>2. destroyData'[d] = {}
    BY <1>1, <1>2 DEF ApiInv, LiveStays
  <2> QED  BY <1>3, <1>4, <2>1, <2>2
<1>9. FreeIsForgotten'
  <2> SUFFICES ASSUME NEW d \in Apis, object'[d] = "free"
               PROVE  destroyData'[d] = {} /\ \A k \in Kinds : Clean(d, k)'
    BY DEF FreeIsForgotten, Clean, Of
  <2>1. d \notin C /\ object[d] = "free"
    BY <1>1
  <2> QED  BY <1>6, <2>1 DEF ApiInv, FreeIsForgotten
<1>10. RemovalIsLast'
  <2> SUFFICES ASSUME NEW d \in Apis, NEW k \in Kinds,
                      NEW i \in DOMAIN queue'[k], NEW j \in DOMAIN queue'[k],
                      i < j, queue'[k][i] = Removal(d)
               PROVE  ~Of(queue'[k][j], d)
    BY DEF RemovalIsLast, Removal, Msg, Of
  <2>1. i \in DOMAIN queue[k] /\ queue[k][i] = Removal(d)
    BY <1>3, <1>4
  <2>2. d \notin C
    <3>1. object[d] # "live"
      BY <2>1 DEF ApiInv, LiveStays
    <3>2. object[d] # "free"
      BY <1>4, <2>1 DEF ApiInv, FreeIsForgotten, Clean
    <3> QED  BY <3>1, <3>2
  <2>3. \/ j \in DOMAIN queue[k] /\ queue'[k][j] = queue[k][j]
        \/ queue'[k][j].k # "remove" /\ (queue'[k][j].k = "add" => queue'[k][j].c \in C)
    BY <1>3
  <2>4. CASE j \in DOMAIN queue[k] /\ queue'[k][j] = queue[k][j]
    BY <2>1, <2>4 DEF ApiInv, RemovalIsLast
  <2>5. CASE queue'[k][j].k # "remove" /\ (queue'[k][j].k = "add" => queue'[k][j].c \in C)
    BY <2>2, <2>5 DEF Of
  <2> QED  BY <2>3, <2>4, <2>5
<1>11. Expected'
  <2> SUFFICES ASSUME NEW d \in Apis, NEW k \in destroyData[d]
               PROVE  \E i \in DOMAIN queue'[k] : queue'[k][i] = Removal(d)
    BY DEF Expected, Removal, Msg
  <2>1. k \in Kinds
    BY <1>1 DEF Types
  <2>2. PICK i \in DOMAIN queue[k] : queue[k][i] = Removal(d)
    BY DEF ApiInv, Expected
  <2> QED  BY <1>5, <2>1, <2>2
<1>12. OthersForgot'
  <2> SUFFICES ASSUME NEW d \in Apis, destroyData[d] # {}, NEW k \in Kinds \ destroyData[d]
               PROVE  Clean(d, k)'
    BY DEF OthersForgot, Clean, Of
  <2>1. d \notin C /\ Clean(d, k)
    BY <1>2 DEF ApiInv, OthersForgot
  <2> QED  BY <1>6, <2>1
<1>13. UnloadedIsEmpty'
  BY DEF ApiInv, UnloadedIsEmpty
<1> QED  BY <1>7, <1>8, <1>9, <1>10, <1>11, <1>12, <1>13 DEF ApiInv

LEMMA RegisterGrows ==
  ASSUME Types, NEW c \in Apis, NEW kinds \in SUBSET Kinds, NEW asks \in BOOLEAN,
         loaded \subseteq loaded', loaded' \subseteq Kinds,
         Register(c, kinds \cap loaded', asks)
  PROVE  /\ queue' \in [Kinds -> Seq(Msgs)]
         /\ \A k \in Kinds : Grown(queue[k], queue'[k], {c})
         /\ \A k \in Kinds \ loaded' : queue'[k] = queue[k]
<1> DEFINE asked_(k) == asks /\ First(kinds \cap loaded', k)
<1>1. \A k \in Kinds :
        queue'[k] = IF k \notin kinds \cap loaded' THEN queue[k]
                    ELSE queue[k] \o Registration(c, k, asked_(k))
  BY DEF Register
<1>2. DOMAIN queue' = Kinds /\ queue' = [k \in Kinds |-> queue'[k]]
  BY DEF Register
<1>3. ASSUME NEW k \in Kinds PROVE Grown(queue[k], queue'[k], {c})
  <2>1. queue[k] \in Seq(Msgs) /\ asked_(k) \in BOOLEAN
    BY DEF Types, First
  <2> HIDE DEF asked_
  <2>2. CASE k \notin kinds \cap loaded'
    BY <1>1, <2>1, <2>2, GrownSame
  <2>3. CASE k \in kinds \cap loaded'
    BY <1>1, <2>1, <2>3, GrownJoin
  <2> QED  BY <2>2, <2>3
<1>4. queue' \in [Kinds -> Seq(Msgs)]
  BY <1>2, <1>3 DEF Grown
<1> HIDE DEF asked_
<1> QED  BY <1>1, <1>3, <1>4

LEMMA CallsKeepInv ==
  ASSUME ApiInv, NEW c \in Apis, NEW kinds \in SUBSET Kinds,
         CreateInstance(c, kinds) \/ UpdateCallbacks(c, kinds)
  PROVE  ApiInv'
<1>1. /\ Types /\ loaded \subseteq loaded' /\ loaded' \subseteq Kinds
      /\ object \in [Apis -> {"free", "live", "leaving"}]
      /\ adapter' = adapter /\ destroyData' = destroyData
  BY DEF ApiInv, Types, CreateInstance, UpdateCallbacks, LoadInterfaces, objectVars, adapterData
<1>2. object[c] \in {"free", "live"} /\ object' = [object EXCEPT ![c] = "live"]
  BY <1>1 DEF CreateInstance, UpdateCallbacks, objectVars
<1>3. object' = [d \in Apis |-> IF d \in {c} THEN "live" ELSE object[d]]
  BY <1>1, <1>2
<1>4. Register(c, kinds \cap loaded', TRUE) \/ Register(c, kinds \cap loaded', FALSE)
  BY DEF CreateInstance, UpdateCallbacks
<1>5. /\ queue' \in [Kinds -> Seq(Msgs)]
      /\ \A k \in Kinds : Grown(queue[k], queue'[k], {c})
      /\ \A k \in Kinds \ loaded' : queue'[k] = queue[k]
  BY <1>1, <1>4, RegisterGrows
<1> QED  BY <1>1, <1>2, <1>3, <1>5, CallKeepsInv

\* A message is posted that makes no object known or unknown.
LEMMA PostKeepsInv ==
  ASSUME ApiInv, NEW k \in loaded, NEW m \in Msgs, m.k \notin {"add", "remove"},
         queue' = [queue EXCEPT ![k] = Append(@, m)],
         object' = object, destroyData' = destroyData, loaded' = loaded, adapter' = adapter
  PROVE  ApiInv'
<1>1. Types /\ k \in Kinds
  BY DEF ApiInv, Types
<1>2. object' = [d \in Apis |-> IF d \in {} THEN "live" ELSE object[d]]
  BY <1>1 DEF Types
<1>3. ASSUME NEW l \in Kinds PROVE Grown(queue[l], queue'[l], {})
  <2>1. queue[l] \in Seq(Msgs)
    BY <1>1 DEF Types
  <2>2. queue'[l] = IF l = k THEN Append(queue[l], m) ELSE queue[l]
    BY <1>1 DEF Types
  <2> QED  BY <2>1, <2>2, GrownAppend, GrownSame
<1>4. queue' \in [Kinds -> Seq(Msgs)]
  BY <1>1, <1>3 DEF Types, Grown
<1>5. \A l \in Kinds \ loaded' : queue'[l] = queue[l]
  BY <1>1 DEF Types
<1>6. loaded \subseteq loaded' /\ loaded' \subseteq Kinds
  BY <1>1 DEF Types
<1> QED  BY <1>2, <1>3, <1>4, <1>5, <1>6, CallKeepsInv

\* A client that starts a session, and LocApi that answers a call or reports the engine.
LEMMA PostsKeepInv ==
  ASSUME ApiInv, WorkInv, NEW k \in Kinds,
         \/ \E c \in Apis, far \in BOOLEAN, id \in SessionIds : StartSession(c, k, far, id)
         \/ AnswerCall(k) \/ ReportEngineUp(k)
  PROVE  ApiInv'
<1>1. CASE \E c \in Apis, far \in BOOLEAN, id \in SessionIds : StartSession(c, k, far, id)
  <2>1. PICK c \in Apis, far \in BOOLEAN, id \in SessionIds : StartSession(c, k, far, id)
    BY <1>1
  <2> DEFINE m == StartMsg(far, [c |-> c, id |-> id])
  <2>2. m \in Msgs /\ m.k \notin {"add", "remove"}
    BY DEF StartMsg, Msgs, ApiSessions
  <2>3. queue' = [queue EXCEPT ![k] = Append(@, m)] /\ k \in loaded
        /\ object' = object /\ destroyData' = destroyData /\ loaded' = loaded /\ adapter' = adapter
    BY <2>1 DEF StartSession, libraryVars, objectVars, adapterData
  <2> HIDE DEF m
  <2> QED  BY <2>2, <2>3, PostKeepsInv
<1>2. CASE AnswerCall(k)
  <2>1. PICK ok \in BOOLEAN : queue' = [queue EXCEPT ![k] = Append(@, AnswerMsg(Head(locCalls[k]), ok))]
    BY <1>2 DEF AnswerCall
  <2> DEFINE m == AnswerMsg(Head(locCalls[k]), ok)
  <2>2. locCalls[k] # <<>> /\ locCalls[k] \in Seq(LocCalls)
    BY <1>2 DEF AnswerCall, WorkInv
  <2>3. Head(locCalls[k]) \in LocCalls
    BY <2>2
  <2>4. m \in Msgs /\ m.k \notin {"add", "remove"}
    BY <2>3 DEF AnswerMsg, Msgs, LocCalls
  <2>5. k \in loaded
    BY <2>2 DEF WorkInv
  <2>6. queue' = [queue EXCEPT ![k] = Append(@, m)]
        /\ object' = object /\ destroyData' = destroyData /\ loaded' = loaded /\ adapter' = adapter
    BY <1>2, <2>1 DEF AnswerCall, libraryVars, objectVars
  <2> HIDE DEF m
  <2> QED  BY <2>4, <2>5, <2>6, PostKeepsInv
<1>3. CASE ReportEngineUp(k)
  <2>1. UpMsg \in Msgs /\ UpMsg.k \notin {"add", "remove"}
    BY DEF UpMsg, Msgs
  <2>2. queue' = [queue EXCEPT ![k] = Append(@, UpMsg)] /\ k \in loaded
        /\ object' = object /\ destroyData' = destroyData /\ loaded' = loaded /\ adapter' = adapter
    BY <1>3 DEF ReportEngineUp, libraryVars, objectVars, adapterData
  <2> QED  BY <2>1, <2>2, PostKeepsInv
<1> QED  BY <1>1, <1>2, <1>3

-----------------------------------------------------------------------------
LEMMA DestroyKeepsInv ==
  ASSUME ApiInv, NEW c \in Apis, NEW withCallback \in BOOLEAN, Destroy(c, withCallback)
  PROVE  ApiInv'
<1> DEFINE m == Removal(c)
<1>1. /\ Types /\ object[c] = "live" /\ adapter' = adapter /\ loaded' = loaded
      /\ destroyData' = [destroyData EXCEPT ![c] = WaitAdapterMask(withCallback)]
      /\ queue' = [k \in Kinds |-> IF k \in loaded THEN Append(queue[k], m) ELSE queue[k]]
      /\ \/ loaded # {} /\ object' = [object EXCEPT ![c] = "leaving"]
         \/ loaded = {} /\ object' = [object EXCEPT ![c] = "free"]
  BY DEF ApiInv, Destroy, Removal
<1>2. /\ WaitAdapterMask(withCallback) \subseteq loaded
      /\ WaitAdapterMask(withCallback) # {} => WaitAdapterMask(withCallback) = loaded
  BY DEF WaitAdapterMask
<1>3. /\ m \in Msgs /\ m.c = c
      /\ \A d \in Apis : Removal(d).c = d
  BY MsgFacts
<1> HIDE DEF m
<1>4. ASSUME NEW k \in Kinds
      PROVE  /\ queue[k] \in Seq(Msgs) /\ queue'[k] \in Seq(Msgs)
             /\ \A i \in DOMAIN queue[k] : i \in DOMAIN queue'[k] /\ queue'[k][i] = queue[k][i]
             /\ \A i \in DOMAIN queue'[k] :
                  \/ i \in DOMAIN queue[k] /\ queue'[k][i] = queue[k][i]
                  \/ /\ k \in loaded /\ i = Len(queue[k]) + 1 /\ queue'[k][i] = m
                     /\ \A j \in DOMAIN queue'[k] : ~(i < j)
             /\ k \in loaded => \E i \in DOMAIN queue'[k] : queue'[k][i] = m
  <2>1. queue[k] \in Seq(Msgs)
    BY <1>1 DEF Types
  <2>2. CASE k \notin loaded
    <3>1. queue'[k] = queue[k]
      BY <1>1, <2>2
    <3> QED  BY <2>1, <2>2, <3>1
  <2>3. CASE k \in loaded
    <3> DEFINE q == queue[k]
               r == Append(q, m)
    <3>1. queue'[k] = r
      BY <1>1, <2>3
    <3>2. /\ r \in Seq(Msgs) /\ DOMAIN r = 1 .. Len(q) + 1 /\ DOMAIN q = 1 .. Len(q)
          /\ Len(q) \in Nat /\ r[Len(q) + 1] = m
          /\ \A i \in 1 .. Len(q) : r[i] = q[i]
      BY <1>3, <2>1
    <3> HIDE DEF r
    <3>3. \A i \in 1 .. Len(q) + 1 : i \in 1 .. Len(q) \/ i = Len(q) + 1
      BY <3>2
    <3>4. \A j \in 1 .. Len(q) + 1 : ~(Len(q) + 1 < j)
      BY <3>2
    <3>5. Len(q) + 1 \in 1 .. Len(q) + 1 /\ 1 .. Len(q) \subseteq 1 .. Len(q) + 1
      BY <3>2
    <3> QED  BY <2>1, <2>3, <3>1, <3>2, <3>3, <3>4, <3>5
  <2> QED  BY <2>2, <2>3
<1>5. \A d \in Apis : d # c => object'[d] = object[d] /\ destroyData'[d] = destroyData[d]
  BY <1>1 DEF Types
<1>6. /\ object'[c] \in {"leaving", "free"}
      /\ object'[c] = "free" => loaded = {}
      /\ destroyData'[c] = WaitAdapterMask(withCallback)
  BY <1>1 DEF Types
<1>7. ASSUME NEW d \in Apis, d # c, NEW k \in Kinds, Clean(d, k) PROVE Clean(d, k)'
  <2>1. \A i \in DOMAIN queue'[k] : ~Of(queue'[k][i], d)
    BY <1>3, <1>4, <1>7 DEF Clean, Of
  <2> QED  BY <1>1, <1>7, <2>1 DEF Clean, Of
<1>8. \A k \in Kinds \ loaded : Clean(c, k)'
  <2> SUFFICES ASSUME NEW k \in Kinds \ loaded PROVE Clean(c, k)'
    OBVIOUS
  <2>1. queue'[k] = queue[k] /\ queue[k] = <<>> /\ adapter'[k] = adapter[k]
        /\ adapter[k].clients = {}
    BY <1>1 DEF ApiInv, UnloadedIsEmpty
  <2>2. DOMAIN queue'[k] = {}
    BY <2>1
  <2> QED  BY <2>1, <2>2 DEF Clean
<1>9. Types'
  <2>1. queue' \in [Kinds -> Seq(Msgs)]
    BY <1>1, <1>4
  <2>2. WaitAdapterMask(withCallback) \in SUBSET Kinds
    BY <1>1, <1>2 DEF Types
  <2> QED  BY <1>1, <2>1, <2>2 DEF Types
<1>10. LiveStays'
  <2> SUFFICES ASSUME NEW d \in Apis, object'[d] = "live"
               PROVE  /\ destroyData'[d] = {}
                      /\ \A k \in Kinds : \A i \in DOMAIN queue'[k] : queue'[k][i] # Removal(d)
    BY DEF LiveStays, Removal, Msg
  <2>1. d # c /\ object[d] = "live"
    BY <1>5, <1>6
  <2>2. m # Removal(d)
    BY <1>3, <2>1
  <2> QED  BY <1>4, <1>5, <2>1, <2>2 DEF ApiInv, LiveStays
<1>11. FreeIsForgotten'
  <2> SUFFICES ASSUME NEW d \in Apis, object'[d] = "free"
               PROVE  destroyData'[d] = {} /\ \A k \in Kinds : Clean(d, k)'
    BY DEF FreeIsForgotten, Clean, Of
  <2>1. CASE d = c
    BY <1>2, <1>6, <1>8, <2>1
  <2>2. CASE d # c
    BY <1>5, <1>7, <2>2 DEF ApiInv, FreeIsForgotten
  <2> QED  BY <2>1, <2>2
<1>12. RemovalIsLast'
  <2> SUFFICES ASSUME NEW d \in Apis, NEW k \in Kinds,
                      NEW i \in DOMAIN queue'[k], NEW j \in DOMAIN queue'[k],
                      i < j, queue'[k][i] = Removal(d)
               PROVE  ~Of(queue'[k][j], d)
    BY DEF RemovalIsLast, Removal, Msg, Of
  <2>1. i \in DOMAIN queue[k] /\ queue[k][i] = Removal(d)
    BY <1>4
  <2>2. d # c
    BY <1>1, <2>1 DEF ApiInv, LiveStays
  <2>3. \/ j \in DOMAIN queue[k] /\ queue'[k][j] = queue[k][j]
        \/ queue'[k][j].c = c
    BY <1>3, <1>4
  <2> QED  BY <2>1, <2>2, <2>3 DEF ApiInv, RemovalIsLast, Of
<1>13. Expected'
  <2> SUFFICES ASSUME NEW d \in Apis, NEW k \in destroyData'[d]
               PROVE  \E i \in DOMAIN queue'[k] : queue'[k][i] = Removal(d)
    BY DEF Expected, Removal, Msg
  <2>1. CASE d = c
    <3>1. k \in Kinds /\ k \in loaded
      BY <1>1, <1>2, <1>6, <2>1 DEF Types
    <3> QED  BY <1>4, <2>1, <3>1 DEF m
  <2>2. CASE d # c
    <3>1. k \in destroyData[d] /\ k \in Kinds
      BY <1>1, <1>5, <2>2 DEF Types
    <3>2. PICK i \in DOMAIN queue[k] : queue[k][i] = Removal(d)
      BY <3>1 DEF ApiInv, Expected
    <3> QED  BY <1>4, <3>1, <3>2
  <2> QED  BY <2>1, <2>2
<1>14. OthersForgot'
  <2> SUFFICES ASSUME NEW d \in Apis, destroyData'[d] # {}, NEW k \in Kinds \ destroyData'[d]
               PROVE  Clean(d, k)'
    BY DEF OthersForgot, Clean, Of
  <2>1. CASE d = c
    BY <1>2, <1>6, <1>8, <2>1
  <2>2. CASE d # c
    BY <1>5, <1>7, <2>2 DEF ApiInv, OthersForgot
  <2> QED  BY <2>1, <2>2
<1>15. UnloadedIsEmpty'
  BY <1>1 DEF ApiInv, UnloadedIsEmpty
<1> QED  BY <1>9, <1>10, <1>11, <1>12, <1>13, <1>14, <1>15 DEF ApiInv

-----------------------------------------------------------------------------
\* What a handler other than that of a removal may change: it takes its message, may put
\* others behind that make no object known or unknown, and the adapter may forget clients,
\* and know the object that the message adds.
LEMMA HandlerKeepsInv ==
  ASSUME ApiInv, NEW k \in Kinds, queue[k] # <<>>, Head(queue[k]).k # "remove",
         queue' \in [Kinds -> Seq(Msgs)], \A l \in Kinds : l # k => queue'[l] = queue[l],
         Grown(Tail(queue[k]), queue'[k], {}),
         object' = object, destroyData' = destroyData, loaded' = loaded,
         adapter' \in [Kinds -> AdapterStates],
         \A l \in Kinds : l # k => adapter'[l] = adapter[l],
         \A d \in adapter'[k].clients : d \in adapter[k].clients \/ Of(Head(queue[k]), d)
  PROVE  ApiInv'
<1> DEFINE q == queue[k]
<1>1. Types /\ q \in Seq(Msgs) /\ q # <<>> /\ Grown(Tail(q), queue'[k], {})
      /\ queue'[k] \in Seq(Msgs)
  BY DEF ApiInv, Types
<1>2. /\ Tail(q) \in Seq(Msgs) /\ Head(q) = q[1] /\ 1 \in DOMAIN q
      /\ \A i \in DOMAIN Tail(q) : i + 1 \in DOMAIN q /\ 1 < i + 1 /\ Tail(q)[i] = q[i + 1]
      /\ \A i \in DOMAIN q : i # 1 => i - 1 \in DOMAIN Tail(q) /\ Tail(q)[i - 1] = q[i]
  BY <1>1, TakenFacts
<1>3. \A d \in Apis : Removal(d).k = "remove"
  BY MsgFacts
<1> HIDE DEF q
<1>4. ASSUME NEW i \in DOMAIN queue'[k]
      PROVE  \/ i + 1 \in DOMAIN q /\ queue'[k][i] = q[i + 1]
             \/ i > Len(Tail(q)) /\ queue'[k][i].k \notin {"add", "remove"}
  <2>1. i \in Nat /\ i >= 1 /\ Len(Tail(q)) \in Nat /\ DOMAIN Tail(q) = 1 .. Len(Tail(q))
    BY <1>1, <1>2, <1>4
  <2>2. CASE i > Len(Tail(q))
    BY <1>1, <1>4, <2>2 DEF Grown
  <2>3. CASE ~(i > Len(Tail(q)))
    <3>1. i \in DOMAIN Tail(q)
      BY <2>1, <2>3
    <3> QED  BY <1>1, <1>2, <3>1 DEF Grown
  <2> QED  BY <2>2, <2>3
<1>5. \A i \in DOMAIN q : i # 1 => i - 1 \in DOMAIN queue'[k] /\ queue'[k][i - 1] = q[i]
  <2> SUFFICES ASSUME NEW i \in DOMAIN q, i # 1
               PROVE  i - 1 \in DOMAIN queue'[k] /\ queue'[k][i - 1] = q[i]
    OBVIOUS
  <2>1. i - 1 \in DOMAIN Tail(q) /\ Tail(q)[i - 1] = q[i]
    BY <1>2
  <2>2. DOMAIN Tail(q) \subseteq DOMAIN queue'[k]
    BY <1>1, <1>2 DEF Grown
  <2> QED  BY <1>1, <2>1, <2>2 DEF Grown
<1>6. ASSUME NEW d \in Apis, NEW l \in Kinds, Clean(d, l) PROVE Clean(d, l)'
  <2>1. CASE l # k
    BY <1>6, <2>1 DEF Clean, Of
  <2>2. CASE l = k
    <3>1. \A i \in DOMAIN q : ~Of(q[i], d)
      BY <1>6, <2>2 DEF Clean, q
    <3>2. \A i \in DOMAIN queue'[k] : ~Of(queue'[k][i], d)
      BY <1>4, <3>1 DEF Of
    <3>3. d \notin adapter[k].clients
      BY <1>6, <2>2 DEF Clean
    <3>4. d \notin adapter'[k].clients
      BY <1>2, <3>1, <3>3 DEF q
    <3> QED  BY <2>2, <3>2, <3>4 DEF Clean, Of
  <2> QED  BY <2>1, <2>2
<1>7. ASSUME NEW l \in Kinds, NEW i \in DOMAIN queue'[l], NEW d \in Apis, queue'[l][i] = Removal(d)
      PROVE  \E h \in DOMAIN queue[l] : queue[l][h] = Removal(d)
  <2>1. CASE l # k
    BY <1>7, <2>1
  <2>2. CASE l = k
    <3>1. i + 1 \in DOMAIN q /\ queue'[k][i] = q[i + 1]
      BY <1>3, <1>4, <1>7, <2>2
    <3> QED  BY <1>7, <2>2, <3>1 DEF q
  <2> QED  BY <2>1, <2>2
<1>8. Types'
  BY <1>1 DEF Types
<1>9. LiveStays'
  <2> SUFFICES ASSUME NEW d \in Apis, object[d] = "live", NEW l \in Kinds, NEW i \in DOMAIN queue'[l]
               PROVE  queue'[l][i] # Removal(d)
    BY DEF ApiInv, LiveStays, Removal, Msg
  <2> QED  BY <1>7 DEF ApiInv, LiveStays
<1>10. FreeIsForgotten'
  <2> SUFFICES ASSUME NEW d \in Apis, object[d] = "free"
               PROVE  destroyData[d] = {} /\ \A l \in Kinds : Clean(d, l)'
    BY DEF FreeIsForgotten, Clean, Of
  <2> QED  BY <1>6 DEF ApiInv, FreeIsForgotten
<1>11. RemovalIsLast'
  <2> SUFFICES ASSUME NEW d \in Apis, NEW l \in Kinds,
                      NEW i \in DOMAIN queue'[l], NEW j \in DOMAIN queue'[l],
                      i < j, queue'[l][i] = Removal(d)
               PROVE  ~Of(queue'[l][j], d)
    BY DEF RemovalIsLast, Removal, Msg, Of
  <2>1. CASE l # k
    BY <2>1 DEF ApiInv, RemovalIsLast
  <2>2. CASE l = k
    <3>1. i + 1 \in DOMAIN q /\ q[i + 1] = Removal(d)
      BY <1>3, <1>4, <2>2
    <3>2. CASE j + 1 \in DOMAIN q /\ queue'[k][j] = q[j + 1]
      <4>1. i + 1 < j + 1
        BY <1>1, <2>2
      <4> QED  BY <2>2, <3>1, <3>2, <4>1 DEF ApiInv, RemovalIsLast, q
    <3>3. CASE queue'[k][j].k \notin {"add", "remove"}
      BY <2>2, <3>3 DEF Of
    <3> QED  BY <1>4, <2>2, <3>2, <3>3
  <2> QED  BY <2>1, <2>2
<1>12. Expected'
  <2> SUFFICES ASSUME NEW d \in Apis, NEW l \in destroyData[d]
               PROVE  \E i \in DOMAIN queue'[l] : queue'[l][i] = Removal(d)
    BY DEF Expected, Removal, Msg
  <2>1. l \in Kinds
    BY <1>1 DEF Types
  <2>2. PICK i \in DOMAIN queue[l] : queue[l][i] = Removal(d)
    BY DEF ApiInv, Expected
  <2>3. CASE l # k
    BY <2>1, <2>2, <2>3
  <2>4. CASE l = k
    <3>1. i # 1
      BY <1>2, <1>3, <2>2, <2>4 DEF q
    <3>2. i - 1 \in DOMAIN queue'[k] /\ queue'[k][i - 1] = Removal(d)
      BY <1>5, <2>2, <2>4, <3>1 DEF q
    <3> QED  BY <2>4, <3>2
  <2> QED  BY <2>3, <2>4
<1>13. OthersForgot'
  <2> SUFFICES ASSUME NEW d \in Apis, destroyData[d] # {}, NEW l \in Kinds \ destroyData[d]
               PROVE  Clean(d, l)'
    BY DEF OthersForgot, Clean, Of
  <2> QED  BY <1>6 DEF ApiInv, OthersForgot
<1>14. UnloadedIsEmpty'
  <2> SUFFICES ASSUME NEW l \in Kinds \ loaded
               PROVE  queue'[l] = <<>> /\ adapter'[l].clients = {}
    BY DEF UnloadedIsEmpty
  <2>1. queue[l] = <<>> /\ adapter[l].clients = {}
    BY DEF ApiInv, UnloadedIsEmpty
  <2>2. l # k
    BY <2>1
  <2> QED  BY <2>1, <2>2
<1> QED  BY <1>8, <1>9, <1>10, <1>11, <1>12, <1>13, <1>14 DEF ApiInv

\* The last of an object's messages is its removal, which leaves nothing of it behind that
\* makes it known.
LEMMA RemoveKeepsInv ==
  ASSUME ApiInv, NEW k \in Kinds, queue' = [queue EXCEPT ![k] = Tail(@)], loaded' = loaded,
         adapter' \in [Kinds -> AdapterStates], HandleRemove(k)
  PROVE  ApiInv'
<1> DEFINE q == queue[k]
<1>1. /\ Types /\ q \in Seq(Msgs) /\ q # <<>> /\ queue'[k] = Tail(q) /\ Head(q).k = "remove"
      /\ \A l \in Kinds : l # k => queue'[l] = queue[l]
  BY DEF ApiInv, Types, HandleRemove, Received
<1>2. /\ Tail(q) \in Seq(Msgs) /\ Head(q) = q[1] /\ 1 \in DOMAIN q /\ Head(q) \in Msgs
      /\ \A i \in DOMAIN Tail(q) : i + 1 \in DOMAIN q /\ 1 < i + 1 /\ Tail(q)[i] = q[i + 1]
      /\ \A i \in DOMAIN q : i # 1 => i - 1 \in DOMAIN Tail(q) /\ Tail(q)[i - 1] = q[i]
  BY <1>1, TakenFacts
<1>0. PICK c \in Apis : c = Head(q).c
  BY <1>1, <1>2, MsgFacts
<1>3. /\ q[1] = Removal(c) /\ Of(q[1], c)
      /\ \A d \in Apis : Removal(d).c = d
  BY <1>0, <1>1, <1>2, MsgFacts
<1>4. /\ destroyData' = [destroyData EXCEPT ![c] = @ \ {k}]
      /\ \/ destroyData[c] = {k} /\ object' = [object EXCEPT ![c] = "free"]
         \/ destroyData[c] # {k} /\ object' = object
  BY <1>0 DEF HandleRemove, OnRemoveClientComplete
<1>5. /\ adapter'[k].clients = adapter[k].clients \ {c}
      /\ \A l \in Kinds : l # k => adapter'[l] = adapter[l]
  <2> DEFINE ad == adapter[k]
  <2>1. ad \in AdapterStates
    BY <1>1 DEF Types
  <2>2. PICK near : adapter' = [adapter EXCEPT ![k].clients = @ \ {c}, ![k].near = near]
    BY <1>0 DEF HandleRemove
  <2>3. adapter'[k] = [ad EXCEPT !.clients = @ \ {c}, !.near = near]
    BY <1>1, <2>2 DEF Types
  <2>4. adapter'[k].clients = ad.clients \ {c}
    BY <2>1, <2>3 DEF AdapterStates
  <2> QED  BY <1>1, <2>2, <2>4 DEF Types
<1>6. object[c] = "leaving"
  <2>1. object[c] # "live"
    BY <1>2, <1>3 DEF ApiInv, LiveStays
  <2>2. object[c] # "free"
    BY <1>2, <1>3 DEF ApiInv, FreeIsForgotten, Clean
  <2> QED  BY <1>1, <1>3, <2>1, <2>2 DEF Types
<1>7. ASSUME NEW d \in Apis, NEW l \in Kinds, Clean(d, l) PROVE Clean(d, l)'
  <2>1. CASE l # k
    BY <1>1, <1>5, <1>7, <2>1 DEF Clean, Of
  <2>2. CASE l = k
    <3>1. \A i \in DOMAIN q : ~Of(q[i], d)
      BY <1>7, <2>2 DEF Clean
    <3>2. \A i \in DOMAIN queue'[k] : ~Of(queue'[k][i], d)
      BY <1>1, <1>2, <3>1 DEF Of
    <3>3. d \notin adapter'[k].clients
      BY <1>5, <1>7, <2>2 DEF Clean
    <3> QED  BY <2>2, <3>2, <3>3 DEF Clean, Of
  <2> QED  BY <2>1, <2>2
<1>8. Clean(c, k)'
  <2>1. ASSUME NEW i \in DOMAIN queue'[k] PROVE ~Of(queue'[k][i], c)
    <3>1. i + 1 \in DOMAIN q /\ 1 < i + 1 /\ queue'[k][i] = q[i + 1]
      BY <1>1, <1>2, <2>1
    <3> QED  BY <1>2, <1>3, <3>1 DEF ApiInv, RemovalIsLast, Of
  <2>2. c \notin adapter'[k].clients
    BY <1>5
  <2> QED  BY <2>1, <2>2 DEF Clean, Of
<1>9. \A d \in Apis : d # c => object'[d] = object[d] /\ destroyData'[d] = destroyData[d]
  BY <1>1, <1>4 DEF Types
<1>10. destroyData'[c] = destroyData[c] \ {k}
  BY <1>1, <1>3, <1>4 DEF Types
<1>11. object'[c] = IF destroyData[c] = {k} THEN "free" ELSE "leaving"
  BY <1>1, <1>3, <1>4, <1>6 DEF Types
<1>12. ASSUME NEW l \in Kinds, NEW i \in DOMAIN queue'[l]
       PROVE  \E h \in DOMAIN queue[l] : queue[l][h] = queue'[l][i]
  BY <1>1, <1>2, <1>12
<1> HIDE DEF q
<1>13. Types'
  <2>1. queue' \in [Kinds -> Seq(Msgs)]
    BY <1>1, <1>2 DEF Types
  <2>2. object' \in [Apis -> {"free", "live", "leaving"}]
    BY <1>1, <1>3, <1>4 DEF Types
  <2>3. destroyData' \in [Apis -> SUBSET Kinds]
    BY <1>1, <1>3, <1>4 DEF Types
  <2> QED  BY <1>1, <1>5, <2>1, <2>2, <2>3 DEF Types
<1>14. LiveStays'
  <2> SUFFICES ASSUME NEW d \in Apis, object'[d] = "live"
               PROVE  /\ destroyData'[d] = {}
                      /\ \A l \in Kinds : \A i \in DOMAIN queue'[l] : queue'[l][i] # Removal(d)
    BY DEF LiveStays, Removal, Msg
  <2>1. d # c
    BY <1>11
  <2>2. object[d] = "live" /\ destroyData'[d] = destroyData[d]
    BY <1>9, <2>1
  <2> QED  BY <1>12, <2>2 DEF ApiInv, LiveStays
<1>15. FreeIsForgotten'
  <2> SUFFICES ASSUME NEW d \in Apis, object'[d] = "free"
               PROVE  destroyData'[d] = {} /\ \A l \in Kinds : Clean(d, l)'
    BY DEF FreeIsForgotten, Clean, Of
  <2>1. CASE d = c
    <3>1. destroyData[c] = {k}
      BY <1>11, <2>1
    <3>2. \A l \in Kinds : l # k => Clean(c, l)
      BY <1>3, <3>1 DEF ApiInv, OthersForgot
    <3> QED  BY <1>7, <1>8, <1>10, <2>1, <3>1, <3>2
  <2>2. CASE d # c
    BY <1>7, <1>9, <2>2 DEF ApiInv, FreeIsForgotten
  <2> QED  BY <2>1, <2>2
<1>16. RemovalIsLast'
  <2> SUFFICES ASSUME NEW d \in Apis, NEW l \in Kinds,
                      NEW i \in DOMAIN queue'[l], NEW j \in DOMAIN queue'[l],
                      i < j, queue'[l][i] = Removal(d)
               PROVE  ~Of(queue'[l][j], d)
    BY DEF RemovalIsLast, Removal, Msg, Of
  <2>1. CASE l # k
    BY <1>1, <2>1 DEF ApiInv, RemovalIsLast
  <2>2. CASE l = k
    <3>1. /\ i + 1 \in DOMAIN q /\ q[i + 1] = Removal(d)
          /\ j + 1 \in DOMAIN q /\ q[j + 1] = queue'[l][j]
      BY <1>1, <1>2, <2>2
    <3>2. i + 1 < j + 1
      BY <1>1, <1>2, <2>2
    <3> QED  BY <2>2, <3>1, <3>2 DEF ApiInv, RemovalIsLast, Of, q
  <2> QED  BY <2>1, <2>2
<1>17. Expected'
  <2> SUFFICES ASSUME NEW d \in Apis, NEW l \in destroyData'[d]
               PROVE  \E i \in DOMAIN queue'[l] : queue'[l][i] = Removal(d)
    BY DEF Expected, Removal, Msg
  <2>1. l \in Kinds /\ l \in destroyData[d] /\ (d = c => l # k)
    BY <1>1, <1>9, <1>10 DEF Types
  <2>2. PICK i \in DOMAIN queue[l] : queue[l][i] = Removal(d)
    BY <2>1 DEF ApiInv, Expected
  <2>3. CASE l # k
    BY <1>1, <2>1, <2>2, <2>3
  <2>4. CASE l = k
    <3>1. i # 1
      BY <1>3, <2>1, <2>2, <2>4 DEF q
    <3>2. i - 1 \in DOMAIN queue'[k] /\ queue'[k][i - 1] = Removal(d)
      BY <1>1, <1>2, <2>2, <2>4, <3>1 DEF q
    <3> QED  BY <2>4, <3>2
  <2> QED  BY <2>3, <2>4
<1>18. OthersForgot'
  <2> SUFFICES ASSUME NEW d \in Apis, destroyData'[d] # {}, NEW l \in Kinds \ destroyData'[d]
               PROVE  Clean(d, l)'
    BY DEF OthersForgot, Clean, Of
  <2>1. CASE d = c /\ l = k
    BY <1>8, <2>1
  <2>2. CASE d = c /\ l # k
    <3>1. destroyData[c] # {} /\ l \in Kinds \ destroyData[c]
      BY <1>10, <2>2
    <3> QED  BY <1>3, <1>7, <2>2, <3>1 DEF ApiInv, OthersForgot
  <2>3. CASE d # c
    BY <1>7, <1>9, <2>3 DEF ApiInv, OthersForgot
  <2> QED  BY <2>1, <2>2, <2>3
<1>19. UnloadedIsEmpty'
  <2> SUFFICES ASSUME NEW l \in Kinds \ loaded
               PROVE  queue'[l] = <<>> /\ adapter'[l].clients = {}
    BY DEF UnloadedIsEmpty
  <2>1. queue[l] = <<>> /\ adapter[l].clients = {}
    BY DEF ApiInv, UnloadedIsEmpty
  <2>2. l # k
    BY <1>1, <2>1 DEF q
  <2> QED  BY <1>1, <1>5, <2>1, <2>2
<1> QED  BY <1>13, <1>14, <1>15, <1>16, <1>17, <1>18, <1>19 DEF ApiInv

-----------------------------------------------------------------------------
\* What an adapter's thread does to its tables, by the message it handles.
LEMMA RecordFacts ==
  ASSUME NEW r \in AdapterStates, NEW near \in SUBSET ApiSessions, NEW far \in SUBSET ApiSessions
  PROVE  /\ [r EXCEPT !.near = near] \in AdapterStates /\ [r EXCEPT !.near = near].clients = r.clients
         /\ [r EXCEPT !.known = TRUE] \in AdapterStates /\ [r EXCEPT !.known = TRUE].clients = r.clients
         /\ [r EXCEPT !.near = near, !.far = far] \in AdapterStates
         /\ [r EXCEPT !.near = near, !.far = far].clients = r.clients
<1>1. [r EXCEPT !.near = near] \in AdapterStates /\ [r EXCEPT !.near = near].clients = r.clients
  BY DEF AdapterStates
<1>2. [r EXCEPT !.known = TRUE] \in AdapterStates /\ [r EXCEPT !.known = TRUE].clients = r.clients
  BY DEF AdapterStates
<1>3. [r EXCEPT !.near = near, !.far = far] \in AdapterStates
  BY DEF AdapterStates
<1>4. [r EXCEPT !.near = near, !.far = far].clients = r.clients
  BY DEF AdapterStates
<1> QED  BY <1>1, <1>2, <1>3, <1>4

LEMMA ClientFacts ==
  ASSUME NEW r \in AdapterStates, NEW cs \in SUBSET Apis
  PROVE  [r EXCEPT !.clients = cs] \in AdapterStates /\ [r EXCEPT !.clients = cs].clients = cs
BY DEF AdapterStates

LEMMA ForgetFacts ==
  ASSUME NEW r \in AdapterStates, NEW cs \in SUBSET Apis, NEW near \in SUBSET ApiSessions
  PROVE  /\ [r EXCEPT !.clients = cs, !.near = near] \in AdapterStates
         /\ [r EXCEPT !.clients = cs, !.near = near].clients = cs
<1>1. [r EXCEPT !.clients = cs, !.near = near] \in AdapterStates
  BY DEF AdapterStates
<1>2. [r EXCEPT !.clients = cs, !.near = near].clients = cs
  BY DEF AdapterStates
<1> QED  BY <1>1, <1>2

LEMMA TableFacts ==
  ASSUME Types, NEW k \in Kinds, NEW r \in AdapterStates, adapter' = [adapter EXCEPT ![k] = r]
  PROVE  /\ adapter' \in [Kinds -> AdapterStates] /\ adapter'[k] = r
         /\ \A l \in Kinds : l # k => adapter'[l] = adapter[l]
BY DEF Types

LEMMA HeadFacts ==
  ASSUME Types, NEW k \in Kinds, queue[k] # <<>>
  PROVE  /\ Head(queue[k]) \in Msgs /\ queue[k] \in Seq(Msgs)
         /\ Head(queue[k]).k \in {"add", "caps", "remove"} => Head(queue[k]).c \in Apis
         /\ Head(queue[k]).k \in {"start", "answer"} => Head(queue[k]).s \in ApiSessions
         /\ Head(queue[k]).k = "answer" => Head(queue[k]).op \in {"start", "stop", "drop"}
<1>1. queue[k] \in Seq(Msgs)
  BY DEF Types
<1>2. Head(queue[k]) \in Msgs
  BY <1>1, TakenFacts
<1>3. ASSUME NEW m \in Msgs, m.k \in {"start", "answer"}
      PROVE  m.s \in ApiSessions /\ (m.k = "answer" => m.op \in {"start", "stop", "drop"})
  BY <1>3 DEF Msgs, UpMsg
<1> QED  BY <1>1, <1>2, <1>3, MsgFacts

LEMMA TableStep ==
  ASSUME Types, NEW k \in Kinds, AdapterRuns(k)
  PROVE  /\ adapter' \in [Kinds -> AdapterStates]
         /\ \A l \in Kinds : l # k => adapter'[l] = adapter[l]
         /\ \A d \in adapter'[k].clients : d \in adapter[k].clients \/ Head(queue[k]) = Msg("add", d)
         /\ ~HandleRemove(k) => adapter[k].clients \subseteq adapter'[k].clients
<1> DEFINE ad == adapter[k]
           m == Head(queue[k])
<1>1. ad \in AdapterStates /\ queue[k] # <<>> /\ queue[k] \in Seq(Msgs)
  BY DEF Types, AdapterRuns
<1>2. /\ m \in Msgs
      /\ m.k \in {"add", "caps", "remove"} => m.c \in Apis
      /\ m.k \in {"start", "answer"} => m.s \in ApiSessions
      /\ m.k = "add" => m = Msg("add", m.c)
  BY <1>1, HeadFacts, MsgFacts
<1>3. /\ ad.clients \in SUBSET Apis /\ ad.near \in SUBSET ApiSessions
      /\ ad.far \in SUBSET ApiSessions
  BY <1>1 DEF AdapterStates
<1>4. ASSUME UNCHANGED adapter
      PROVE  /\ adapter' \in [Kinds -> AdapterStates]
             /\ \A l \in Kinds : l # k => adapter'[l] = adapter[l]
             /\ adapter'[k].clients = adapter[k].clients
  BY <1>4 DEF Types
<1>5. ASSUME NEW near \in SUBSET ApiSessions, NEW far \in SUBSET ApiSessions,
             adapter' = [adapter EXCEPT ![k].near = near, ![k].far = far]
      PROVE  /\ adapter' \in [Kinds -> AdapterStates]
             /\ \A l \in Kinds : l # k => adapter'[l] = adapter[l]
             /\ adapter'[k].clients = adapter[k].clients
  <2> DEFINE r == [ad EXCEPT !.near = near, !.far = far]
  <2>1. adapter' = [adapter EXCEPT ![k] = r]
    BY <1>1, <1>5 DEF Types
  <2> HIDE DEF ad
  <2>2. r \in AdapterStates /\ r.clients = ad.clients
    BY <1>1, RecordFacts
  <2> HIDE DEF r
  <2> QED  BY <2>1, <2>2, TableFacts DEF ad
<1>6. CASE HandleAdd(k)
  <2> DEFINE cs == ad.clients \cup {m.c}
             r == [ad EXCEPT !.clients = cs]
  <2>1. m.k = "add" /\ adapter' = [adapter EXCEPT ![k] = r]
    BY <1>6 DEF HandleAdd, Received
  <2>2. cs \in SUBSET Apis
    BY <1>2, <1>3, <2>1
  <2> HIDE DEF cs, ad
  <2>3. r \in AdapterStates /\ r.clients = cs
    BY <1>1, <2>2, ClientFacts
  <2> HIDE DEF r
  <2>5. /\ adapter' \in [Kinds -> AdapterStates] /\ adapter'[k] = r
        /\ \A l \in Kinds : l # k => adapter'[l] = adapter[l]
    BY <2>1, <2>3, TableFacts
  <2> QED  BY <1>2, <2>1, <2>3, <2>5 DEF cs, ad
<1>7. CASE HandleCapabilities(k)
  BY <1>4, <1>7 DEF HandleCapabilities
<1>8. CASE HandleStart(k)
  <2>1. CASE UNCHANGED adapter
    BY <1>4, <2>1
  <2>2. CASE Saved(k, m.far, m.s)
    <3>1. m.s \in ApiSessions
      BY <1>2, <1>8 DEF HandleStart, Received
    <3> DEFINE near == IF m.far \/ k = "geofence" THEN ad.near ELSE ad.near \cup {m.s}
               far == IF m.far THEN ad.far \cup {m.s} ELSE ad.far
    <3>2. near \in SUBSET ApiSessions /\ far \in SUBSET ApiSessions
      BY <1>3, <3>1
    <3>3. adapter' = [adapter EXCEPT ![k].near = near, ![k].far = far]
      BY <2>2, <1>1 DEF Saved, Types, AdapterStates
    <3> HIDE DEF near, far
    <3> QED  BY <1>5, <3>2, <3>3
  <2> QED  BY <1>8, <2>1, <2>2 DEF HandleStart
<1>9. CASE HandleSessionAnswer(k)
  <2>1. m.s \in ApiSessions
    BY <1>2, <1>9 DEF HandleSessionAnswer, Received
  <2>2. CASE UNCHANGED adapter
    BY <1>4, <2>2
  <2>3. CASE Erased(k, m.s)
    <3> DEFINE near == ad.near \ {m.s}
               far == ad.far \ {m.s}
    <3>1. near \in SUBSET ApiSessions /\ far \in SUBSET ApiSessions
      BY <1>3
    <3>2. adapter' = [adapter EXCEPT ![k].near = near, ![k].far = far]
      BY <2>3, <1>1 DEF Erased, Types, AdapterStates
    <3> HIDE DEF near, far
    <3> QED  BY <1>5, <3>1, <3>2
  <2>4. CASE adapter' = [adapter EXCEPT ![k].near = @ \cup {m.s}]
    <3> DEFINE near == ad.near \cup {m.s}
               r == [ad EXCEPT !.near = near]
    <3>1. near \in SUBSET ApiSessions
      BY <1>3, <2>1
    <3>2. adapter' = [adapter EXCEPT ![k] = r]
      BY <2>4
    <3> HIDE DEF near
    <3>3. r \in AdapterStates /\ r.clients = ad.clients
      BY <1>1, <3>1, RecordFacts
    <3> HIDE DEF r
    <3>4. /\ adapter' \in [Kinds -> AdapterStates] /\ adapter'[k] = r
          /\ \A l \in Kinds : l # k => adapter'[l] = adapter[l]
      BY <3>2, <3>3, TableFacts
    <3> QED  BY <3>3, <3>4
  <2> QED  BY <1>9, <2>2, <2>3, <2>4 DEF HandleSessionAnswer, AnswerOf
<1>10. CASE HandleRemove(k)
  <2> DEFINE cs == ad.clients \ {m.c}
             near == ad.near \ {s \in ad.near : s.c = m.c}
             r == [ad EXCEPT !.clients = cs, !.near = near]
  <2>1. adapter' = [adapter EXCEPT ![k].clients = cs, ![k].near = near]
    BY <1>1, <1>10 DEF HandleRemove, Types, AdapterStates
  <2>2. cs \in SUBSET Apis /\ near \in SUBSET ApiSessions /\ cs \subseteq ad.clients
    BY <1>3
  <2> HIDE DEF cs, near
  <2>3. adapter' = [adapter EXCEPT ![k] = r]
    BY <2>1 DEF Types
  <2> HIDE DEF ad
  <2>4. r \in AdapterStates /\ r.clients = cs
    BY <1>1, <2>2, ForgetFacts
  <2> HIDE DEF r
  <2>5. /\ adapter' \in [Kinds -> AdapterStates] /\ adapter'[k] = r
        /\ \A l \in Kinds : l # k => adapter'[l] = adapter[l]
    BY <2>3, <2>4, TableFacts
  <2> QED  BY <1>10, <2>2, <2>4, <2>5 DEF ad
<1>11. CASE HandleEngineUp(k)
  <2> DEFINE r == [ad EXCEPT !.known = TRUE]
  <2>1. adapter' = [adapter EXCEPT ![k] = r]
    BY <1>11 DEF HandleEngineUp
  <2>2. r \in AdapterStates /\ r.clients = ad.clients
    BY <1>1, RecordFacts
  <2> HIDE DEF r
  <2>4. /\ adapter' \in [Kinds -> AdapterStates] /\ adapter'[k] = r
        /\ \A l \in Kinds : l # k => adapter'[l] = adapter[l]
    BY <2>1, <2>2, TableFacts
  <2> QED  BY <2>2, <2>4
<1>12. CASE UNCHANGED adapter
  BY <1>4, <1>12
<1> QED  BY <1>6, <1>7, <1>8, <1>9, <1>10, <1>11, <1>12 DEF AdapterRuns, Handle

\* A message is taken, and kept for later, or answered; what was kept may come behind.
LEMMA QueueStep ==
  ASSUME Types, WorkInv, NEW k \in Kinds, AdapterRuns(k)
  PROVE  /\ queue[k] # <<>> /\ loaded' = loaded
         /\ queue' \in [Kinds -> Seq(Msgs)] /\ \A l \in Kinds : l # k => queue'[l] = queue[l]
         /\ Grown(Tail(queue[k]), queue'[k], {})
         /\ HandleRemove(k) => queue' = [queue EXCEPT ![k] = Tail(@)]
         /\ ~HandleRemove(k) => Head(queue[k]).k # "remove" /\ UNCHANGED objectVars
<1> DEFINE q == queue[k]
           m == Head(q)
<1>1. queue[k] # <<>> /\ loaded' = loaded
  BY DEF AdapterRuns, libraryVars
<1>2. queue \in [Kinds -> Seq(Msgs)] /\ Tail(queue[k]) \in Seq(Msgs)
  <2>1. q \in Seq(Msgs)
    BY DEF Types
  <2> QED  BY <1>1, <2>1, TakenFacts DEF Types
<1>4. ASSUME queue' = [queue EXCEPT ![k] = Tail(@) \o kept[k]]
      PROVE  /\ queue' \in [Kinds -> Seq(Msgs)] /\ \A l \in Kinds : l # k => queue'[l] = queue[l]
             /\ Grown(Tail(queue[k]), queue'[k], {})
  <2>1. kept[k] \in Seq(Msgs) /\ \A i \in DOMAIN kept[k] : kept[k][i].k \in {"caps", "start"}
    BY DEF WorkInv
  <2> DEFINE r == Tail(queue[k]) \o kept[k]
  <2>2. Grown(Tail(queue[k]), r, {})
    BY <1>2, <2>1, GrownKept
  <2>3. r \in Seq(Msgs)
    BY <2>2 DEF Grown
  <2>4. queue' = [queue EXCEPT ![k] = r]
    BY <1>4
  <2> HIDE DEF r
  <2>5. /\ queue' \in [Kinds -> Seq(Msgs)] /\ queue'[k] = r
        /\ \A l \in Kinds : l # k => queue'[l] = queue[l]
    BY <1>2, <2>3, <2>4
  <2> QED  BY <2>2, <2>5
<1>5. /\ queue' \in [Kinds -> Seq(Msgs)] /\ \A l \in Kinds : l # k => queue'[l] = queue[l]
      /\ Grown(Tail(queue[k]), queue'[k], {})
  <2>1. \/ queue' = [queue EXCEPT ![k] = Tail(@)]
        \/ queue' = [queue EXCEPT ![k] = Tail(@) \o kept[k]]
    BY DEF AdapterRuns
  <2>2. CASE queue' = [queue EXCEPT ![k] = Tail(@)]
    BY <1>2, <2>2, GrownSame
  <2>3. CASE queue' = [queue EXCEPT ![k] = Tail(@) \o kept[k]]
    BY <1>4, <2>3
  <2> QED  BY <2>1, <2>2, <2>3
<1>6. HandleRemove(k) => queue' = [queue EXCEPT ![k] = Tail(@)]
  <2> SUFFICES ASSUME HandleRemove(k) PROVE queue' = [queue EXCEPT ![k] = Tail(@)]
    OBVIOUS
  <2>1. m.k = "remove"
    BY DEF HandleRemove, Received
  <2>2. ~HandleEngineUp(k)
    BY <2>1 DEF HandleEngineUp, Received
  <2> QED  BY <2>2 DEF AdapterRuns
<1>7. ~HandleRemove(k) => m.k # "remove" /\ UNCHANGED objectVars
  <2> SUFFICES ASSUME ~HandleRemove(k) PROVE m.k # "remove" /\ UNCHANGED objectVars
    OBVIOUS
  <2>1. CASE HandleAdd(k)
    BY <2>1 DEF HandleAdd, Received
  <2>2. CASE HandleCapabilities(k)
    BY <2>2 DEF HandleCapabilities, Received
  <2>3. CASE HandleStart(k)
    BY <2>3 DEF HandleStart, Received
  <2>4. CASE HandleSessionAnswer(k)
    BY <2>4 DEF HandleSessionAnswer, Received
  <2>5. CASE HandleEngineUp(k)
    BY <2>5 DEF HandleEngineUp, Received
  <2>6. CASE MustWait(k) /\ UNCHANGED objectVars
    BY <2>6 DEF MustWait
  <2> QED  BY <2>1, <2>2, <2>3, <2>4, <2>5, <2>6 DEF AdapterRuns, Handle
<1> QED  BY <1>1, <1>5, <1>6, <1>7

LEMMA RunKeepsInv ==
  ASSUME ApiInv, WorkInv, NEW k \in Kinds, AdapterRuns(k)
  PROVE  ApiInv'
<1>1. Types
  BY DEF ApiInv
<1>2. /\ adapter' \in [Kinds -> AdapterStates]
      /\ \A l \in Kinds : l # k => adapter'[l] = adapter[l]
      /\ \A d \in adapter'[k].clients : d \in adapter[k].clients \/ Head(queue[k]) = Msg("add", d)
  BY <1>1, TableStep
<1>3. /\ queue[k] # <<>> /\ loaded' = loaded
      /\ queue' \in [Kinds -> Seq(Msgs)] /\ \A l \in Kinds : l # k => queue'[l] = queue[l]
      /\ Grown(Tail(queue[k]), queue'[k], {})
      /\ HandleRemove(k) => queue' = [queue EXCEPT ![k] = Tail(@)]
      /\ ~HandleRemove(k) => Head(queue[k]).k # "remove" /\ UNCHANGED objectVars
  BY <1>1, QueueStep
<1>4. CASE HandleRemove(k)
  BY <1>2, <1>3, <1>4, RemoveKeepsInv
<1>5. CASE ~HandleRemove(k)
  <2>1. object' = object /\ destroyData' = destroyData
    BY <1>3, <1>5 DEF objectVars
  <2>2. \A d \in adapter'[k].clients : d \in adapter[k].clients \/ Of(Head(queue[k]), d)
    <3>1. \A d \in adapter'[k].clients : Of(Msg("add", d), d)
      BY DEF Msg, Of
    <3> QED  BY <1>2, <3>1
  <2> QED  BY <1>2, <1>3, <1>5, <2>1, <2>2, HandlerKeepsInv
<1> QED  BY <1>4, <1>5

-----------------------------------------------------------------------------
\* The calls of LocApi.
LEMMA SessionsFinite == IsFiniteSet(ApiSessions)
<1> DEFINE P == Apis \X SessionIds
           f == [p \in P |-> [c |-> p[1], id |-> p[2]]]
<1>1. IsFiniteSet(P)
  BY ApiAssumption, FS_Product
<1>2. f \in Surjection(P, ApiSessions)
  <2>1. f \in [P -> ApiSessions]
    BY DEF ApiSessions
  <2>2. ASSUME NEW s \in ApiSessions PROVE \E p \in P : f[p] = s
    <3>1. s.c \in Apis /\ s.id \in SessionIds /\ s = [c |-> s.c, id |-> s.id]
      BY DEF ApiSessions
    <3>2. <<s.c, s.id>> \in P /\ f[<<s.c, s.id>>] = s
      BY <3>1
    <3> QED  BY <3>2
  <2> QED  BY <2>1, <2>2 DEF Surjection
<1> QED  BY <1>1, <1>2, FS_Surjection

LEMMA EachCalledType ==
  ASSUME NEW S \in SUBSET ApiSessions, NEW ss \in Ordered(S), NEW op \in {"start", "stop", "drop"}
  PROVE  EachCalled(op, ss) \in Seq(LocCalls)
<1>1. Cardinality(S) \in Nat
  BY SessionsFinite, FS_Subset, FS_CardinalityType
<1>2. ss \in [1 .. Cardinality(S) -> S]
  BY DEF Ordered
<1>3. EachCalled(op, ss) \in [1 .. Cardinality(S) -> LocCalls]
  BY <1>2 DEF EachCalled, LocCall, LocCalls
<1> QED  BY <1>1, <1>3

LEMMA WorkStays ==
  ASSUME WorkInv, UNCHANGED <<kept, locCalls>>, loaded \subseteq loaded'
  PROVE  WorkInv'
BY DEF WorkInv

LEMMA WorkStep ==
  ASSUME ApiInv, WorkInv, NEW k \in Kinds, AdapterRuns(k)
  PROVE  WorkInv'
<1>1. /\ loaded' = loaded /\ queue[k] # <<>> /\ Head(queue[k]) \in Msgs
      /\ Head(queue[k]).k \in {"start", "answer"} => Head(queue[k]).s \in ApiSessions
  BY QueueStep, HeadFacts DEF ApiInv
<1>2. adapter[k] \in AdapterStates /\ k \in loaded
  BY <1>1 DEF ApiInv, Types, UnloadedIsEmpty
<1>3. ASSUME NEW cs \in Seq(LocCalls), MakeCalls(k, cs)
      PROVE  locCalls' \in [Kinds -> Seq(LocCalls)] /\ \A l \in Kinds \ loaded : locCalls'[l] = <<>>
  BY <1>2, <1>3 DEF MakeCalls, WorkInv
<1>4. \/ UNCHANGED locCalls
      \/ \E cs \in Seq(LocCalls) : MakeCalls(k, cs)
  <2>1. CASE HandleStart(k)
    <3>1. LocCall("start", Head(queue[k]).s) \in LocCalls
      BY <1>1, <2>1 DEF HandleStart, Received, LocCall, LocCalls
    <3>2. <<LocCall("start", Head(queue[k]).s)>> \in Seq(LocCalls)
      BY <3>1
    <3> QED  BY <2>1, <3>2 DEF HandleStart, NoCalls
  <2>2. CASE HandleRemove(k)
    <3> DEFINE mine == {s \in adapter[k].near : s.c = Head(queue[k]).c}
               dropped == {s \in adapter[k].far : s.c = Head(queue[k]).c}
    <3>0. PICK S \in Outlasted(k, mine) : \E stops \in Ordered(mine \ S), drops \in Ordered(dropped) :
            MakeCalls(k, EachCalled("stop", stops) \o EachCalled("drop", drops))
      BY <2>2 DEF HandleRemove
    <3>1. PICK stops \in Ordered(mine \ S), drops \in Ordered(dropped) :
            MakeCalls(k, EachCalled("stop", stops) \o EachCalled("drop", drops))
      BY <3>0
    <3>2. mine \ S \in SUBSET ApiSessions /\ dropped \in SUBSET ApiSessions
      BY <1>2 DEF AdapterStates
    <3> HIDE DEF mine, dropped
    <3>3. EachCalled("stop", stops) \in Seq(LocCalls) /\ EachCalled("drop", drops) \in Seq(LocCalls)
      BY <3>1, <3>2, EachCalledType
    <3>4. EachCalled("stop", stops) \o EachCalled("drop", drops) \in Seq(LocCalls)
      BY <3>3
    <3> QED  BY <3>1, <3>4
  <2> QED
    BY <2>1, <2>2
    DEF AdapterRuns, Handle, HandleAdd, HandleCapabilities, HandleSessionAnswer, HandleEngineUp,
        NoCalls
<1>5. locCalls' \in [Kinds -> Seq(LocCalls)] /\ \A l \in Kinds \ loaded : locCalls'[l] = <<>>
  <2>1. CASE UNCHANGED locCalls
    BY <2>1 DEF WorkInv
  <2>2. CASE \E cs \in Seq(LocCalls) : MakeCalls(k, cs)
    BY <1>3, <2>2
  <2> QED  BY <1>4, <2>1, <2>2
<1>6. /\ kept' \in [Kinds -> Seq(Msgs)]
      /\ \A l \in Kinds : \A i \in DOMAIN kept'[l] : kept'[l][i].k \in {"caps", "start"}
  <2>1. CASE UNCHANGED kept
    BY <2>1 DEF WorkInv
  <2>2. CASE kept' = [kept EXCEPT ![k] = <<>>]
    BY <2>2 DEF WorkInv
  <2>3. CASE MustWait(k) /\ kept' = [kept EXCEPT ![k] = Append(@, Head(queue[k]))]
    <3> DEFINE p == kept[k]
               m == Head(queue[k])
    <3>1. m.k \in {"caps", "start"} /\ p \in Seq(Msgs) /\ m \in Msgs
          /\ \A i \in DOMAIN p : p[i].k \in {"caps", "start"}
      BY <1>1, <2>3 DEF MustWait, WorkInv
    <3> HIDE DEF p, m
    <3>2. /\ Append(p, m) \in Seq(Msgs)
          /\ \A i \in DOMAIN Append(p, m) : Append(p, m)[i].k \in {"caps", "start"}
      BY <3>1
    <3>3. kept' = [kept EXCEPT ![k] = Append(p, m)]
      BY <2>3 DEF p, m
    <3> QED  BY <3>2, <3>3 DEF WorkInv
  <2> QED  BY <2>1, <2>2, <2>3 DEF AdapterRuns
<1> QED  BY <1>1, <1>5, <1>6 DEF WorkInv

-----------------------------------------------------------------------------
\* No adapter calls an object that is not there.
NoStray == strays = {}

ServedInv == ApiInv /\ WorkInv /\ NoStray

\* The clients of an adapter are there, and so is the one that a message adds.
LEMMA ClientsAreThere ==
  ASSUME ApiInv, NEW k \in Kinds
  PROVE  /\ \A c \in Apis : c \in adapter[k].clients => object[c] # "free"
         /\ queue[k] # <<>> /\ Head(queue[k]).k = "add" => object[Head(queue[k]).c] # "free"
<1>1. \A c \in Apis : c \in adapter[k].clients => object[c] # "free"
  BY DEF ApiInv, FreeIsForgotten, Clean
<1>2. ASSUME queue[k] # <<>>, Head(queue[k]).k = "add" PROVE object[Head(queue[k]).c] # "free"
  <2> DEFINE c == Head(queue[k]).c
  <2>1. queue[k] \in Seq(Msgs)
    BY DEF ApiInv, Types
  <2>2. c \in Apis /\ 1 \in DOMAIN queue[k] /\ Head(queue[k]) = queue[k][1]
    BY <1>2, <2>1, TakenFacts, HeadFacts DEF ApiInv
  <2>3. Of(queue[k][1], c)
    BY <1>2, <2>2 DEF Of
  <2> HIDE DEF c
  <2> QED  BY <2>2, <2>3 DEF ApiInv, FreeIsForgotten, Clean, c
<1> QED  BY <1>1, <1>2

LEMMA CallsNobodyGone ==
  ASSUME NoStray, NEW cs, Called(cs), \A c \in cs : object[c] # "free"
  PROVE  NoStray'
BY DEF NoStray, Called

LEMMA StrayStep ==
  ASSUME ApiInv, NoStray, NEW k \in Kinds, AdapterRuns(k)
  PROVE  NoStray'
<1> DEFINE ad == adapter[k]
           m == Head(queue[k])
<1>1. /\ \A c \in ad.clients : object[c] # "free"
      /\ m.k = "add" => object[m.c] # "free"
  <2>1. ad.clients \subseteq Apis /\ queue[k] # <<>>
    BY DEF ApiInv, Types, AdapterStates, AdapterRuns
  <2> QED  BY <2>1, ClientsAreThere
<1>2. CASE UNCHANGED strays
  BY <1>2 DEF NoStray
<1>3. ASSUME NEW cs, Called(cs \cap ad.clients) PROVE NoStray'
  BY <1>1, <1>3, CallsNobodyGone
<1>4. CASE HandleAdd(k)
  <2>1. m.k = "add" /\ (Called({m.c}) \/ UNCHANGED strays)
    BY <1>4 DEF HandleAdd, Received, TellNobody
  <2>2. \A c \in {m.c} : object[c] # "free"
    BY <1>1, <2>1
  <2> QED  BY <1>2, <2>1, <2>2, CallsNobodyGone
<1>5. CASE HandleCapabilities(k)
  <2>1. Called({m.c} \cap ad.clients)
    <3>1. ad.clients \cap {m.c} = {m.c} \cap ad.clients
      OBVIOUS
    <3> QED  BY <1>5, <3>1 DEF HandleCapabilities, Learn
  <2> QED  BY <1>3, <2>1
<1>6. CASE HandleStart(k)
  BY <1>2, <1>3, <1>6 DEF HandleStart, Tell, TellNobody
<1>7. CASE HandleSessionAnswer(k)
  BY <1>2, <1>3, <1>7 DEF HandleSessionAnswer, Tell, TellNobody
<1>8. CASE HandleRemove(k)
  BY <1>2, <1>8 DEF HandleRemove, TellNobody
<1>9. CASE HandleEngineUp(k)
  <2>1. Called(ad.clients)
    BY <1>9 DEF HandleEngineUp, Learn
  <2> QED  BY <1>1, <2>1, CallsNobodyGone
<1> QED  BY <1>2, <1>4, <1>5, <1>6, <1>7, <1>8, <1>9 DEF AdapterRuns, Handle

LEMMA ServedInit == ApiInit => ServedInv
<1> SUFFICES ASSUME ApiInit PROVE ServedInv
  OBVIOUS
<1>1. /\ object = [c \in Apis |-> "free"] /\ destroyData = [c \in Apis |-> {}]
      /\ loaded = {} /\ queue = [k \in Kinds |-> <<>>] /\ kept = queue /\ locCalls = queue
      /\ adapter = [k \in Kinds |-> [clients |-> {}, near |-> {}, far |-> {}, known |-> FALSE]]
      /\ strays = {}
  BY DEF ApiInit
<1>2. \A k \in Kinds : queue[k] = <<>> /\ kept[k] = <<>> /\ locCalls[k] = <<>>
                       /\ adapter[k].clients = {}
  BY <1>1
<1>3. \A k \in Kinds : queue[k] \in Seq(Msgs) /\ \A i \in DOMAIN queue[k] : FALSE
  <2>1. <<>> \in Seq(Msgs) /\ \A i \in DOMAIN <<>> : FALSE
    OBVIOUS
  <2> QED  BY <1>2, <2>1
<1>4. \A c \in Apis, k \in Kinds : Clean(c, k)
  BY <1>2, <1>3 DEF Clean
<1>5. Types
  <2>1. [clients |-> {}, near |-> {}, far |-> {}, known |-> FALSE] \in AdapterStates
    BY DEF AdapterStates
  <2> QED  BY <1>1, <1>3, <2>1 DEF Types
<1>6. \A c \in Apis : object[c] = "free" /\ destroyData[c] = {}
  BY <1>1
<1>7. ApiInv
  BY <1>1, <1>2, <1>3, <1>4, <1>5, <1>6
  DEF ApiInv, LiveStays, FreeIsForgotten, RemovalIsLast, Expected, OthersForgot, UnloadedIsEmpty
<1>8. WorkInv
  <2>1. <<>> \in Seq(LocCalls) /\ <<>> \in Seq(Msgs) /\ \A i \in DOMAIN <<>> : FALSE
    OBVIOUS
  <2> QED  BY <1>1, <1>2, <2>1 DEF WorkInv
<1> QED  BY <1>1, <1>7, <1>8 DEF ServedInv, NoStray

LEMMA ServedStep == ServedInv /\ [ApiNext]_apiVars => ServedInv'
<1> SUFFICES ASSUME ServedInv, [ApiNext]_apiVars PROVE ServedInv'
  OBVIOUS
<1>0. ApiInv /\ WorkInv /\ NoStray /\ loaded \subseteq loaded
  BY DEF ServedInv
<1>1. CASE UNCHANGED apiVars
  <2>1. /\ object' = object /\ destroyData' = destroyData /\ loaded' = loaded
        /\ queue' = queue /\ adapter' = adapter /\ UNCHANGED <<kept, locCalls, strays>>
    BY <1>1 DEF apiVars, libraryVars, objectVars, adapterData
  <2>2. Types' /\ LiveStays' /\ RemovalIsLast' /\ UnloadedIsEmpty'
    BY <1>0, <2>1 DEF ApiInv, Types, LiveStays, RemovalIsLast, UnloadedIsEmpty, Removal, Msg, Of
  <2>3. FreeIsForgotten' /\ OthersForgot'
    BY <1>0, <2>1 DEF ApiInv, FreeIsForgotten, OthersForgot, Clean, Of
  <2>4. Expected'
    BY <1>0, <2>1 DEF ApiInv, Expected, Removal, Msg
  <2>5. WorkInv' /\ NoStray'
    BY <1>0, <2>1, WorkStays DEF NoStray
  <2> QED  BY <2>2, <2>3, <2>4, <2>5 DEF ApiInv, ServedInv
<1>2. ASSUME NEW c \in Apis, NEW kinds \in SUBSET Kinds,
             CreateInstance(c, kinds) \/ UpdateCallbacks(c, kinds)
      PROVE  ServedInv'
  <2>1. UNCHANGED <<kept, locCalls, strays>> /\ loaded \subseteq loaded'
    BY <1>2 DEF CreateInstance, UpdateCallbacks, LoadInterfaces, adapterData
  <2> QED  BY <1>0, <1>2, <2>1, CallsKeepInv, WorkStays DEF ServedInv, NoStray
<1>3. ASSUME NEW c \in Apis, NEW k \in Kinds, NEW far \in BOOLEAN, NEW id \in SessionIds,
             StartSession(c, k, far, id)
      PROVE  ServedInv'
  <2>1. UNCHANGED <<kept, locCalls, strays>> /\ loaded \subseteq loaded'
    BY <1>3 DEF StartSession, libraryVars, adapterData
  <2> QED  BY <1>0, <1>3, <2>1, PostsKeepInv, WorkStays DEF ServedInv, NoStray
<1>4. ASSUME NEW c \in Apis, NEW withCallback \in BOOLEAN, Destroy(c, withCallback)
      PROVE  ServedInv'
  <2>1. UNCHANGED <<kept, locCalls, strays>> /\ loaded \subseteq loaded'
    BY <1>4 DEF Destroy
  <2> QED  BY <1>0, <1>4, <2>1, DestroyKeepsInv, WorkStays DEF ServedInv, NoStray
<1>5. ASSUME NEW k \in Kinds, AdapterRuns(k) PROVE ServedInv'
  BY <1>0, <1>5, RunKeepsInv, WorkStep, StrayStep DEF ServedInv
<1>6. ASSUME NEW k \in Kinds, AnswerCall(k) PROVE ServedInv'
  <2>1. /\ UNCHANGED <<kept, strays>> /\ loaded' = loaded
        /\ locCalls[k] # <<>> /\ locCalls' = [locCalls EXCEPT ![k] = Tail(@)]
    BY <1>6 DEF AnswerCall, libraryVars
  <2>2. locCalls[k] \in Seq(LocCalls) /\ Tail(locCalls[k]) \in Seq(LocCalls) /\ k \in loaded
    BY <1>0, <2>1 DEF WorkInv
  <2>3. WorkInv'
    BY <1>0, <2>1, <2>2 DEF WorkInv
  <2> QED  BY <1>0, <1>6, <2>1, <2>3, PostsKeepInv DEF ServedInv, NoStray
<1>7. ASSUME NEW k \in Kinds, ReportEngineUp(k) PROVE ServedInv'
  <2>1. UNCHANGED <<kept, locCalls, strays>> /\ loaded \subseteq loaded'
    BY <1>7 DEF ReportEngineUp, libraryVars, adapterData
  <2> QED  BY <1>0, <1>7, <2>1, PostsKeepInv, WorkStays DEF ServedInv, NoStray
<1> QED  BY <1>1, <1>2, <1>3, <1>4, <1>5, <1>6, <1>7 DEF ApiNext

\* No object that was freed is called, although answers of LocApi and requests that wait
\* for the engine may still hold its address: an adapter calls those that it knows, and the
\* one it is just told of.  No adapter knows a freed object, and no message adds it, or
\* removes the next object at its address.
THEOREM ApiNoGhostClient == ApiSpec => []NoGhostClient
<1>1. ServedInv => NoGhostClient
  <2> SUFFICES ASSUME ServedInv, NEW c \in Apis, object[c] = "free", NEW k \in Kinds
               PROVE  /\ c \notin adapter[k].clients
                      /\ \A i \in DOMAIN queue[k] : queue[k][i] \notin {Msg("add", c), Msg("remove", c)}
    BY DEF NoGhostClient, ServedInv, NoStray
  <2>1. Clean(c, k)
    BY DEF ServedInv, ApiInv, FreeIsForgotten
  <2>2. Of(Msg("add", c), c) /\ Of(Msg("remove", c), c)
    BY DEF Of, Msg
  <2> QED  BY <2>1, <2>2 DEF Clean
<1> QED  BY <1>1, ServedInit, ServedStep, PTL DEF ApiSpec

\* With no message under way no object waits for an adapter: those that it waits for were
\* all sent its removal.
THEOREM ApiFreed == ApiSpec => []Freed
<1>1. ServedInv => Freed
  <2> SUFFICES ASSUME ServedInv, \A k \in Kinds : queue[k] = <<>>, NEW c \in Apis
               PROVE  destroyData[c] = {}
    BY DEF Freed
  <2>1. \A k \in destroyData[c] : k \in Kinds
    BY DEF ServedInv, ApiInv, Types
  <2>2. \A k \in destroyData[c] : \E i \in DOMAIN queue[k] : queue[k][i] = Removal(c)
    BY DEF ServedInv, ApiInv, Expected
  <2> QED  BY <2>1, <2>2
<1> QED  BY <1>1, ServedInit, ServedStep, PTL DEF ApiSpec
-----------------------------------------------------------------------------
(***************************************************************************)
(* The instance of the framework, and the capabilities.                    *)
(***************************************************************************)
\* The clients the library knows are the live objects, and refCount counts them.
FrameInv ==
  /\ clientData = {c \in Apis : object[c] = "live"}
  /\ IsFiniteSet(clientData) /\ refCount = Cardinality(clientData)
  /\ osFramework \in BOOLEAN /\ (osFramework <=> refCount # 0)

\* Adapter k has a question for capabilities that it will answer to c, or keeps it until
\* the engine is up.
WillTell(c, k) ==
  \/ \E j \in DOMAIN queue[k] :
       /\ queue[k][j] = Msg("caps", c)
       /\ \/ c \in adapter[k].clients
          \/ \E i \in DOMAIN queue[k] : i < j /\ queue[k][i] = Msg("add", c)
  \/ c \in adapter[k].clients /\ \E j \in DOMAIN kept[k] : kept[k][j] = Msg("caps", c)

CapsInv ==
  \A c \in Apis : object[c] = "live" /\ c \in asked =>
    c \in capable \/ \E k \in Kinds : WillTell(c, k)

\* What an adapter does leaves the live objects as they are.
LEMMA AdaptersLeaveLive ==
  ASSUME ServedInv, NEW k \in Kinds, AdapterRuns(k)
  PROVE  /\ \A c \in Apis : object'[c] = "live" <=> object[c] = "live"
         /\ UNCHANGED <<clientData, refCount, osFramework, asked>>
<1>1. Types /\ WorkInv /\ ApiInv
  BY DEF ServedInv, ApiInv
<1>2. UNCHANGED <<clientData, refCount, osFramework, asked>>
  BY DEF AdapterRuns, libraryVars
<1>3. CASE HandleRemove(k)
  <2> DEFINE c == Head(queue[k]).c
  <2>1. queue[k] # <<>> /\ Head(queue[k]).k = "remove"
    BY <1>3 DEF HandleRemove, Received
  <2>2. c \in Apis
    BY <1>1, <2>1, HeadFacts
  <2>3. \/ destroyData[c] = {k} /\ object' = [object EXCEPT ![c] = "free"]
        \/ object' = object
    BY <1>3 DEF HandleRemove, OnRemoveClientComplete
  <2>4. destroyData[c] = {k} => object[c] # "live"
    BY <1>1, <2>2 DEF ApiInv, LiveStays
  <2> HIDE DEF c
  <2>5. \A d \in Apis : object'[d] = "live" <=> object[d] = "live"
    BY <1>1, <2>2, <2>3, <2>4 DEF Types
  <2> QED  BY <1>2, <2>5
<1>4. CASE ~HandleRemove(k)
  <2>1. object' = object
    BY <1>1, <1>4, QueueStep DEF objectVars
  <2> QED  BY <1>2, <2>1
<1> QED  BY <1>3, <1>4

LEMMA FrameInit == ApiInit => FrameInv
<1> SUFFICES ASSUME ApiInit PROVE FrameInv
  OBVIOUS
<1>1. /\ clientData = {} /\ refCount = 0 /\ osFramework = FALSE
      /\ \A c \in Apis : object[c] # "live"
  BY DEF ApiInit
<1> QED  BY <1>1, FS_EmptySet DEF FrameInv

LEMMA FrameStep == ServedInv /\ FrameInv /\ [ApiNext]_apiVars => FrameInv'
<1> SUFFICES ASSUME ServedInv, FrameInv, [ApiNext]_apiVars PROVE FrameInv'
  OBVIOUS
<1>1. /\ object \in [Apis -> {"free", "live", "leaving"}]
      /\ clientData = {c \in Apis : object[c] = "live"}
      /\ IsFiniteSet(clientData) /\ refCount = Cardinality(clientData)
      /\ osFramework \in BOOLEAN /\ (osFramework <=> refCount # 0)
      /\ refCount \in Nat
  BY FS_CardinalityType DEF ServedInv, ApiInv, Types, FrameInv
<1>2. CASE UNCHANGED apiVars
  BY <1>1, <1>2 DEF apiVars, libraryVars, objectVars, FrameInv
<1>3. ASSUME NEW c \in Apis, NEW kinds \in SUBSET Kinds, CreateInstance(c, kinds)
      PROVE  FrameInv'
  <2>1. /\ object[c] = "free" /\ object' = [object EXCEPT ![c] = "live"]
        /\ clientData' = clientData \cup {c} /\ refCount' = refCount + 1
        /\ osFramework' = (osFramework \/ refCount' = 1)
    BY <1>3 DEF CreateInstance
  <2>2. c \notin clientData /\ clientData' = {d \in Apis : object'[d] = "live"}
    BY <1>1, <2>1
  <2>3. IsFiniteSet(clientData')
    BY <1>1, <2>1, FS_AddElement
  <2>4. Cardinality(clientData') = Cardinality(clientData) + 1
    BY <1>1, <2>1, <2>2, FS_AddElement
  <2>5. Cardinality(clientData') = refCount' /\ refCount' # 0 /\ (refCount = 0 <=> refCount' = 1)
    BY <1>1, <2>1, <2>4
  <2>6. osFramework' = TRUE
    BY ONLY <1>1, <2>1, <2>5
  <2> QED  BY <2>2, <2>3, <2>5, <2>6 DEF FrameInv
<1>4. ASSUME NEW c \in Apis, NEW kinds \in SUBSET Kinds, UpdateCallbacks(c, kinds)
      PROVE  FrameInv'
  <2>1. /\ object[c] = "live" /\ clientData' = clientData \cup {c}
        /\ object' = object /\ refCount' = refCount /\ osFramework' = osFramework
    BY <1>4 DEF UpdateCallbacks, objectVars
  <2>2. clientData' = clientData
    BY <1>1, <2>1
  <2> QED  BY <1>1, <2>1, <2>2 DEF FrameInv
<1>5. CASE UNCHANGED <<libraryVars, objectVars>>
  BY <1>1, <1>5 DEF FrameInv, libraryVars, objectVars
<1>6. ASSUME NEW c \in Apis, NEW withCallback \in BOOLEAN, Destroy(c, withCallback)
      PROVE  FrameInv'
  <2>1. /\ object[c] = "live" /\ clientData' = clientData \ {c} /\ refCount' = refCount - 1
        /\ osFramework' = (osFramework /\ refCount # 1)
        /\ \/ object' = [object EXCEPT ![c] = "leaving"]
           \/ object' = [object EXCEPT ![c] = "free"]
    BY <1>6 DEF Destroy, ReleaseFramework
  <2>2. c \in clientData /\ clientData' = {d \in Apis : object'[d] = "live"}
    BY <1>1, <2>1
  <2>3. IsFiniteSet(clientData')
    BY <1>1, <2>1, FS_RemoveElement
  <2>4. Cardinality(clientData') = Cardinality(clientData) - 1
    BY <1>1, <2>1, <2>2, FS_RemoveElement
  <2>5. Cardinality(clientData) # 0
    BY <1>1, <2>2, FS_EmptySet
  <2>6. /\ Cardinality(clientData') = refCount' /\ osFramework = TRUE
        /\ (refCount = 1 <=> refCount' = 0)
    BY <1>1, <2>1, <2>4, <2>5
  <2>7. osFramework' \in BOOLEAN /\ (osFramework' <=> refCount # 1)
    BY ONLY <2>1, <2>6
  <2> QED  BY <2>2, <2>3, <2>6, <2>7 DEF FrameInv
<1>7. ASSUME NEW k \in Kinds, AdapterRuns(k) PROVE FrameInv'
  <2>1. /\ \A c \in Apis : object'[c] = "live" <=> object[c] = "live"
        /\ UNCHANGED <<clientData, refCount, osFramework>>
    BY <1>7, AdaptersLeaveLive
  <2> QED  BY <1>1, <2>1 DEF FrameInv
<1>8. ASSUME NEW c \in Apis, NEW k \in Kinds, NEW far \in BOOLEAN, NEW id \in SessionIds,
             StartSession(c, k, far, id)
      PROVE  FrameInv'
  BY <1>5, <1>8 DEF StartSession
<1>9. ASSUME NEW k \in Kinds, AnswerCall(k) \/ ReportEngineUp(k) PROVE FrameInv'
  BY <1>5, <1>9 DEF AnswerCall, ReportEngineUp
<1> QED  BY <1>2, <1>3, <1>4, <1>6, <1>7, <1>8, <1>9 DEF ApiNext

\* The instance of the framework is there while one client is, and only then, however
\* creations and destructions are interleaved with the adapters.
THEOREM ApiFrameworkServes == ApiSpec => []FrameworkServes
<1>1. FrameInv => FrameworkServes
  BY FS_EmptySet DEF FrameInv, FrameworkServes
<1> QED  BY <1>1, ServedInit, ServedStep, FrameInit, FrameStep, PTL DEF ApiSpec

\* A question that an adapter will answer is there also when messages follow it.
LEMMA GrownWillTell ==
  ASSUME Types, NEW c \in Apis, NEW k \in Kinds, WillTell(c, k), adapter' = adapter, kept' = kept,
         queue'[k] \in Seq(Msgs), Len(queue[k]) <= Len(queue'[k]),
         \A i \in DOMAIN queue[k] : queue'[k][i] = queue[k][i]
  PROVE  WillTell(c, k)'
<1>1. \A i \in DOMAIN queue[k] : i \in DOMAIN queue'[k]
  BY DEF Types
<1>2. CASE c \in adapter[k].clients /\ \E j \in DOMAIN kept[k] : kept[k][j] = Msg("caps", c)
  BY <1>2 DEF WillTell, Msg
<1>3. CASE \E j \in DOMAIN queue[k] :
             /\ queue[k][j] = Msg("caps", c)
             /\ \/ c \in adapter[k].clients
                \/ \E i \in DOMAIN queue[k] : i < j /\ queue[k][i] = Msg("add", c)
  <2>1. PICK j \in DOMAIN queue[k] :
          /\ queue[k][j] = Msg("caps", c)
          /\ \/ c \in adapter[k].clients
             \/ \E i \in DOMAIN queue[k] : i < j /\ queue[k][i] = Msg("add", c)
    BY <1>3
  <2>2. j \in DOMAIN queue'[k] /\ queue'[k][j] = Msg("caps", c)
    BY <1>1, <2>1
  <2>3. \/ c \in adapter'[k].clients
        \/ \E i \in DOMAIN queue'[k] : i < j /\ queue'[k][i] = Msg("add", c)
    BY <1>1, <2>1
  <2> QED  BY <2>2, <2>3 DEF WillTell, Msg
<1> QED  BY <1>2, <1>3 DEF WillTell

\* Of the adapters of an object the first in the order is asked.
LEMMA OneIsFirst ==
  ASSUME NEW kinds, kinds # {}
  PROVE  \E k \in kinds : First(kinds, k)
<1>1. Len(Order) = 3 /\ DOMAIN Order = 1 .. 3
  BY DEF Order
<1>2. CASE \E k \in kinds : \A i \in 1 .. 3 : Order[i] # k
  BY <1>1, <1>2 DEF First
<1>3. CASE \A k \in kinds : \E i \in 1 .. 3 : Order[i] = k
  <2>1. Order[1] # Order[2] /\ Order[1] # Order[3] /\ Order[2] # Order[3]
    BY DEF Order
  <2>2. PICK i \in 1 .. 3 : Order[i] \in kinds /\ \A j \in 1 .. 3 : j < i => Order[j] \notin kinds
    <3>1. \E i \in 1 .. 3 : Order[i] \in kinds
      BY <1>3
    <3> QED  BY <3>1
  <2>3. First(kinds, Order[i])
    <3> SUFFICES ASSUME NEW h \in 1 .. 3, NEW j \in 1 .. 3,
                        Order[h] = Order[i], Order[j] \in kinds
                 PROVE  h <= j
      BY <1>1 DEF First
    <3>1. h = i
      BY <2>1
    <3> QED  BY <2>2, <3>1
  <2> QED  BY <2>2, <2>3
<1> QED  BY <1>2, <1>3

\* A client that is created with an adapter is added to the one it asks before it asks.
LEMMA CreateAsks ==
  ASSUME Types, NEW c \in Apis, NEW kinds \in SUBSET Kinds, loaded' \subseteq Kinds,
         kinds \cap loaded' # {}, Register(c, kinds \cap loaded', TRUE)
  PROVE  \E k \in Kinds : WillTell(c, k)'
<1> DEFINE mine == kinds \cap loaded'
<1>1. PICK k \in mine : First(mine, k)
  BY OneIsFirst
<1> DEFINE q == queue[k]
           a == Msg("add", c)
           b == Msg("caps", c)
<1>2. k \in Kinds /\ queue'[k] = q \o <<a, b>>
  BY <1>1 DEF Register, Registration
<1>3. q \in Seq(Msgs) /\ a \in Msgs /\ b \in Msgs
  BY <1>2 DEF Types, Msg, Msgs
<1> HIDE DEF q, a, b
<1> DEFINE r == q \o <<a, b>>
<1>4. /\ DOMAIN r = 1 .. Len(q) + 2 /\ Len(q) \in Nat
      /\ r[Len(q) + 1] = a /\ r[Len(q) + 2] = b
  BY <1>3
<1> HIDE DEF r
<1>5. /\ Len(q) + 1 \in DOMAIN r /\ Len(q) + 2 \in DOMAIN r /\ Len(q) + 1 < Len(q) + 2
      /\ r[Len(q) + 1] = a /\ r[Len(q) + 2] = b
  BY <1>4
<1>6. /\ queue'[k] = r /\ a = Msg("add", c) /\ b = Msg("caps", c)
  BY <1>2 DEF r, a, b
<1>7. \E j \in DOMAIN r : r[j] = b /\ \E i \in DOMAIN r : i < j /\ r[i] = a
  BY <1>5
<1> QED  BY <1>2, <1>6, <1>7 DEF WillTell, Msg

LEMMA CapsInit == ApiInit => CapsInv
  BY DEF ApiInit, CapsInv

\* Those that the adapter knows and that are there it knows after it handled a message, and
\* so it does the one that the message adds.
LEMMA StaysKnown ==
  ASSUME ServedInv, NEW k \in Kinds, AdapterRuns(k), NEW c \in Apis, object[c] = "live"
  PROVE  /\ c \in adapter[k].clients => c \in adapter'[k].clients
         /\ Head(queue[k]) = Msg("add", c) => c \in adapter'[k].clients
<1> DEFINE m == Head(queue[k])
<1>1. /\ Types /\ ApiInv /\ WorkInv /\ queue[k] # <<>> /\ queue[k] \in Seq(Msgs) /\ m \in Msgs
      /\ adapter[k] \in AdapterStates
  BY HeadFacts DEF ServedInv, ApiInv, Types, AdapterRuns
<1>2. c \in adapter[k].clients => c \in adapter'[k].clients
  <2>1. CASE ~HandleRemove(k)
    BY <1>1, <2>1, TableStep
  <2>2. CASE HandleRemove(k)
    <3>1. m.k = "remove" /\ m = Removal(m.c)
      BY <1>1, <2>2, MsgFacts DEF HandleRemove, Received
    <3>2. m # Removal(c)
      <4>1. 1 \in DOMAIN queue[k] /\ m = queue[k][1]
        BY <1>1, TakenFacts
      <4> QED  BY <1>1, <4>1 DEF ApiInv, LiveStays
    <3>3. m.c # c
      BY <3>1, <3>2
    <3>4. adapter'[k].clients = adapter[k].clients \ {m.c}
      BY <1>1, <2>2 DEF HandleRemove, Types, AdapterStates
    <3> QED  BY <3>3, <3>4
  <2> QED  BY <2>1, <2>2
<1>3. ASSUME m = Msg("add", c) PROVE c \in adapter'[k].clients
  <2>1. m.k = "add" /\ m.c = c
    BY <1>3 DEF Msg
  <2>2. HandleAdd(k)
    BY <2>1 DEF AdapterRuns, Handle, HandleCapabilities, HandleStart, HandleSessionAnswer,
                HandleRemove, HandleEngineUp, MustWait, Received
  <2> QED  BY <1>1, <2>1, <2>2 DEF HandleAdd, Types, AdapterStates
<1> QED  BY <1>2, <1>3

\* The message that an adapter handles is the answer, or takes it nearer.
LEMMA AdapterTells ==
  ASSUME ServedInv, NEW k \in Kinds, AdapterRuns(k), NEW c \in Apis, object[c] = "live",
         NEW l \in Kinds, WillTell(c, l)
  PROVE  c \in capable' \/ WillTell(c, l)'
<1> DEFINE q == queue[k]
           h == Head(q)
<1>1. /\ Types /\ WorkInv /\ q # <<>> /\ q \in Seq(Msgs) /\ kept[k] \in Seq(Msgs)
      /\ queue'[k] \in Seq(Msgs) /\ Grown(Tail(q), queue'[k], {})
      /\ \A i \in Kinds : i # k => queue'[i] = queue[i] /\ adapter'[i] = adapter[i]
  BY QueueStep, TableStep DEF ServedInv, ApiInv, Types, WorkInv
<1>2. /\ c \in adapter[k].clients => c \in adapter'[k].clients
      /\ h = Msg("add", c) => c \in adapter'[k].clients
  BY StaysKnown
<1>3. CASE l # k
  <2>1. queue'[l] = queue[l] /\ adapter'[l] = adapter[l]
    BY <1>1, <1>3
  <2>2. kept'[l] = kept[l]
    BY <1>1, <1>3 DEF AdapterRuns, WorkInv
  <2> QED  BY <2>1, <2>2 DEF WillTell, Msg
<1>4. ASSUME HandleEngineUp(k), c \in adapter[k].clients PROVE c \in capable'
  BY <1>4 DEF HandleEngineUp, Learn
\* A question that was kept.
<1>5. ASSUME c \in adapter[k].clients, NEW j \in DOMAIN kept[k], kept[k][j] = Msg("caps", c)
      PROVE  c \in capable' \/ WillTell(c, k)'
  <2>1. CASE UNCHANGED kept
    BY <1>2, <1>5, <2>1 DEF WillTell, Msg
  <2>2. CASE HandleEngineUp(k)
    BY <1>4, <1>5, <2>2
  <2>3. CASE kept' = [kept EXCEPT ![k] = Append(@, Head(queue[k]))]
    <3> DEFINE p == kept[k]
               m == Head(queue[k])
    <3>1. m \in Msgs
      BY <1>1, TakenFacts
    <3>2. kept'[k] = Append(p, m)
      BY <1>1, <2>3 DEF WorkInv
    <3> HIDE DEF p, m
    <3>3. j \in DOMAIN Append(p, m) /\ Append(p, m)[j] = p[j]
      BY <1>1, <1>5, <3>1 DEF p
    <3>4. j \in DOMAIN kept'[k] /\ kept'[k][j] = Msg("caps", c)
      BY <1>5, <3>2, <3>3 DEF p
    <3> QED  BY <1>2, <1>5, <3>4 DEF WillTell, Msg
  <2> QED  BY <2>1, <2>2, <2>3 DEF AdapterRuns
\* A question that is under way.
<1>6. ASSUME NEW j \in DOMAIN q, q[j] = Msg("caps", c),
             c \in adapter[k].clients \/ \E i \in DOMAIN q : i < j /\ q[i] = Msg("add", c)
      PROVE  c \in capable' \/ WillTell(c, k)'
  <2>1. /\ Tail(q) \in Seq(Msgs) /\ h = q[1] /\ 1 \in DOMAIN q /\ h \in Msgs
        /\ \A i \in DOMAIN q : i # 1 => i - 1 \in DOMAIN Tail(q) /\ Tail(q)[i - 1] = q[i]
        /\ DOMAIN q = 1 .. Len(q) /\ Len(q) \in Nat
    BY <1>1, TakenFacts
  <2>2. \A i \in DOMAIN q : i # 1 => i - 1 \in DOMAIN queue'[k] /\ queue'[k][i - 1] = q[i]
    <3> HIDE DEF q, h
    <3>1. \A i \in DOMAIN Tail(q) : i \in DOMAIN queue'[k] /\ queue'[k][i] = Tail(q)[i]
      BY <1>1, <2>1 DEF Grown
    <3> QED  BY <2>1, <3>1
  <2>3. CASE j = 1
    <3> HIDE DEF q, h
    <3>1. ~ \E i \in DOMAIN q : i < j
      BY <2>1, <2>3
    <3>2. c \in adapter[k].clients /\ h = Msg("caps", c)
      BY <1>6, <2>1, <2>3, <3>1
    <3>3. h.k = "caps" /\ h.c = c
      BY <3>2 DEF Msg
    <3>4. CASE HandleCapabilities(k)
      BY <3>2, <3>3, <3>4 DEF HandleCapabilities, Learn, h, q
    <3>5. CASE kept' = [kept EXCEPT ![k] = Append(@, Head(queue[k]))]
      <4> DEFINE p == kept[k]
      <4>1. kept'[k] = Append(p, h)
        BY <1>1, <3>5 DEF WorkInv, h, q
      <4>2. Len(p) + 1 \in DOMAIN Append(p, h) /\ Append(p, h)[Len(p) + 1] = h
        BY <1>1, <2>1
      <4> HIDE DEF p
      <4>3. \E i \in DOMAIN kept'[k] : kept'[k][i] = Msg("caps", c)
        BY <3>2, <4>1, <4>2
      <4> QED  BY <1>2, <3>2, <4>3 DEF WillTell, Msg
    <3> QED
      BY <3>3, <3>4, <3>5
      DEF AdapterRuns, Handle, HandleAdd, HandleStart, HandleSessionAnswer, HandleRemove,
          HandleEngineUp, Received, h, q
  <2>4. CASE j # 1
    <3> HIDE DEF q, h
    <3>1. j - 1 \in DOMAIN queue'[k] /\ queue'[k][j - 1] = Msg("caps", c)
      BY <1>6, <2>2, <2>4
    <3>2. \/ c \in adapter'[k].clients
          \/ \E i \in DOMAIN queue'[k] : i < j - 1 /\ queue'[k][i] = Msg("add", c)
      <4>1. CASE c \in adapter[k].clients
        BY <1>2, <4>1
      <4>2. CASE \E i \in DOMAIN q : i < j /\ q[i] = Msg("add", c)
        <5>1. PICK i \in DOMAIN q : i < j /\ q[i] = Msg("add", c)
          BY <4>2
        <5>2. CASE i = 1
          BY <1>2, <2>1, <5>1, <5>2
        <5>3. CASE i # 1
          <6>1. i - 1 \in DOMAIN queue'[k] /\ queue'[k][i - 1] = Msg("add", c)
            BY <2>2, <5>1, <5>3
          <6>2. i - 1 < j - 1
            BY <2>1, <5>1
          <6> QED  BY <6>1, <6>2
        <5> QED  BY <5>2, <5>3
      <4> QED  BY <1>6, <4>1, <4>2
    <3> QED  BY <3>1, <3>2 DEF WillTell, Msg
  <2> QED  BY <2>3, <2>4
<1>7. CASE l = k
  <2>1. CASE c \in adapter[k].clients /\ \E j \in DOMAIN kept[k] : kept[k][j] = Msg("caps", c)
    BY <1>5, <1>7, <2>1
  <2>2. CASE \E j \in DOMAIN q :
               /\ q[j] = Msg("caps", c)
               /\ c \in adapter[k].clients \/ \E i \in DOMAIN q : i < j /\ q[i] = Msg("add", c)
    BY <1>6, <1>7, <2>2
  <2> QED  BY <1>7, <2>1, <2>2 DEF WillTell
<1> QED  BY <1>3, <1>7

LEMMA CapsStep == ServedInv /\ CapsInv /\ [ApiNext]_apiVars => CapsInv'
<1> SUFFICES ASSUME ServedInv, CapsInv, [ApiNext]_apiVars,
                    NEW c \in Apis, object'[c] = "live", c \in asked'
             PROVE  c \in capable' \/ \E k \in Kinds : WillTell(c, k)'
  BY DEF CapsInv, WillTell, Msg
<1>1. Types /\ (object[c] = "live" /\ c \in asked => c \in capable \/ \E k \in Kinds : WillTell(c, k))
  BY DEF ServedInv, ApiInv, CapsInv
<1>2. CASE UNCHANGED apiVars
  <2>1. /\ object' = object /\ asked' = asked /\ capable' = capable
        /\ queue' = queue /\ adapter' = adapter /\ kept' = kept
    BY <1>2 DEF apiVars, libraryVars, objectVars, adapterData
  <2>2. \A k \in Kinds : WillTell(c, k) => WillTell(c, k)'
    BY <2>1 DEF WillTell, Msg
  <2> QED  BY <1>1, <2>1, <2>2
<1>3. ASSUME object[c] = "live", c \in asked, adapter' = adapter, kept' = kept, c \in capable => c \in capable',
             \A k \in Kinds : /\ queue'[k] \in Seq(Msgs) /\ Len(queue[k]) <= Len(queue'[k])
                              /\ \A i \in DOMAIN queue[k] : queue'[k][i] = queue[k][i]
      PROVE  c \in capable' \/ \E k \in Kinds : WillTell(c, k)'
  BY <1>1, <1>3, GrownWillTell
<1>4. ASSUME NEW d \in Apis, NEW kinds \in SUBSET Kinds, CreateInstance(d, kinds)
      PROVE  c \in capable' \/ \E k \in Kinds : WillTell(c, k)'
  <2>1. /\ object[d] = "free" /\ object' = [object EXCEPT ![d] = "live"]
        /\ Register(d, kinds \cap loaded', TRUE) /\ adapter' = adapter
        /\ asked' = (IF kinds \cap loaded' # {} THEN asked \cup {d} ELSE asked \ {d})
        /\ capable' = capable \ {d} /\ kept' = kept
        /\ loaded \subseteq loaded' /\ loaded' \subseteq Kinds
    BY <1>1, <1>4 DEF CreateInstance, LoadInterfaces, Types
  <2>2. CASE c = d
    <3>1. kinds \cap loaded' # {}
      BY <2>1, <2>2
    <3> QED  BY <1>1, <2>1, <2>2, <3>1, CreateAsks
  <2>3. CASE c # d
    <3>1. object[c] = "live" /\ c \in asked /\ (c \in capable => c \in capable')
      BY <1>1, <2>1, <2>3 DEF Types
    <3>2. \A k \in Kinds : Grown(queue[k], queue'[k], {d})
      BY <1>1, <2>1, RegisterGrows
    <3> QED  BY <1>1, <2>1, <3>1, <3>2, GrownWillTell DEF Grown
  <2> QED  BY <2>2, <2>3
<1>5. ASSUME NEW d \in Apis, NEW kinds \in SUBSET Kinds, UpdateCallbacks(d, kinds)
      PROVE  c \in capable' \/ \E k \in Kinds : WillTell(c, k)'
  <2>1. /\ Register(d, kinds \cap loaded', FALSE) /\ adapter' = adapter /\ object' = object
        /\ asked' = asked /\ capable' = capable /\ kept' = kept
        /\ loaded \subseteq loaded' /\ loaded' \subseteq Kinds
    BY <1>1, <1>5 DEF UpdateCallbacks, LoadInterfaces, Types, objectVars, adapterData
  <2>2. \A k \in Kinds : Grown(queue[k], queue'[k], {d})
    BY <1>1, <2>1, RegisterGrows
  <2> QED  BY <1>3, <2>1, <2>2 DEF Grown
\* Messages that are posted behind the others.
<1>6. ASSUME NEW k \in Kinds, NEW m \in Msgs, queue' = [queue EXCEPT ![k] = Append(@, m)],
             UNCHANGED <<object, adapter, kept, asked, capable>>
      PROVE  c \in capable' \/ \E l \in Kinds : WillTell(c, l)'
  <2>1. ASSUME NEW l \in Kinds
        PROVE  /\ queue'[l] \in Seq(Msgs) /\ Len(queue[l]) <= Len(queue'[l])
               /\ \A i \in DOMAIN queue[l] : queue'[l][i] = queue[l][i]
    <3>1. queue[l] \in Seq(Msgs)
      BY <1>1 DEF Types
    <3>2. queue'[l] = IF l = k THEN Append(queue[l], m) ELSE queue[l]
      BY <1>1, <1>6 DEF Types
    <3>3. CASE l = k
      BY <3>1, <3>2, <3>3
    <3>4. CASE l # k
      BY <3>1, <3>2, <3>4
    <3> QED  BY <3>3, <3>4
  <2> QED  BY <1>3, <1>6, <2>1
<1>7. ASSUME NEW d \in Apis, NEW withCallback \in BOOLEAN, Destroy(d, withCallback)
      PROVE  c \in capable' \/ \E k \in Kinds : WillTell(c, k)'
  <2> DEFINE m == Removal(d)
  <2>1. /\ queue' = [k \in Kinds |-> IF k \in loaded THEN Append(queue[k], m) ELSE queue[k]]
        /\ adapter' = adapter /\ kept' = kept /\ asked' = asked \ {d} /\ capable' = capable \ {d}
        /\ \/ object' = [object EXCEPT ![d] = "leaving"]
           \/ object' = [object EXCEPT ![d] = "free"]
    BY <1>7 DEF Destroy, Removal
  <2>2. object[c] = "live" /\ c \in asked /\ c # d /\ (c \in capable => c \in capable')
    BY <1>1, <2>1 DEF Types
  <2>3. m \in Msgs
    BY DEF Removal, Msg, Msgs
  <2> HIDE DEF m
  <2>4. ASSUME NEW k \in Kinds
        PROVE  /\ queue'[k] \in Seq(Msgs) /\ Len(queue[k]) <= Len(queue'[k])
               /\ \A i \in DOMAIN queue[k] : queue'[k][i] = queue[k][i]
    <3>1. queue[k] \in Seq(Msgs)
      BY <1>1 DEF Types
    <3>2. CASE k \in loaded
      <4>1. queue'[k] = Append(queue[k], m)
        BY <2>1, <3>2
      <4> QED  BY <2>3, <3>1, <4>1
    <3>3. CASE k \notin loaded
      <4>1. queue'[k] = queue[k]
        BY <2>1, <3>3
      <4> QED  BY <3>1, <4>1
    <3> QED  BY <3>2, <3>3
  <2> QED  BY <1>3, <2>1, <2>2, <2>4
<1>8. ASSUME NEW k \in Kinds, AdapterRuns(k)
      PROVE  c \in capable' \/ \E l \in Kinds : WillTell(c, l)'
  <2>1. object[c] = "live" /\ c \in asked
    BY <1>8, AdaptersLeaveLive
  <2>2. capable \subseteq capable'
    BY <1>8 DEF AdapterRuns, Handle, HandleAdd, HandleCapabilities, HandleStart,
                HandleSessionAnswer, HandleRemove, HandleEngineUp, Learn
  <2> QED  BY <1>1, <1>8, <2>1, <2>2, AdapterTells
<1>9. ASSUME NEW d \in Apis, NEW k \in Kinds, NEW far \in BOOLEAN, NEW id \in SessionIds,
             StartSession(d, k, far, id)
      PROVE  c \in capable' \/ \E l \in Kinds : WillTell(c, l)'
  <2> DEFINE m == StartMsg(far, [c |-> d, id |-> id])
  <2>1. m \in Msgs
    BY DEF StartMsg, Msgs, ApiSessions
  <2>2. queue' = [queue EXCEPT ![k] = Append(@, m)]
        /\ UNCHANGED <<object, adapter, kept, asked, capable>>
    BY <1>9 DEF StartSession, libraryVars, objectVars, adapterData
  <2> HIDE DEF m
  <2> QED  BY <1>6, <2>1, <2>2
<1>10. ASSUME NEW k \in Kinds, AnswerCall(k)
       PROVE  c \in capable' \/ \E l \in Kinds : WillTell(c, l)'
  <2>1. PICK ok \in BOOLEAN : queue' = [queue EXCEPT ![k] = Append(@, AnswerMsg(Head(locCalls[k]), ok))]
    BY <1>10 DEF AnswerCall
  <2> DEFINE m == AnswerMsg(Head(locCalls[k]), ok)
  <2>2. Head(locCalls[k]) \in LocCalls
    <3>1. locCalls[k] # <<>> /\ locCalls[k] \in Seq(LocCalls)
      BY <1>10 DEF AnswerCall, ServedInv, WorkInv
    <3> QED  BY <3>1
  <2>3. m \in Msgs
    BY <2>2 DEF AnswerMsg, Msgs, LocCalls
  <2>4. UNCHANGED <<object, adapter, kept, asked, capable>>
    BY <1>10 DEF AnswerCall, libraryVars, objectVars
  <2> HIDE DEF m
  <2> QED  BY <1>6, <2>1, <2>3, <2>4 DEF m
<1>11. ASSUME NEW k \in Kinds, ReportEngineUp(k)
       PROVE  c \in capable' \/ \E l \in Kinds : WillTell(c, l)'
  <2>1. UpMsg \in Msgs
    BY DEF UpMsg, Msgs
  <2>2. queue' = [queue EXCEPT ![k] = Append(@, UpMsg)]
        /\ UNCHANGED <<object, adapter, kept, asked, capable>>
    BY <1>11 DEF ReportEngineUp, libraryVars, objectVars, adapterData
  <2> QED  BY <1>6, <2>1, <2>2
<1> QED  BY <1>2, <1>4, <1>5, <1>7, <1>8, <1>9, <1>10, <1>11 DEF ApiNext

\* With no message under way or kept every client that had an adapter when it was created
\* knows the capabilities: its question follows its addition in the queue of the adapter
\* asked, and one that is kept is answered when the engine is up.
THEOREM ApiCapabilitiesReach == ApiSpec => []CapabilitiesReach
<1>1. FrameInv /\ CapsInv => CapabilitiesReach
  <2> SUFFICES ASSUME FrameInv, CapsInv, \A k \in Kinds : queue[k] = <<>> /\ kept[k] = <<>>,
                      NEW c \in clientData \cap asked
               PROVE  c \in capable
    BY DEF CapabilitiesReach
  <2>1. c \in Apis /\ object[c] = "live" /\ c \in asked
    BY DEF FrameInv
  <2>2. \A k \in Kinds : ~WillTell(c, k)
    BY DEF WillTell
  <2> QED  BY <2>1, <2>2 DEF CapsInv
<1> QED
  BY <1>1, ServedInit, ServedStep, FrameInit, FrameStep, CapsInit, CapsStep, PTL DEF ApiSpec

\* What LocationAPI promises to those above it: the framework was turned on iff somebody
\* is a client, and every client that asked learns the capabilities.
THEOREM ApiAlwaysServes == ApiSpec => []ApiServes
<1>1. FrameworkServes /\ CapabilitiesReach => ApiServes
  BY DEF ApiServes
<1> QED  BY <1>1, ApiFrameworkServes, ApiCapabilitiesReach, PTL

-----------------------------------------------------------------------------
(***************************************************************************)
(* The framework's geofences.                                              *)
(***************************************************************************)
\* The two maps are inverse to each other, and what a session may report is what the
\* framework last asked of its id.
TablesTrue ==
  /\ \A id \in FenceIds : forward[id] # NoFence => backward[forward[id]] = id
  /\ \A s \in FenceSessions :
       IF backward[s] = NoFence THEN breachTypes[s] = {}
       ELSE forward[backward[s]] = s /\ breachTypes[s] = monitored[backward[s]]

\* Before the first addition there is nothing.
NothingBefore ==
  ~opened => commands = <<>> /\ \A id \in FenceIds : forward[id] = NoFence

AsksAdd(m, s) == m.k = "add" /\ m.s = s /\ m.step # "breach"
AsksRemove(m, s) == m.k = "remove" /\ m.s = s /\ m.step # "breach"
AddComes(s) ==
  \/ \E i \in DOMAIN apiQueue : AsksAdd(apiQueue[i], s)
  \/ \E i \in DOMAIN answersDue : AsksAdd(answersDue[i], s)
RemoveComes(s) ==
  \/ \E i \in DOMAIN apiQueue : AsksRemove(apiQueue[i], s)
  \/ \E i \in DOMAIN answersDue : AsksRemove(answersDue[i], s)

\* The modem is asked to remove what it was asked to remove and has.
RemoveGoes(s) ==
  \/ \E i \in DOMAIN apiQueue : AsksRemove(apiQueue[i], s) /\ apiQueue[i].step = "call"
  \/ \E i \in DOMAIN answersDue : AsksRemove(answersDue[i], s) /\ answersDue[i].step = "answer"

\* A session is added once.
AddedOnce ==
  \A s \in FenceSessions :
    /\ \A i, j \in DOMAIN apiQueue :
         AsksAdd(apiQueue[i], s) /\ AsksAdd(apiQueue[j], s) => i = j
    /\ \A i, j \in DOMAIN answersDue :
         AsksAdd(answersDue[i], s) /\ AsksAdd(answersDue[j], s) => i = j
    /\ \A i \in DOMAIN apiQueue, j \in DOMAIN answersDue :
         ~(AsksAdd(apiQueue[i], s) /\ AsksAdd(answersDue[j], s))
    /\ s \in fenced \/ RemoveGoes(s) => ~AddComes(s)

\* What the modem has or will have is in the table, or about to be removed.
InReach ==
  \A s \in FenceSessions :
    (s \in fenced \/ AddComes(s)) /\ s \notin orphaned => backward[s] # NoFence \/ RemoveComes(s)

HowMany(q, P) == Cardinality({i \in DOMAIN q : q[i] \in P})
Requests == {m \in FenceCalls : m.step # "breach"}

\* The requests in the queue are as many as the answers to come, and each kind is owed
\* as many answers as it has requests in the queue.
Counted ==
  /\ Len(commands) = HowMany(apiQueue, Requests) + HowMany(answersDue, Requests)
  /\ \A k \in Commands : awaited[k] = HowMany(commands, {k})

\* What LocApi has to do is no breach, which are reported under kinds of their own.
WellFormed == \A i \in DOMAIN apiQueue : apiQueue[i].step \in {"turn", "call"}

\* A breach looked up is one that the framework has asked for since, or took back.
BreachesTrue ==
  /\ BreachAsked
  /\ telling # NoBreach =>
       /\ telling.id \in FenceIds
       /\ telling.late \/ (forward[telling.id] # NoFence /\ telling.t \in monitored[telling.id])

FenceInv ==
  /\ GeofenceClientTypeOK /\ TablesTrue /\ NothingBefore /\ AddedOnce /\ InReach
  /\ Counted /\ WellFormed /\ BreachesTrue
-----------------------------------------------------------------------------
LEMMA HowManyType ==
  ASSUME NEW S, NEW q \in Seq(S), NEW P
  PROVE  /\ HowMany(q, P) \in Nat
         /\ IsFiniteSet({i \in DOMAIN q : q[i] \in P})
         /\ HowMany(<<>>, P) = 0
         /\ HowMany(q, P) = 0 => \A i \in DOMAIN q : q[i] \notin P
<1>1. IsFiniteSet(1 .. Len(q)) /\ {i \in DOMAIN q : q[i] \in P} \in SUBSET (1 .. Len(q))
  BY FS_Interval
<1>2. IsFiniteSet({i \in DOMAIN q : q[i] \in P})
  BY <1>1, FS_Subset
<1>3. HowMany(q, P) \in Nat
  BY <1>2, FS_CardinalityType DEF HowMany
<1>4. {i \in DOMAIN <<>> : <<>>[i] \in P} = {}
  OBVIOUS
<1>5. HowMany(<<>>, P) = 0
  BY <1>4, FS_EmptySet DEF HowMany
<1>6. ASSUME HowMany(q, P) = 0 PROVE {i \in DOMAIN q : q[i] \in P} = {}
  BY <1>2, <1>6, FS_EmptySet DEF HowMany
<1> QED  BY <1>2, <1>3, <1>5, <1>6

LEMMA HowManyAppend ==
  ASSUME NEW S, NEW q \in Seq(S), NEW e \in S, NEW P
  PROVE  HowMany(Append(q, e), P) = HowMany(q, P) + IF e \in P THEN 1 ELSE 0
<1> DEFINE A == {i \in DOMAIN q : q[i] \in P}
           B == {i \in DOMAIN Append(q, e) : Append(q, e)[i] \in P}
           n == Len(q) + 1
<1>0. /\ DOMAIN Append(q, e) = 1 .. n /\ DOMAIN q = 1 .. Len(q) /\ Len(q) \in Nat
      /\ Append(q, e)[n] = e /\ \A i \in 1 .. Len(q) : Append(q, e)[i] = q[i]
  OBVIOUS
<1>1. IsFiniteSet(A) /\ Cardinality(A) \in Nat
  BY HowManyType, FS_CardinalityType
<1>2. n \notin A
  OBVIOUS
<1>5. HowMany(q, P) = Cardinality(A) /\ HowMany(Append(q, e), P) = Cardinality(B)
  BY DEF HowMany
<1>3. CASE e \in P
  <2>1. B = A \cup {n}
    BY <1>0, <1>3
  <2>2. Cardinality(A \cup {n}) = Cardinality(A) + 1
    BY <1>1, <1>2, FS_AddElement
  <2> HIDE DEF A, B
  <2> QED  BY <1>3, <1>5, <2>1, <2>2
<1>4. CASE e \notin P
  <2>1. B = A
    BY <1>0, <1>4
  <2> HIDE DEF A, B
  <2> QED  BY <1>1, <1>4, <1>5, <2>1
<1> QED  BY <1>3, <1>4

LEMMA HowManyTail ==
  ASSUME NEW S, NEW q \in Seq(S), q # <<>>, NEW P
  PROVE  HowMany(q, P) = HowMany(Tail(q), P) + IF Head(q) \in P THEN 1 ELSE 0
<1> DEFINE A == {i \in DOMAIN Tail(q) : Tail(q)[i] \in P}
           C == {i \in DOMAIN q : q[i] \in P} \ {1}
           D == {i \in DOMAIN q : q[i] \in P}
           f == [i \in A |-> i + 1]
<1>1. Tail(q) \in Seq(S)
  OBVIOUS
<1>2. IsFiniteSet(A) /\ Cardinality(A) \in Nat
  BY <1>1, HowManyType, FS_CardinalityType
<1>3. \A i \in A : i + 1 \in C
  OBVIOUS
<1>4. \A j \in C : j - 1 \in A /\ f[j - 1] = j
  OBVIOUS
<1>5. f \in Bijection(A, C)
  <2>1. f \in [A -> C]
    BY <1>3
  <2>2. \A x, y \in A : f[x] = f[y] => x = y
    OBVIOUS
  <2>3. \A j \in C : \E i \in A : f[i] = j
    BY <1>4
  <2> HIDE DEF A, C, f
  <2> QED  BY <2>1, <2>2, <2>3 DEF Bijection, Injection, Surjection, IsInjective
<1>6. ExistsBijection(A, C)
  BY <1>5 DEF ExistsBijection
<1>10. HowMany(q, P) = Cardinality(D) /\ HowMany(Tail(q), P) = Cardinality(A)
  BY DEF HowMany
<1>7. Cardinality(C) = Cardinality(A) /\ IsFiniteSet(C)
  <2> HIDE DEF A, C, D
  <2> QED  BY <1>2, <1>6, FS_Bijection
<1>8. CASE Head(q) \in P
  <2>1. D = C \cup {1} /\ 1 \notin C
    BY <1>8
  <2>2. Cardinality(C \cup {1}) = Cardinality(C) + 1
    BY <1>7, <2>1, FS_AddElement
  <2> HIDE DEF A, C, D
  <2> QED  BY <1>7, <1>8, <1>10, <2>1, <2>2
<1>9. CASE Head(q) \notin P
  <2>1. D = C
    BY <1>9
  <2> HIDE DEF A, C, D
  <2> QED  BY <1>2, <1>7, <1>9, <1>10, <2>1
<1> QED  BY <1>8, <1>9

\* What a sequence becomes when something is added at its end.
LEMMA AppendFacts ==
  ASSUME NEW S, NEW q \in Seq(S), NEW e \in S
  PROVE  /\ Append(q, e) \in Seq(S)
         /\ DOMAIN Append(q, e) = DOMAIN q \cup {Len(q) + 1}
         /\ Len(q) + 1 \notin DOMAIN q
         /\ \A i \in DOMAIN q : Append(q, e)[i] = q[i]
         /\ Append(q, e)[Len(q) + 1] = e
  OBVIOUS

\* And when its first element is taken.
LEMMA TailFacts ==
  ASSUME NEW S, NEW q \in Seq(S), q # <<>>
  PROVE  /\ Tail(q) \in Seq(S) /\ Head(q) \in S /\ Head(q) = q[1] /\ 1 \in DOMAIN q
         /\ \A i \in DOMAIN Tail(q) : i + 1 \in DOMAIN q /\ i + 1 # 1 /\ Tail(q)[i] = q[i + 1]
         /\ \A i \in DOMAIN q : i # 1 => i - 1 \in DOMAIN Tail(q) /\ Tail(q)[i - 1] = q[i]
<1>1. /\ DOMAIN q = 1 .. Len(q) /\ Len(q) \in Nat /\ Len(q) # 0 /\ Tail(q) \in Seq(S)
      /\ DOMAIN Tail(q) = 1 .. Len(q) - 1 /\ Head(q) = q[1]
      /\ \A i \in 1 .. Len(q) - 1 : Tail(q)[i] = q[i + 1]
      /\ \A i \in 1 .. Len(q) : q[i] \in S
  OBVIOUS
<1>2. 1 \in DOMAIN q
  BY <1>1
<1>3. \A i \in DOMAIN Tail(q) : i + 1 \in DOMAIN q /\ i + 1 # 1 /\ Tail(q)[i] = q[i + 1]
  BY <1>1
<1>4. \A i \in DOMAIN q : i # 1 => i - 1 \in DOMAIN Tail(q) /\ Tail(q)[i - 1] = q[i]
  BY <1>1
<1> QED  BY <1>1, <1>2, <1>3, <1>4

LEMMA FenceInvInit == GeofenceClientInit => FenceInv
<1> SUFFICES ASSUME GeofenceClientInit PROVE FenceInv
  OBVIOUS
<1> USE DEF GeofenceClientInit
<1>4. apiQueue \in Seq(FenceCalls) /\ answersDue \in Seq(FenceCalls) /\ commands \in Seq(Commands)
  OBVIOUS
<1>7. /\ forward \in [FenceIds -> FenceSessions \cup {NoFence}]
      /\ backward \in [FenceSessions -> FenceIds \cup {NoFence}]
      /\ breachTypes \in [FenceSessions -> SUBSET Transitions] /\ opened \in BOOLEAN
      /\ fenced \subseteq FenceSessions /\ orphaned \subseteq FenceSessions
      /\ monitored \in [FenceIds -> SUBSET Transitions] /\ awaited \in [Commands -> Nat]
  OBVIOUS
<1>8. telling \in Breaches /\ lastBreach \in [told : Breaches, asked : SUBSET Transitions]
  BY DEF Breaches, NoBreach
<1>1. GeofenceClientTypeOK
  BY <1>4, <1>7, <1>8 DEF GeofenceClientTypeOK
<1>2. TablesTrue /\ NothingBefore /\ WellFormed /\ BreachesTrue
  BY DEF TablesTrue, NothingBefore, WellFormed, BreachesTrue, BreachAsked
<1>3. AddedOnce /\ InReach
  BY DEF AddedOnce, InReach, AddComes, RemoveComes, RemoveGoes
<1>5. HowMany(<<>>, Requests) = 0 /\ \A k : HowMany(<<>>, {k}) = 0
  BY <1>4, HowManyType
<1>9. Len(commands) = 0 /\ commands = <<>> /\ apiQueue = <<>> /\ answersDue = <<>>
  OBVIOUS
<1>10. \A k \in Commands : awaited[k] = 0
  OBVIOUS
<1> HIDE DEF GeofenceClientInit
<1>6. Counted
  <2>1. HowMany(apiQueue, Requests) = 0 /\ HowMany(answersDue, Requests) = 0
    BY <1>5, <1>9
  <2>2. \A k \in Commands : awaited[k] = HowMany(commands, {k})
    BY <1>5, <1>9, <1>10
  <2>3. Len(commands) = HowMany(apiQueue, Requests) + HowMany(answersDue, Requests)
    BY <1>9, <2>1
  <2> QED  BY <2>2, <2>3 DEF Counted
<1> QED  BY <1>1, <1>2, <1>3, <1>6 DEF FenceInv

-----------------------------------------------------------------------------
(***************************************************************************)
(* A command that is taken.                                                *)
(***************************************************************************)
LEMMA IssueCounts ==
  ASSUME GeofenceClientTypeOK, Counted, WellFormed,
         NEW k \in Commands, NEW s \in FenceSessions, Issue(commands, k, s)
  PROVE  /\ Counted' /\ WellFormed'
         /\ commands' \in Seq(Commands) /\ apiQueue' \in Seq(FenceCalls)
         /\ awaited' \in [Commands -> Nat]
<1> DEFINE m == FenceCall("turn", k, s)
<1>1. m \in FenceCalls /\ m \in Requests /\ m.step = "turn"
  BY DEF FenceCall, FenceCalls, Requests
<1>2. /\ commands \in Seq(Commands) /\ apiQueue \in Seq(FenceCalls)
      /\ answersDue \in Seq(FenceCalls) /\ awaited \in [Commands -> Nat]
  BY DEF GeofenceClientTypeOK
<1>3. /\ commands' = Append(commands, k) /\ apiQueue' = Append(apiQueue, m)
      /\ awaited' = [awaited EXCEPT ![k] = @ + 1] /\ answersDue' = answersDue
  BY DEF Issue
<1> HIDE DEF m
<1>4. /\ commands' \in Seq(Commands) /\ apiQueue' \in Seq(FenceCalls)
      /\ awaited' \in [Commands -> Nat] /\ Len(commands') = Len(commands) + 1
  BY <1>1, <1>2, <1>3
<1>5. WellFormed'
  BY <1>1, <1>2, <1>3, AppendFacts DEF WellFormed
<1>6. /\ HowMany(apiQueue', Requests) = HowMany(apiQueue, Requests) + 1
      /\ HowMany(answersDue', Requests) = HowMany(answersDue, Requests)
  BY <1>1, <1>2, <1>3, HowManyAppend
<1>7. HowMany(apiQueue, Requests) \in Nat /\ HowMany(answersDue, Requests) \in Nat
  BY <1>2, HowManyType
<1>8. Len(commands') = HowMany(apiQueue', Requests) + HowMany(answersDue', Requests)
  BY <1>2, <1>4, <1>6, <1>7 DEF Counted
<1>9. ASSUME NEW l \in Commands PROVE awaited'[l] = HowMany(commands', {l})
  <2>1. HowMany(commands', {l}) = HowMany(commands, {l}) + IF k \in {l} THEN 1 ELSE 0
    BY <1>2, <1>3, HowManyAppend
  <2>2. awaited[l] = HowMany(commands, {l}) /\ awaited[l] \in Nat
    BY <1>2 DEF Counted
  <2>3. awaited'[l] = IF k = l THEN awaited[l] + 1 ELSE awaited[l]
    BY <1>2, <1>3
  <2> QED  BY <2>1, <2>2, <2>3
<1> QED  BY <1>4, <1>5, <1>8, <1>9 DEF Counted

LEMMA AddKeepsInv ==
  ASSUME FenceInv, NEW id \in FenceIds, NEW mask \in SUBSET Transitions, AddGeofence(id, mask)
  PROVE  FenceInv'
<1>1. PICK s \in FreshFences :
        Enter(id, s, mask) /\ Issue(Waiting, "add", s) /\ orphaned' = orphaned \ {s}
  BY DEF AddGeofence
<1> DEFINE m == FenceCall("turn", "add", s)
<1>2. /\ s \in FenceSessions /\ s \notin fenced /\ backward[s] = NoFence
      /\ \A i \in DOMAIN apiQueue : apiQueue[i].s # s
      /\ \A i \in DOMAIN answersDue : answersDue[i].s # s
  BY <1>1 DEF FreshFences
<1>3. Waiting = commands
  BY DEF Waiting, FenceInv, NothingBefore
<1>4. /\ Counted' /\ WellFormed' /\ commands' \in Seq(Commands)
      /\ apiQueue' \in Seq(FenceCalls) /\ awaited' \in [Commands -> Nat]
  BY <1>1, <1>2, <1>3, IssueCounts DEF FenceInv, Commands
<1>5. /\ forward' = [forward EXCEPT ![id] = s] /\ backward' = [backward EXCEPT ![s] = id]
      /\ breachTypes' = [breachTypes EXCEPT ![s] = mask]
      /\ opened' = TRUE /\ monitored' = [monitored EXCEPT ![id] = mask]
      /\ apiQueue' = Append(apiQueue, m)
      /\ UNCHANGED <<answersDue, fenced, telling, lastBreach>> /\ forward[id] = NoFence
  BY <1>1 DEF AddGeofence, Enter, Issue
<1>6. m.s = s /\ m.k = "add" /\ m.step = "turn" /\ m \in FenceCalls
  BY <1>2 DEF FenceCall, FenceCalls, Commands
<1> HIDE DEF m
<1>7. GeofenceClientTypeOK'
  BY <1>1, <1>2, <1>4, <1>5 DEF FenceInv, GeofenceClientTypeOK
<1>8. TablesTrue'
  BY <1>2, <1>5, FenceAssumption DEF FenceInv, GeofenceClientTypeOK, TablesTrue
<1>9. NothingBefore' /\ BreachesTrue'
  BY <1>5 DEF FenceInv, GeofenceClientTypeOK, NothingBefore, BreachesTrue, BreachAsked
<1>10. /\ DOMAIN apiQueue' = DOMAIN apiQueue \cup {Len(apiQueue) + 1}
       /\ Len(apiQueue) + 1 \notin DOMAIN apiQueue
       /\ \A i \in DOMAIN apiQueue : apiQueue'[i] = apiQueue[i]
       /\ apiQueue'[Len(apiQueue) + 1] = m
  BY <1>5, <1>6, AppendFacts DEF FenceInv, GeofenceClientTypeOK
<1>11. AddedOnce'
  <2> SUFFICES ASSUME NEW x \in FenceSessions
               PROVE  /\ \A i, j \in DOMAIN apiQueue' :
                           AsksAdd(apiQueue'[i], x) /\ AsksAdd(apiQueue'[j], x) => i = j
                      /\ \A i, j \in DOMAIN answersDue :
                           AsksAdd(answersDue[i], x) /\ AsksAdd(answersDue[j], x) => i = j
                      /\ \A i \in DOMAIN apiQueue', j \in DOMAIN answersDue :
                           ~(AsksAdd(apiQueue'[i], x) /\ AsksAdd(answersDue[j], x))
                      /\ x \in fenced \/ RemoveGoes(x)' => ~AddComes(x)'
    BY <1>5 DEF AddedOnce
  <2>1. CASE x = s
    <3>1. \A i \in DOMAIN apiQueue : ~AsksAdd(apiQueue[i], x) /\ ~AsksRemove(apiQueue[i], x)
      BY <1>2, <2>1 DEF AsksAdd, AsksRemove
    <3>2. \A i \in DOMAIN answersDue : ~AsksAdd(answersDue[i], x) /\ ~AsksRemove(answersDue[i], x)
      BY <1>2, <2>1 DEF AsksAdd, AsksRemove
    <3>3. ~RemoveGoes(x)' /\ x \notin fenced
      BY <1>2, <1>5, <1>6, <1>10, <2>1, <3>1, <3>2 DEF RemoveGoes, AsksRemove
    <3> QED  BY <1>10, <3>1, <3>2, <3>3
  <2>2. CASE x # s
    <3>1. ~AsksAdd(m, x) /\ ~AsksRemove(m, x)
      BY <1>6, <2>2 DEF AsksAdd, AsksRemove
    <3>2. (RemoveGoes(x)' => RemoveGoes(x)) /\ (AddComes(x)' => AddComes(x))
      BY <1>5, <1>10, <3>1 DEF RemoveGoes, AddComes
    <3> QED  BY <1>10, <3>1, <3>2 DEF FenceInv, AddedOnce
  <2> QED  BY <2>1, <2>2
<1>12. InReach'
  <2> SUFFICES ASSUME NEW x \in FenceSessions, x \in fenced \/ AddComes(x)', x \notin orphaned'
               PROVE  backward'[x] # NoFence \/ RemoveComes(x)'
    BY <1>5 DEF InReach
  <2>1. CASE x = s
    BY <1>2, <1>5, <2>1, FenceAssumption DEF FenceInv, GeofenceClientTypeOK
  <2>2. CASE x # s
    <3>1. ~AsksAdd(m, x) /\ ~AsksRemove(m, x)
      BY <1>6, <2>2 DEF AsksAdd, AsksRemove
    <3>2. (AddComes(x)' => AddComes(x)) /\ (RemoveComes(x) => RemoveComes(x)')
      BY <1>5, <1>10, <3>1 DEF RemoveComes, AddComes
    <3>3. x \notin orphaned /\ backward'[x] = backward[x]
      BY <1>1, <1>2, <1>5, <2>2 DEF FenceInv, GeofenceClientTypeOK
    <3> QED  BY <3>2, <3>3 DEF FenceInv, InReach
  <2> QED  BY <2>1, <2>2
<1> QED  BY <1>4, <1>7, <1>8, <1>9, <1>11, <1>12 DEF FenceInv

\* A command other than an addition adds no session.
LEMMA IssueReach ==
  ASSUME FenceInv, NEW k \in Commands \ {"add"}, NEW s \in FenceSessions,
         Issue(commands, k, s)
  PROVE  /\ AddedOnce'
         /\ \A x \in FenceSessions : (AddComes(x)' => AddComes(x)) /\ (RemoveComes(x) => RemoveComes(x)')
         /\ k = "remove" => RemoveComes(s)'
<1> DEFINE m == FenceCall("turn", k, s)
<1>1. m.s = s /\ m.k = k /\ m.step = "turn" /\ m \in FenceCalls
  BY DEF FenceCall, FenceCalls, Commands
<1>2. apiQueue' = Append(apiQueue, m) /\ UNCHANGED <<answersDue, fenced>>
  BY DEF Issue
<1> HIDE DEF m
<1>3. /\ DOMAIN apiQueue' = DOMAIN apiQueue \cup {Len(apiQueue) + 1}
      /\ Len(apiQueue) + 1 \notin DOMAIN apiQueue
      /\ \A i \in DOMAIN apiQueue : apiQueue'[i] = apiQueue[i]
      /\ apiQueue'[Len(apiQueue) + 1] = m
  BY <1>1, <1>2, AppendFacts DEF FenceInv, GeofenceClientTypeOK
<1>4. \A x : ~AsksAdd(m, x)
  BY <1>1 DEF AsksAdd
<1>5. ASSUME NEW x \in FenceSessions
      PROVE  /\ AddComes(x)' => AddComes(x)
             /\ RemoveComes(x) => RemoveComes(x)'
             /\ RemoveGoes(x)' => RemoveGoes(x)
  <2>1. AddComes(x)' => AddComes(x)
    BY <1>2, <1>3, <1>4 DEF AddComes
  <2>2. RemoveComes(x) => RemoveComes(x)'
    BY <1>2, <1>3 DEF RemoveComes
  <2>3. RemoveGoes(x)' => RemoveGoes(x)
    BY <1>1, <1>2, <1>3 DEF RemoveGoes
  <2> QED  BY <2>1, <2>2, <2>3
<1>6. AddedOnce'
  BY <1>2, <1>3, <1>4, <1>5 DEF FenceInv, AddedOnce
<1>7. k = "remove" => RemoveComes(s)'
  BY <1>1, <1>3 DEF RemoveComes, AsksRemove
<1> QED  BY <1>5, <1>6, <1>7

\* What no step changes that leaves the queues and the sessions of the modem alone.
LEMMA QueuesAlone ==
  ASSUME FenceInv, UNCHANGED <<commands, apiQueue, awaited, answersDue, fenced, orphaned>>
  PROVE  /\ AddedOnce' /\ Counted' /\ WellFormed'
         /\ \A x \in FenceSessions : (AddComes(x)' <=> AddComes(x)) /\ (RemoveComes(x) <=> RemoveComes(x)')
<1>1. /\ commands' = commands /\ apiQueue' = apiQueue /\ awaited' = awaited
      /\ answersDue' = answersDue /\ fenced' = fenced
  OBVIOUS
<1>2. \A x \in FenceSessions : /\ AddComes(x)' <=> AddComes(x)
                               /\ RemoveComes(x) <=> RemoveComes(x)'
                               /\ RemoveGoes(x) <=> RemoveGoes(x)'
  BY <1>1 DEF AddComes, RemoveComes, RemoveGoes
<1> QED  BY <1>1, <1>2 DEF FenceInv, AddedOnce, Counted, WellFormed

LEMMA CommandKeeps ==
  ASSUME FenceInv, NEW id \in FenceIds, NEW k \in Commands \ {"add"}, Command(id, k)
  PROVE  /\ AddedOnce' /\ Counted' /\ WellFormed'
         /\ commands' \in Seq(Commands) /\ apiQueue' \in Seq(FenceCalls)
         /\ awaited' \in [Commands -> Nat]
         /\ UNCHANGED <<opened, answersDue, fenced, orphaned, lastBreach>>
         /\ \A x \in FenceSessions : (AddComes(x)' => AddComes(x)) /\ (RemoveComes(x) => RemoveComes(x)')
         /\ \A s \in FenceSessions : s = forward[id] /\ k = "remove" => RemoveComes(s)'
         /\ ~opened => commands' = <<>>
<1>1. CASE opened /\ forward[id] # NoFence /\ Issue(commands, k, forward[id])
  <2>1. PICK s \in FenceSessions : s = forward[id]
    BY <1>1 DEF FenceInv, GeofenceClientTypeOK
  <2>2. UNCHANGED <<opened, answersDue, fenced, orphaned, lastBreach>>
    BY <1>1 DEF Command, Issue
  <2>3. Issue(commands, k, s)
    BY <1>1, <2>1
  <2>4. /\ AddedOnce'
        /\ \A x \in FenceSessions : (AddComes(x)' => AddComes(x)) /\ (RemoveComes(x) => RemoveComes(x)')
        /\ k = "remove" => RemoveComes(s)'
    BY <2>3, IssueReach
  <2>5. /\ Counted' /\ WellFormed'
        /\ commands' \in Seq(Commands) /\ apiQueue' \in Seq(FenceCalls)
        /\ awaited' \in [Commands -> Nat]
    BY <2>3, IssueCounts DEF FenceInv
  <2>6. \A r \in FenceSessions : r = forward[id] /\ k = "remove" => RemoveComes(r)'
    BY <2>1, <2>4 DEF RemoveComes
  <2> QED  BY <1>1, <2>2, <2>4, <2>5, <2>6
<1>2. CASE /\ ~opened \/ forward[id] = NoFence
           /\ UNCHANGED <<commands, apiQueue, awaited, answersDue, fenced, lastBreach>>
  <2>1. forward[id] = NoFence
    BY <1>2 DEF FenceInv, NothingBefore
  <2>2. UNCHANGED <<opened, orphaned>>
    BY DEF Command
  <2>3. /\ AddedOnce' /\ Counted' /\ WellFormed'
        /\ \A x \in FenceSessions : (AddComes(x)' <=> AddComes(x)) /\ (RemoveComes(x) <=> RemoveComes(x)')
    BY <1>2, <2>2, QueuesAlone
  <2>4. /\ commands' \in Seq(Commands) /\ apiQueue' \in Seq(FenceCalls)
        /\ awaited' \in [Commands -> Nat]
    BY <1>2 DEF FenceInv, GeofenceClientTypeOK
  <2>5. ~opened => commands' = <<>>
    BY <1>2 DEF FenceInv, NothingBefore
  <2>6. UNCHANGED <<opened, answersDue, fenced, orphaned, lastBreach>>
    BY <1>2, <2>2
  <2>7. \A s \in FenceSessions : s # forward[id]
    BY <2>1, FenceAssumption
  <2> QED  BY <2>3, <2>4, <2>5, <2>6, <2>7, Zenon
<1> QED  BY <1>1, <1>2 DEF Command

\* What the framework no longer asks for is late, when it is on its way.
LEMMA TakeBackKeeps ==
  ASSUME FenceInv, NEW id \in FenceIds, NEW mask \in SUBSET Transitions, TakeBack(id, mask),
         UNCHANGED lastBreach, monitored' = [monitored EXCEPT ![id] = mask],
         \A i \in FenceIds : i # id => forward'[i] = forward[i],
         mask # {} => forward'[id] # NoFence
  PROVE  telling' \in Breaches /\ BreachesTrue'
<1>1. /\ telling \in Breaches /\ monitored \in [FenceIds -> SUBSET Transitions]
      /\ telling' = [telling EXCEPT !.late = @ \/ (telling.id = id /\ telling.t \notin mask)]
  BY DEF FenceInv, GeofenceClientTypeOK, TakeBack
<1>2. /\ telling' \in Breaches /\ telling'.id = telling.id /\ telling'.t = telling.t
      /\ telling'.late <=> telling.late \/ (telling.id = id /\ telling.t \notin mask)
  BY <1>1 DEF Breaches
<1>3. CASE telling = NoBreach
  <2>1. telling.id # id
    BY <1>3, FenceAssumption DEF NoBreach
  <2>2. telling' = NoBreach
    BY <1>1, <1>3, <2>1 DEF NoBreach
  <2> QED  BY <1>2, <2>2 DEF FenceInv, BreachesTrue, BreachAsked
<1>4. CASE telling # NoBreach
  <2>1. /\ telling.id \in FenceIds
        /\ telling.late \/ (forward[telling.id] # NoFence /\ telling.t \in monitored[telling.id])
    BY <1>4 DEF FenceInv, BreachesTrue
  <2>2. ASSUME ~telling'.late
        PROVE  forward'[telling'.id] # NoFence /\ telling'.t \in monitored'[telling'.id]
    BY <1>1, <1>2, <2>1, <2>2
  <2>3. BreachAsked'
    BY DEF FenceInv, BreachesTrue, BreachAsked
  <2> QED  BY <1>2, <2>1, <2>2, <2>3 DEF BreachesTrue
<1> QED  BY <1>3, <1>4

LEMMA RemoveKeepsFences ==
  ASSUME FenceInv, NEW id \in FenceIds, RemoveGeofence(id)
  PROVE  FenceInv'
<1>1. Command(id, "remove") /\ "remove" \in Commands \ {"add"}
  BY DEF RemoveGeofence, Commands
<1>2. /\ AddedOnce' /\ Counted' /\ WellFormed'
      /\ commands' \in Seq(Commands) /\ apiQueue' \in Seq(FenceCalls)
      /\ awaited' \in [Commands -> Nat]
      /\ UNCHANGED <<opened, answersDue, fenced, orphaned, lastBreach>>
      /\ \A x \in FenceSessions : (AddComes(x)' => AddComes(x)) /\ (RemoveComes(x) => RemoveComes(x)')
      /\ \A s \in FenceSessions : s = forward[id] => RemoveComes(s)'
      /\ ~opened => commands' = <<>>
  BY <1>1, CommandKeeps
<1>3. monitored' = [monitored EXCEPT ![id] = {}] /\ TakeBack(id, {})
  BY DEF RemoveGeofence
<1>4. CASE forward[id] = NoFence
  <2>1. UNCHANGED <<forward, backward, breachTypes>>
    BY <1>4 DEF RemoveGeofence
  <2>6. telling' \in Breaches /\ BreachesTrue'
    BY <1>2, <1>3, <2>1, TakeBackKeeps
  <2>2. GeofenceClientTypeOK'
    BY <1>2, <1>3, <2>1, <2>6 DEF FenceInv, GeofenceClientTypeOK
  <2>3. TablesTrue'
    BY <1>3, <1>4, <2>1, FenceAssumption DEF FenceInv, GeofenceClientTypeOK, TablesTrue
  <2>4. NothingBefore'
    BY <1>2, <2>1 DEF FenceInv, NothingBefore
  <2>5. InReach'
    BY <1>2, <2>1 DEF FenceInv, InReach
  <2> QED  BY <1>2, <2>2, <2>3, <2>4, <2>5, <2>6 DEF FenceInv
<1>5. CASE forward[id] # NoFence
  <2>1. PICK s \in FenceSessions : s = forward[id] /\ backward[s] = id
    BY <1>5 DEF FenceInv, GeofenceClientTypeOK, TablesTrue
  <2>2. /\ forward' = [forward EXCEPT ![id] = NoFence]
        /\ backward' = [backward EXCEPT ![s] = NoFence]
        /\ breachTypes' = [breachTypes EXCEPT ![s] = {}]
    BY <1>5, <2>1 DEF RemoveGeofence, Forget
  <2>9. telling' \in Breaches /\ BreachesTrue'
    <3>1. \A i \in FenceIds : i # id => forward'[i] = forward[i]
      BY <2>2 DEF FenceInv, GeofenceClientTypeOK
    <3> QED  BY <1>2, <1>3, <3>1, TakeBackKeeps
  <2>3. GeofenceClientTypeOK'
    BY <1>2, <1>3, <2>1, <2>2, <2>9 DEF FenceInv, GeofenceClientTypeOK
  <2>4. TablesTrue'
    BY <1>3, <2>1, <2>2, FenceAssumption DEF FenceInv, GeofenceClientTypeOK, TablesTrue
  <2>5. NothingBefore'
    BY <1>2, <2>2 DEF FenceInv, GeofenceClientTypeOK, NothingBefore
  <2>6. RemoveComes(s)'
    BY <1>2, <2>1
  <2>7. \A x \in FenceSessions : x # s => backward'[x] = backward[x]
    BY <2>2 DEF FenceInv, GeofenceClientTypeOK
  <2>8. InReach'
    <3> SUFFICES ASSUME NEW x \in FenceSessions, x \in fenced \/ AddComes(x)', x \notin orphaned'
                 PROVE  backward'[x] # NoFence \/ RemoveComes(x)'
      BY <1>2 DEF InReach
    <3>1. CASE x = s
      BY <2>6, <3>1
    <3>2. CASE x # s
      BY <1>2, <2>7, <3>2 DEF FenceInv, InReach
    <3> QED  BY <3>1, <3>2
  <2> QED  BY <1>2, <2>3, <2>4, <2>5, <2>8, <2>9 DEF FenceInv
<1> QED  BY <1>4, <1>5

LEMMA PauseKeepsFences ==
  ASSUME FenceInv, NEW id \in FenceIds, PauseGeofence(id)
  PROVE  FenceInv'
<1>1. Command(id, "pause") /\ "pause" \in Commands \ {"add"}
  BY DEF PauseGeofence, Commands
<1>2. /\ AddedOnce' /\ Counted' /\ WellFormed'
      /\ commands' \in Seq(Commands) /\ apiQueue' \in Seq(FenceCalls)
      /\ awaited' \in [Commands -> Nat]
      /\ UNCHANGED <<opened, answersDue, fenced, orphaned, lastBreach>>
      /\ \A x \in FenceSessions : (AddComes(x)' => AddComes(x)) /\ (RemoveComes(x) => RemoveComes(x)')
      /\ ~opened => commands' = <<>>
  BY <1>1, CommandKeeps
<1>3. UNCHANGED <<forward, backward, breachTypes, monitored, telling>>
  BY DEF PauseGeofence
<1>4. GeofenceClientTypeOK'
  BY <1>2, <1>3 DEF FenceInv, GeofenceClientTypeOK
<1>5. TablesTrue' /\ NothingBefore' /\ BreachesTrue' /\ InReach'
  BY <1>2, <1>3 DEF FenceInv, TablesTrue, NothingBefore, BreachesTrue, BreachAsked, InReach
<1> QED  BY <1>2, <1>4, <1>5 DEF FenceInv

LEMMA ResumeKeepsFences ==
  ASSUME FenceInv, NEW id \in FenceIds, NEW mask \in SUBSET Transitions,
         ResumeGeofence(id, mask)
  PROVE  FenceInv'
<1>1. Command(id, "resume") /\ "resume" \in Commands \ {"add"}
  BY DEF ResumeGeofence, Commands
<1>2. /\ AddedOnce' /\ Counted' /\ WellFormed'
      /\ commands' \in Seq(Commands) /\ apiQueue' \in Seq(FenceCalls)
      /\ awaited' \in [Commands -> Nat]
      /\ UNCHANGED <<opened, answersDue, fenced, orphaned, lastBreach>>
      /\ \A x \in FenceSessions : (AddComes(x)' => AddComes(x)) /\ (RemoveComes(x) => RemoveComes(x)')
      /\ ~opened => commands' = <<>>
  BY <1>1, CommandKeeps
<1>3. CASE forward[id] = NoFence
  <2>1. UNCHANGED <<forward, backward, breachTypes, monitored, telling>>
    BY <1>3 DEF ResumeGeofence
  <2>2. GeofenceClientTypeOK'
    BY <1>2, <2>1 DEF FenceInv, GeofenceClientTypeOK
  <2>3. TablesTrue' /\ NothingBefore' /\ BreachesTrue' /\ InReach'
    BY <1>2, <2>1 DEF FenceInv, TablesTrue, NothingBefore, BreachesTrue, BreachAsked, InReach
  <2> QED  BY <1>2, <2>2, <2>3 DEF FenceInv
<1>4. CASE forward[id] # NoFence
  <2> DEFINE s == forward[id]
  <2>1. s \in FenceSessions /\ backward[s] = id
    BY <1>4 DEF FenceInv, GeofenceClientTypeOK, TablesTrue
  <2>2. /\ forward' = [forward EXCEPT ![id] = s] /\ backward' = [backward EXCEPT ![s] = id]
        /\ breachTypes' = [breachTypes EXCEPT ![s] = mask]
        /\ monitored' = [monitored EXCEPT ![id] = mask] /\ TakeBack(id, mask)
    BY <1>4 DEF ResumeGeofence, Enter
  <2>3. forward' = forward /\ backward' = backward
    BY <2>1, <2>2 DEF FenceInv, GeofenceClientTypeOK
  <2> HIDE DEF s
  <2>7. telling' \in Breaches /\ BreachesTrue'
    <3>1. \A i \in FenceIds : i # id => forward'[i] = forward[i]
      BY <2>3
    <3>2. forward'[id] # NoFence
      BY <1>4, <2>3
    <3> QED  BY <1>2, <2>2, <3>1, <3>2, TakeBackKeeps
  <2>4. GeofenceClientTypeOK'
    BY <1>2, <2>1, <2>2, <2>3, <2>7 DEF FenceInv, GeofenceClientTypeOK
  <2>5. TablesTrue'
    BY <2>1, <2>2, <2>3, FenceAssumption DEF FenceInv, GeofenceClientTypeOK, TablesTrue
  <2>6. NothingBefore' /\ InReach'
    BY <1>2, <2>3 DEF FenceInv, NothingBefore, InReach
  <2> QED  BY <1>2, <2>4, <2>5, <2>6, <2>7 DEF FenceInv
<1> QED  BY <1>3, <1>4

-----------------------------------------------------------------------------
(***************************************************************************)
(* The adapter and LocApi.                                                 *)
(***************************************************************************)
\* The callback of the oldest request, when an answer to one was due.
LEMMA CallbackCounts ==
  ASSUME GeofenceClientTypeOK, Counted, answersDue # <<>>, Head(answersDue) \in Requests,
         answersDue' = Tail(answersDue), apiQueue' = apiQueue, OnCollectiveResponseCb
  PROVE  /\ Counted' /\ commands' \in Seq(Commands) /\ awaited' \in [Commands -> Nat]
         /\ commands = <<>> => commands' = <<>>
<1>1. /\ commands \in Seq(Commands) /\ apiQueue \in Seq(FenceCalls)
      /\ answersDue \in Seq(FenceCalls) /\ awaited \in [Commands -> Nat]
  BY DEF GeofenceClientTypeOK
<1>2. /\ HowMany(apiQueue, Requests) \in Nat /\ HowMany(answersDue', Requests) \in Nat
      /\ HowMany(answersDue, Requests) = HowMany(answersDue', Requests) + 1
  BY <1>1, HowManyType, HowManyTail, TailFacts
<1>3. Len(commands) = HowMany(apiQueue, Requests) + HowMany(answersDue, Requests)
  BY DEF Counted
<1>4. commands # <<>>
  BY <1>1, <1>2, <1>3
<1>5. /\ commands' = Tail(commands)
      /\ awaited' = [awaited EXCEPT ![Head(commands)] = @ - 1]
  BY <1>4 DEF OnCollectiveResponseCb
<1>6. commands' \in Seq(Commands) /\ Head(commands) \in Commands /\ Len(commands') = Len(commands) - 1
  BY <1>1, <1>4, <1>5
<1>7. ASSUME NEW k \in Commands
      PROVE  awaited'[k] = HowMany(commands', {k}) /\ awaited'[k] \in Nat
  <2>1. /\ HowMany(commands, {k}) = HowMany(commands', {k}) + IF Head(commands) \in {k} THEN 1 ELSE 0
        /\ HowMany(commands', {k}) \in Nat
    BY <1>1, <1>4, <1>5, <1>6, HowManyTail, HowManyType
  <2>2. awaited[k] = HowMany(commands, {k})
    BY DEF Counted
  <2>3. awaited'[k] = IF Head(commands) = k THEN awaited[k] - 1 ELSE awaited[k]
    BY <1>1, <1>5, <1>6
  <2> QED  BY <2>1, <2>2, <2>3
<1>8. awaited' \in [Commands -> Nat]
  BY <1>1, <1>5, <1>7
<1>9. Len(commands') = HowMany(apiQueue', Requests) + HowMany(answersDue', Requests)
  BY <1>2, <1>3, <1>6
<1> QED  BY <1>4, <1>6, <1>7, <1>8, <1>9 DEF Counted

\* What becomes of the messages when the adapter takes one and asks LocApi for nothing.
LEMMA TakenReach ==
  ASSUME FenceInv, answersDue # <<>>, answersDue' = Tail(answersDue), apiQueue' = apiQueue,
         NEW x \in FenceSessions
  PROVE  /\ AddComes(x)' => AddComes(x)
         /\ RemoveComes(x) => RemoveComes(x)' \/ AsksRemove(Due, x)
         /\ RemoveGoes(x)' => RemoveGoes(x)
         /\ AsksAdd(Due, x) => ~AddComes(x)'
         /\ \A i, j \in DOMAIN answersDue' :
              AsksAdd(answersDue'[i], x) /\ AsksAdd(answersDue'[j], x) => i = j
         /\ \A i \in DOMAIN apiQueue', j \in DOMAIN answersDue' :
              ~(AsksAdd(apiQueue'[i], x) /\ AsksAdd(answersDue'[j], x))
<1>1. /\ Due = answersDue[1] /\ 1 \in DOMAIN answersDue
      /\ \A i \in DOMAIN answersDue' :
           i + 1 \in DOMAIN answersDue /\ i + 1 # 1 /\ answersDue'[i] = answersDue[i + 1]
      /\ \A i \in DOMAIN answersDue :
           i # 1 => i - 1 \in DOMAIN answersDue' /\ answersDue'[i - 1] = answersDue[i]
      /\ \A i, j \in DOMAIN answersDue' : i + 1 = j + 1 => i = j
  BY TailFacts DEF FenceInv, GeofenceClientTypeOK, Due
<1>2. AddComes(x)' => AddComes(x)
  BY <1>1 DEF AddComes
<1>3. RemoveComes(x) => RemoveComes(x)' \/ AsksRemove(Due, x)
  BY <1>1 DEF RemoveComes
<1>4. RemoveGoes(x)' => RemoveGoes(x)
  BY <1>1 DEF RemoveGoes
<1>5. /\ \A i, j \in DOMAIN answersDue :
           AsksAdd(answersDue[i], x) /\ AsksAdd(answersDue[j], x) => i = j
      /\ \A i \in DOMAIN apiQueue, j \in DOMAIN answersDue :
           ~(AsksAdd(apiQueue[i], x) /\ AsksAdd(answersDue[j], x))
  BY DEF FenceInv, AddedOnce
<1>6. AsksAdd(Due, x) => ~AddComes(x)'
  BY <1>1, <1>5 DEF AddComes
<1>7. /\ \A i, j \in DOMAIN answersDue' :
           AsksAdd(answersDue'[i], x) /\ AsksAdd(answersDue'[j], x) => i = j
      /\ \A i \in DOMAIN apiQueue', j \in DOMAIN answersDue' :
           ~(AsksAdd(apiQueue'[i], x) /\ AsksAdd(answersDue'[j], x))
  BY <1>1, <1>5
<1> QED  BY <1>2, <1>3, <1>4, <1>6, <1>7

LEMMA AnswerKeepsFences ==
  ASSUME FenceInv, FenceAdapter, HandleAnswer
  PROVE  FenceInv'
<1>1. /\ answersDue # <<>> /\ Due.step = "answer" /\ answersDue' = Tail(answersDue)
      /\ fenced' = IF Due.ok /\ Due.k = "add" THEN fenced \cup {Due.s}
                   ELSE IF Due.ok /\ Due.k = "remove" THEN fenced \ {Due.s} ELSE fenced
      /\ orphaned' = IF Due.k # "remove" THEN orphaned
                     ELSE IF Due.ok THEN orphaned \ {Due.s} ELSE orphaned \cup {Due.s}
      /\ OnCollectiveResponseCb
      /\ UNCHANGED <<apiQueue, telling, lastBreach, forward, backward, breachTypes, opened, monitored>>
  BY DEF FenceAdapter, HandleAnswer
<1>2. /\ Due \in FenceCalls /\ Due.s \in FenceSessions /\ Due.ok \in BOOLEAN /\ Due \in Requests
      /\ answersDue' \in Seq(FenceCalls) /\ Due = answersDue[1] /\ 1 \in DOMAIN answersDue
  <2>1. answersDue \in Seq(FenceCalls)
    BY DEF FenceInv, GeofenceClientTypeOK
  <2>2. /\ Due \in FenceCalls /\ answersDue' \in Seq(FenceCalls)
        /\ Due = answersDue[1] /\ 1 \in DOMAIN answersDue
    BY <1>1, <2>1, TailFacts DEF Due
  <2>3. Due.s \in FenceSessions /\ Due.ok \in BOOLEAN
    BY <2>2 DEF FenceCalls
  <2> QED  BY <1>1, <2>2, <2>3 DEF Requests
<1>3. /\ Counted' /\ commands' \in Seq(Commands) /\ awaited' \in [Commands -> Nat]
      /\ commands = <<>> => commands' = <<>>
  BY <1>1, <1>2, CallbackCounts DEF FenceInv, Due
<1>4. GeofenceClientTypeOK'
  BY <1>1, <1>2, <1>3 DEF FenceInv, GeofenceClientTypeOK
<1>5. TablesTrue' /\ NothingBefore' /\ WellFormed' /\ BreachesTrue'
  BY <1>1, <1>3 DEF FenceInv, TablesTrue, NothingBefore, WellFormed, BreachesTrue, BreachAsked
<1>6. ASSUME NEW x \in FenceSessions
      PROVE  /\ x \in fenced' \/ RemoveGoes(x)' => ~AddComes(x)'
             /\ (x \in fenced' \/ AddComes(x)') /\ x \notin orphaned'
                  => backward[x] # NoFence \/ RemoveComes(x)'
  <2>1. /\ AddComes(x)' => AddComes(x)
        /\ RemoveComes(x) => RemoveComes(x)' \/ AsksRemove(Due, x)
        /\ RemoveGoes(x)' => RemoveGoes(x)
        /\ AsksAdd(Due, x) => ~AddComes(x)'
    BY <1>1, TakenReach
  <2>2. /\ x \in fenced \/ RemoveGoes(x) => ~AddComes(x)
        /\ (x \in fenced \/ AddComes(x)) /\ x \notin orphaned
                  => backward[x] # NoFence \/ RemoveComes(x)
    BY DEF FenceInv, AddedOnce, InReach
  <2>3. x \in fenced' /\ x \notin fenced => AsksAdd(Due, x) /\ AddComes(x)
    BY <1>1, <1>2 DEF AsksAdd, AddComes
  <2>4. AsksRemove(Due, x) => RemoveGoes(x)
    BY <1>1, <1>2 DEF AsksRemove, RemoveGoes
  <2>5. AsksRemove(Due, x) => x \in orphaned' \/ x \notin fenced'
    BY <1>1, <1>2 DEF AsksRemove
  <2>6. x \in orphaned => x \in orphaned' \/ AsksRemove(Due, x)
    BY <1>1, <1>2 DEF AsksRemove
  <2> QED  BY <2>1, <2>2, <2>3, <2>4, <2>5, <2>6
<1>7. AddedOnce'
  BY <1>1, <1>6, TakenReach DEF FenceInv, AddedOnce
<1>8. InReach'
  BY <1>1, <1>6 DEF InReach
<1> QED  BY <1>3, <1>4, <1>5, <1>7, <1>8 DEF FenceInv

LEMMA BreachKeepsFences ==
  ASSUME FenceInv, FenceAdapter, HandleBreach
  PROVE  FenceInv'
<1>1. /\ answersDue # <<>> /\ Due.step = "breach" /\ answersDue' = Tail(answersDue)
      /\ IF Due.s \in fenced THEN BeforeGeofenceBreachCb(Due.s, Due.k)
         ELSE UNCHANGED telling
      /\ UNCHANGED <<commands, awaited, apiQueue, fenced, orphaned,
                     forward, backward, breachTypes, opened, monitored, lastBreach>>
  BY DEF FenceAdapter, HandleBreach
<1>2. /\ Due \in FenceCalls /\ Due.s \in FenceSessions /\ Due \notin Requests
      /\ answersDue' \in Seq(FenceCalls)
  <2>1. answersDue \in Seq(FenceCalls)
    BY DEF FenceInv, GeofenceClientTypeOK
  <2>2. /\ Due \in FenceCalls /\ answersDue' \in Seq(FenceCalls)
        /\ Due = answersDue[1] /\ 1 \in DOMAIN answersDue
    BY <1>1, <2>1, TailFacts DEF Due
  <2>3. Due.s \in FenceSessions /\ Due.ok \in BOOLEAN
    BY <2>2 DEF FenceCalls
  <2> QED  BY <1>1, <2>2, <2>3 DEF Requests
<1>3. Counted'
  <2>1. /\ answersDue \in Seq(FenceCalls) /\ HowMany(answersDue', Requests) \in Nat
    BY <1>2, HowManyType DEF FenceInv, GeofenceClientTypeOK
  <2>2. HowMany(answersDue, Requests) = HowMany(answersDue', Requests) + 0
    BY <1>1, <1>2, <2>1, HowManyTail DEF Due
  <2> QED  BY <1>1, <2>1, <2>2 DEF FenceInv, Counted
<1>4. BreachesTrue' /\ telling' \in Breaches
  <2>1. CASE telling' = telling
    BY <1>1, <2>1 DEF FenceInv, BreachesTrue, BreachAsked, GeofenceClientTypeOK
  <2>2. CASE telling' = NoBreach
    BY <1>1, <2>2 DEF FenceInv, BreachesTrue, BreachAsked, NoBreach, Breaches
  <2>3. CASE /\ Due.k \in breachTypes[Due.s]
             /\ telling' = [id |-> backward[Due.s], t |-> Due.k, late |-> FALSE]
    <3>1. /\ backward[Due.s] # NoFence /\ breachTypes[Due.s] = monitored[backward[Due.s]]
          /\ backward[Due.s] \in FenceIds /\ monitored[backward[Due.s]] \in SUBSET Transitions
          /\ forward[backward[Due.s]] = Due.s
      BY <1>2, <2>3 DEF FenceInv, TablesTrue, GeofenceClientTypeOK
    <3>2. Due.s # NoFence /\ Due.k \in Transitions
      BY <1>2, <2>3, <3>1, FenceAssumption
    <3>3. /\ telling'.id = backward[Due.s] /\ telling'.t = Due.k /\ telling' \in Breaches
      BY <2>3, <3>1, <3>2 DEF Breaches
    <3>4. BreachAsked'
      BY <1>1 DEF FenceInv, BreachesTrue, BreachAsked
    <3> QED  BY <1>1, <2>3, <3>1, <3>2, <3>3, <3>4 DEF BreachesTrue
  <2> QED  BY <1>1, <2>1, <2>2, <2>3 DEF BeforeGeofenceBreachCb
<1>5. GeofenceClientTypeOK'
  BY <1>1, <1>2, <1>4 DEF FenceInv, GeofenceClientTypeOK
<1>6. TablesTrue' /\ NothingBefore' /\ WellFormed'
  BY <1>1 DEF FenceInv, TablesTrue, NothingBefore, WellFormed
<1>7. AddedOnce'
  BY <1>1, TakenReach DEF FenceInv, AddedOnce
<1>8. \A x : ~AsksRemove(Due, x)
  BY <1>1 DEF AsksRemove
<1>9. InReach'
  BY <1>1, <1>8, TakenReach DEF FenceInv, InReach
<1> QED  BY <1>3, <1>4, <1>5, <1>6, <1>7, <1>9 DEF FenceInv

LEMMA ToldKeepsFences ==
  ASSUME FenceInv, GeofenceBreachCb
  PROVE  FenceInv'
<1>1. /\ telling # NoBreach /\ telling' = NoBreach
      /\ lastBreach' = [told |-> telling,
                        asked |-> IF telling.id = NoFence THEN {} ELSE monitored[telling.id]]
      /\ UNCHANGED <<forward, backward, breachTypes, opened, commands, apiQueue, answersDue,
                     fenced, monitored, awaited, orphaned>>
  BY DEF GeofenceBreachCb
<1>2. /\ telling \in Breaches /\ telling.id \in FenceIds /\ telling.id # NoFence
      /\ telling.late \/ telling.t \in monitored[telling.id]
      /\ monitored[telling.id] \in SUBSET Transitions
  BY <1>1, FenceAssumption DEF FenceInv, BreachesTrue, GeofenceClientTypeOK
<1>3. BreachesTrue'
  BY <1>1, <1>2 DEF BreachesTrue, BreachAsked
<1>4. telling' \in Breaches /\ lastBreach' \in [told : Breaches, asked : SUBSET Transitions]
  BY <1>1, <1>2 DEF Breaches, NoBreach
<1>5. GeofenceClientTypeOK'
  BY <1>1, <1>4 DEF FenceInv, GeofenceClientTypeOK
<1>6. TablesTrue' /\ NothingBefore'
  BY <1>1 DEF FenceInv, TablesTrue, NothingBefore
<1>7. /\ AddedOnce' /\ Counted' /\ WellFormed'
      /\ \A x \in FenceSessions : (AddComes(x)' <=> AddComes(x)) /\ (RemoveComes(x) <=> RemoveComes(x)')
  BY <1>1, QueuesAlone
<1>8. InReach'
  BY <1>1, <1>7 DEF FenceInv, InReach
<1> QED  BY <1>3, <1>5, <1>6, <1>7, <1>8 DEF FenceInv

LEMMA TurnKeepsFences ==
  ASSUME FenceInv, FenceAdapter, HandleTurn
  PROVE  FenceInv'
<1>1. /\ answersDue # <<>> /\ Due.step = "turn" /\ answersDue' = Tail(answersDue)
      /\ \/ /\ Due.k = "add" \/ Due.s \in fenced
            /\ apiQueue' = Append(apiQueue, FenceCall("call", Due.k, Due.s))
            /\ UNCHANGED <<commands, awaited>>
         \/ /\ Due.k # "add" /\ Due.s \notin fenced
            /\ OnCollectiveResponseCb /\ UNCHANGED apiQueue
      /\ orphaned' = IF Due.k = "remove" /\ Due.s \notin fenced THEN orphaned \cup {Due.s}
                     ELSE orphaned
      /\ UNCHANGED <<fenced, telling, lastBreach, forward, backward, breachTypes, opened,
                     monitored>>
  BY DEF FenceAdapter, HandleTurn
<1>2. /\ Due \in FenceCalls /\ Due.s \in FenceSessions /\ Due \in Requests
      /\ Due.k \in Commands \cup Transitions
      /\ answersDue' \in Seq(FenceCalls) /\ Due = answersDue[1] /\ 1 \in DOMAIN answersDue
  <2>1. answersDue \in Seq(FenceCalls)
    BY DEF FenceInv, GeofenceClientTypeOK
  <2>2. /\ Due \in FenceCalls /\ answersDue' \in Seq(FenceCalls)
        /\ Due = answersDue[1] /\ 1 \in DOMAIN answersDue
    BY <1>1, <2>1, TailFacts DEF Due
  <2>3. Due.s \in FenceSessions /\ Due.k \in Commands \cup Transitions
    BY <2>2 DEF FenceCalls
  <2> QED  BY <1>1, <2>2, <2>3 DEF Requests
<1>3. CASE Due.k # "add" /\ Due.s \notin fenced /\ OnCollectiveResponseCb /\ UNCHANGED apiQueue
  <2>1. /\ Counted' /\ commands' \in Seq(Commands) /\ awaited' \in [Commands -> Nat]
        /\ commands = <<>> => commands' = <<>>
    BY <1>1, <1>2, <1>3, CallbackCounts DEF FenceInv, Due
  <2>2. GeofenceClientTypeOK'
    BY <1>1, <1>2, <1>3, <2>1 DEF FenceInv, GeofenceClientTypeOK
  <2>3. TablesTrue' /\ NothingBefore' /\ WellFormed' /\ BreachesTrue'
    BY <1>1, <1>3, <2>1 DEF FenceInv, TablesTrue, NothingBefore, WellFormed, BreachesTrue, BreachAsked
  <2>4. ASSUME NEW x \in FenceSessions
        PROVE  /\ x \in fenced' \/ RemoveGoes(x)' => ~AddComes(x)'
               /\ (x \in fenced' \/ AddComes(x)') /\ x \notin orphaned'
                    => backward[x] # NoFence \/ RemoveComes(x)'
    <3>1. /\ AddComes(x)' => AddComes(x)
          /\ RemoveComes(x) => RemoveComes(x)' \/ AsksRemove(Due, x)
          /\ RemoveGoes(x)' => RemoveGoes(x)
      BY <1>1, <1>3, TakenReach
    <3>2. AsksRemove(Due, x) => x \in orphaned'
      BY <1>1, <1>2, <1>3 DEF AsksRemove
    <3>3. x \in orphaned => x \in orphaned'
      BY <1>1
    <3> QED  BY <1>1, <3>1, <3>2, <3>3 DEF FenceInv, AddedOnce, InReach
  <2>5. AddedOnce'
    BY <1>1, <1>3, <2>4, TakenReach DEF FenceInv, AddedOnce
  <2>6. InReach'
    BY <1>1, <2>4 DEF InReach
  <2> QED  BY <2>1, <2>2, <2>3, <2>5, <2>6 DEF FenceInv
<1>4. CASE /\ Due.k = "add" \/ Due.s \in fenced
           /\ apiQueue' = Append(apiQueue, FenceCall("call", Due.k, Due.s))
           /\ UNCHANGED <<commands, awaited>>
  <2> PICK m \in FenceCalls : m = FenceCall("call", Due.k, Due.s)
    BY <1>2 DEF FenceCall, FenceCalls
  <2>1. /\ m.s = Due.s /\ m.k = Due.k /\ m.step = "call" /\ m \in Requests
        /\ apiQueue' = Append(apiQueue, m)
    BY <1>4 DEF FenceCall, Requests
  <2>2. apiQueue \in Seq(FenceCalls) /\ answersDue \in Seq(FenceCalls)
    BY DEF FenceInv, GeofenceClientTypeOK
  <2>3. /\ apiQueue' \in Seq(FenceCalls)
        /\ DOMAIN apiQueue' = DOMAIN apiQueue \cup {Len(apiQueue) + 1}
        /\ Len(apiQueue) + 1 \notin DOMAIN apiQueue
        /\ \A i \in DOMAIN apiQueue : apiQueue'[i] = apiQueue[i]
        /\ apiQueue'[Len(apiQueue) + 1] = m
    BY <2>1, <2>2, AppendFacts
  <2>4. Counted'
    <3>1. /\ HowMany(apiQueue', Requests) = HowMany(apiQueue, Requests) + 1
          /\ HowMany(answersDue, Requests) = HowMany(answersDue', Requests) + 1
      BY <1>1, <1>2, <2>1, <2>2, HowManyAppend, HowManyTail DEF Due
    <3>2. HowMany(apiQueue, Requests) \in Nat /\ HowMany(answersDue', Requests) \in Nat
      BY <1>2, <2>2, HowManyType
    <3>3. commands' = commands /\ awaited' = awaited
      BY <1>4
    <3>4. Len(commands) = HowMany(apiQueue', Requests) + HowMany(answersDue', Requests)
      BY <3>1, <3>2 DEF FenceInv, Counted
    <3> QED  BY <3>3, <3>4 DEF FenceInv, Counted
  <2>5. orphaned' \subseteq FenceSessions /\ orphaned \subseteq orphaned'
    BY <1>1, <1>2 DEF FenceInv, GeofenceClientTypeOK
  <2>6. GeofenceClientTypeOK'
    BY <1>1, <1>2, <1>4, <2>3, <2>5 DEF FenceInv, GeofenceClientTypeOK
  <2>7. TablesTrue' /\ NothingBefore' /\ BreachesTrue'
    BY <1>1, <1>4 DEF FenceInv, TablesTrue, NothingBefore, BreachesTrue, BreachAsked
  <2>8. WellFormed'
    BY <2>1, <2>3 DEF FenceInv, WellFormed
  <2>9. /\ \A i \in DOMAIN answersDue' :
             i + 1 \in DOMAIN answersDue /\ i + 1 # 1 /\ answersDue'[i] = answersDue[i + 1]
        /\ \A i \in DOMAIN answersDue :
             i # 1 => i - 1 \in DOMAIN answersDue' /\ answersDue'[i - 1] = answersDue[i]
        /\ \A i, j \in DOMAIN answersDue' : i + 1 = j + 1 => i = j
    BY <1>1, <2>2, TailFacts
  <2>10. ASSUME NEW x \in FenceSessions
         PROVE  /\ AddComes(x)' => AddComes(x)
                /\ RemoveComes(x) => RemoveComes(x)'
                /\ RemoveGoes(x)' => RemoveGoes(x) \/ (AsksRemove(m, x) /\ x \in fenced)
                /\ \A i, j \in DOMAIN apiQueue' :
                     AsksAdd(apiQueue'[i], x) /\ AsksAdd(apiQueue'[j], x) => i = j
                /\ \A i, j \in DOMAIN answersDue' :
                     AsksAdd(answersDue'[i], x) /\ AsksAdd(answersDue'[j], x) => i = j
                /\ \A i \in DOMAIN apiQueue', j \in DOMAIN answersDue' :
                     ~(AsksAdd(apiQueue'[i], x) /\ AsksAdd(answersDue'[j], x))
    <3>1. AsksAdd(m, x) <=> AsksAdd(Due, x)
      BY <1>1, <2>1 DEF AsksAdd
    <3>2. AsksRemove(m, x) <=> AsksRemove(Due, x)
      BY <1>1, <2>1 DEF AsksRemove
    <3>3. AddComes(x)' => AddComes(x)
      BY <1>2, <2>3, <2>9, <3>1 DEF AddComes
    <3>4. RemoveComes(x) => RemoveComes(x)'
      BY <1>2, <2>3, <2>9, <3>2 DEF RemoveComes
    <3>5. AsksRemove(m, x) => x \in fenced
      BY <1>4, <2>1 DEF AsksRemove
    <3>6. RemoveGoes(x)' => RemoveGoes(x) \/ AsksRemove(m, x)
      BY <2>3, <2>9 DEF RemoveGoes
    <3>7. /\ \A i, j \in DOMAIN apiQueue :
               AsksAdd(apiQueue[i], x) /\ AsksAdd(apiQueue[j], x) => i = j
          /\ \A i, j \in DOMAIN answersDue :
               AsksAdd(answersDue[i], x) /\ AsksAdd(answersDue[j], x) => i = j
          /\ \A i \in DOMAIN apiQueue, j \in DOMAIN answersDue :
               ~(AsksAdd(apiQueue[i], x) /\ AsksAdd(answersDue[j], x))
      BY DEF FenceInv, AddedOnce
    <3>8. /\ \A i, j \in DOMAIN apiQueue' :
               AsksAdd(apiQueue'[i], x) /\ AsksAdd(apiQueue'[j], x) => i = j
          /\ \A i, j \in DOMAIN answersDue' :
               AsksAdd(answersDue'[i], x) /\ AsksAdd(answersDue'[j], x) => i = j
          /\ \A i \in DOMAIN apiQueue', j \in DOMAIN answersDue' :
               ~(AsksAdd(apiQueue'[i], x) /\ AsksAdd(answersDue'[j], x))
      BY <1>2, <2>3, <2>9, <3>1, <3>7
    <3> QED  BY <3>3, <3>4, <3>5, <3>6, <3>8
  <2>11. AddedOnce'
    BY <1>1, <2>10 DEF FenceInv, AddedOnce
  <2>12. InReach'
    BY <1>1, <2>5, <2>10 DEF FenceInv, InReach
  <2> QED  BY <2>4, <2>6, <2>7, <2>8, <2>11, <2>12 DEF FenceInv
<1> QED  BY <1>1, <1>3, <1>4

LEMMA LocApiKeepsFences ==
  ASSUME FenceInv, FenceLocApi
  PROVE  FenceInv'
<1>1. PICK ok \in BOOLEAN :
        /\ apiQueue # <<>> /\ apiQueue' = Tail(apiQueue)
        /\ answersDue' = Append(answersDue, [Head(apiQueue) EXCEPT !.ok = ok,
                                               !.step = IF @ = "turn" THEN "turn" ELSE "answer"])
        /\ UNCHANGED <<forward, backward, breachTypes, opened, commands, fenced, monitored,
                       awaited, orphaned, telling, lastBreach>>
  BY DEF FenceLocApi
<1>2. apiQueue \in Seq(FenceCalls) /\ answersDue \in Seq(FenceCalls)
  BY DEF FenceInv, GeofenceClientTypeOK
<1>3. /\ Head(apiQueue) \in FenceCalls /\ apiQueue' \in Seq(FenceCalls)
      /\ Head(apiQueue) = apiQueue[1] /\ 1 \in DOMAIN apiQueue
      /\ \A i \in DOMAIN apiQueue' :
           i + 1 \in DOMAIN apiQueue /\ i + 1 # 1 /\ apiQueue'[i] = apiQueue[i + 1]
      /\ \A i \in DOMAIN apiQueue :
           i # 1 => i - 1 \in DOMAIN apiQueue' /\ apiQueue'[i - 1] = apiQueue[i]
      /\ \A i, j \in DOMAIN apiQueue' : i + 1 = j + 1 => i = j
  BY <1>1, <1>2, TailFacts
<1> PICK c \in FenceCalls : c = apiQueue[1]
  BY <1>3
<1>4. c.step \in {"turn", "call"}
  BY <1>3 DEF FenceInv, WellFormed
<1> PICK m \in FenceCalls :
      m = [c EXCEPT !.ok = ok, !.step = IF @ = "turn" THEN "turn" ELSE "answer"]
  BY DEF FenceCalls
<1>5. /\ answersDue' = Append(answersDue, m) /\ m.k = c.k /\ m.s = c.s
      /\ m.step \in {"turn", "answer"} /\ (m.step = "answer" => c.step = "call")
  BY <1>1, <1>3, <1>4 DEF FenceCalls
<1>6. m \in Requests /\ c \in Requests
  BY <1>4, <1>5 DEF Requests
<1>7. /\ answersDue' \in Seq(FenceCalls)
      /\ DOMAIN answersDue' = DOMAIN answersDue \cup {Len(answersDue) + 1}
      /\ Len(answersDue) + 1 \notin DOMAIN answersDue
      /\ \A i \in DOMAIN answersDue : answersDue'[i] = answersDue[i]
      /\ answersDue'[Len(answersDue) + 1] = m
  BY <1>2, <1>5, AppendFacts
<1>8. Counted'
  <2>1. /\ HowMany(answersDue', Requests) = HowMany(answersDue, Requests) + 1
        /\ HowMany(apiQueue, Requests) = HowMany(apiQueue', Requests) + 1
    BY <1>1, <1>2, <1>3, <1>5, <1>6, HowManyAppend, HowManyTail
  <2>2. HowMany(answersDue, Requests) \in Nat /\ HowMany(apiQueue', Requests) \in Nat
    BY <1>2, <1>3, HowManyType
  <2>3. Len(commands) = HowMany(apiQueue', Requests) + HowMany(answersDue', Requests)
    BY <2>1, <2>2 DEF FenceInv, Counted
  <2> QED  BY <1>1, <2>3 DEF FenceInv, Counted
<1>9. GeofenceClientTypeOK'
  BY <1>1, <1>3, <1>7 DEF FenceInv, GeofenceClientTypeOK
<1>10. TablesTrue' /\ NothingBefore' /\ BreachesTrue'
  BY <1>1 DEF FenceInv, TablesTrue, NothingBefore, BreachesTrue, BreachAsked
<1>11. WellFormed'
  BY <1>3 DEF FenceInv, WellFormed
<1>12. ASSUME NEW x \in FenceSessions
       PROVE  /\ AddComes(x)' => AddComes(x)
              /\ RemoveComes(x) => RemoveComes(x)'
              /\ RemoveGoes(x)' => RemoveGoes(x)
              /\ \A i, j \in DOMAIN apiQueue' :
                   AsksAdd(apiQueue'[i], x) /\ AsksAdd(apiQueue'[j], x) => i = j
              /\ \A i, j \in DOMAIN answersDue' :
                   AsksAdd(answersDue'[i], x) /\ AsksAdd(answersDue'[j], x) => i = j
              /\ \A i \in DOMAIN apiQueue', j \in DOMAIN answersDue' :
                   ~(AsksAdd(apiQueue'[i], x) /\ AsksAdd(answersDue'[j], x))
  <2>1. AsksAdd(m, x) <=> AsksAdd(c, x)
    BY <1>4, <1>5 DEF AsksAdd
  <2>2. AsksRemove(m, x) <=> AsksRemove(c, x)
    BY <1>4, <1>5 DEF AsksRemove
  <2>3. AddComes(x)' => AddComes(x)
    BY <1>3, <1>7, <2>1 DEF AddComes
  <2>4. RemoveComes(x) => RemoveComes(x)'
    BY <1>3, <1>7, <2>2 DEF RemoveComes
  <2>5. RemoveGoes(x)' => RemoveGoes(x)
    BY <1>3, <1>5, <1>7, <2>2 DEF RemoveGoes
  <2>6. /\ \A i, j \in DOMAIN apiQueue :
             AsksAdd(apiQueue[i], x) /\ AsksAdd(apiQueue[j], x) => i = j
        /\ \A i, j \in DOMAIN answersDue :
             AsksAdd(answersDue[i], x) /\ AsksAdd(answersDue[j], x) => i = j
        /\ \A i \in DOMAIN apiQueue, j \in DOMAIN answersDue :
             ~(AsksAdd(apiQueue[i], x) /\ AsksAdd(answersDue[j], x))
    BY DEF FenceInv, AddedOnce
  <2>7. /\ \A i, j \in DOMAIN apiQueue' :
             AsksAdd(apiQueue'[i], x) /\ AsksAdd(apiQueue'[j], x) => i = j
        /\ \A i, j \in DOMAIN answersDue' :
             AsksAdd(answersDue'[i], x) /\ AsksAdd(answersDue'[j], x) => i = j
        /\ \A i \in DOMAIN apiQueue', j \in DOMAIN answersDue' :
             ~(AsksAdd(apiQueue'[i], x) /\ AsksAdd(answersDue'[j], x))
    BY <1>3, <1>7, <2>1, <2>6
  <2> QED  BY <2>3, <2>4, <2>5, <2>7
<1>13. AddedOnce'
  BY <1>1, <1>12 DEF FenceInv, AddedOnce
<1>14. InReach'
  BY <1>1, <1>12 DEF FenceInv, InReach
<1> QED  BY <1>8, <1>9, <1>10, <1>11, <1>13, <1>14 DEF FenceInv

LEMMA ReportKeepsFences ==
  ASSUME FenceInv, NEW s \in FenceSessions, NEW t \in Transitions, Breach(s, t)
  PROVE  FenceInv'
<1> PICK m \in FenceCalls : m = FenceCall("breach", t, s)
  BY DEF FenceCall, FenceCalls
<1>1. /\ answersDue' = Append(answersDue, m) /\ m.step = "breach"
      /\ UNCHANGED <<forward, backward, breachTypes, opened, commands, apiQueue, fenced,
                     monitored, awaited, orphaned, telling, lastBreach>>
  BY DEF Breach, FenceCall
<1>2. answersDue \in Seq(FenceCalls) /\ m \notin Requests
  BY <1>1 DEF FenceInv, GeofenceClientTypeOK, Requests
<1>3. /\ answersDue' \in Seq(FenceCalls)
      /\ DOMAIN answersDue' = DOMAIN answersDue \cup {Len(answersDue) + 1}
      /\ Len(answersDue) + 1 \notin DOMAIN answersDue
      /\ \A i \in DOMAIN answersDue : answersDue'[i] = answersDue[i]
      /\ answersDue'[Len(answersDue) + 1] = m
  BY <1>1, <1>2, AppendFacts
<1>4. Counted'
  <2>1. HowMany(answersDue', Requests) = HowMany(answersDue, Requests) + 0
    BY <1>1, <1>2, HowManyAppend
  <2>2. HowMany(answersDue, Requests) \in Nat
    BY <1>2, HowManyType
  <2> QED  BY <1>1, <2>1, <2>2 DEF FenceInv, Counted
<1>5. GeofenceClientTypeOK'
  BY <1>1, <1>3 DEF FenceInv, GeofenceClientTypeOK
<1>6. TablesTrue' /\ NothingBefore' /\ WellFormed' /\ BreachesTrue'
  BY <1>1 DEF FenceInv, TablesTrue, NothingBefore, WellFormed, BreachesTrue, BreachAsked
<1>7. \A x : ~AsksAdd(m, x) /\ ~AsksRemove(m, x)
  BY <1>1 DEF AsksAdd, AsksRemove
<1>8. ASSUME NEW x \in FenceSessions
      PROVE  /\ AddComes(x)' <=> AddComes(x)
             /\ RemoveComes(x) <=> RemoveComes(x)'
             /\ RemoveGoes(x)' <=> RemoveGoes(x)
  <2>1. AddComes(x)' <=> AddComes(x)
    BY <1>1, <1>3, <1>7 DEF AddComes
  <2>2. RemoveComes(x)' <=> RemoveComes(x)
    BY <1>1, <1>3, <1>7 DEF RemoveComes
  <2>3. RemoveGoes(x)' <=> RemoveGoes(x)
    BY <1>1, <1>3, <1>7 DEF RemoveGoes
  <2> QED  BY <2>1, <2>2, <2>3
<1>9. AddedOnce'
  BY <1>1, <1>3, <1>7, <1>8 DEF FenceInv, AddedOnce
<1>10. InReach'
  BY <1>1, <1>8 DEF FenceInv, InReach
<1> QED  BY <1>3, <1>4, <1>5, <1>6, <1>9, <1>10 DEF FenceInv

LEMMA FenceInvStep == FenceInv /\ [GeofenceClientNext]_fenceVars => FenceInv'
<1> SUFFICES ASSUME FenceInv, [GeofenceClientNext]_fenceVars PROVE FenceInv'
  OBVIOUS
<1>1. CASE UNCHANGED fenceVars
  <2>1. AddedOnce' /\ InReach'
    BY <1>1, QueuesAlone DEF fenceVars, FenceInv, InReach
  <2> QED  BY <1>1, <2>1 DEF fenceVars, FenceInv, GeofenceClientTypeOK, TablesTrue, NothingBefore,
                             Counted, WellFormed, BreachesTrue, BreachAsked
<1>2. ASSUME NEW id \in FenceIds, NEW mask \in SUBSET Transitions,
             AddGeofence(id, mask) \/ ResumeGeofence(id, mask)
      PROVE  FenceInv'
  BY <1>2, AddKeepsInv, ResumeKeepsFences
<1>3. ASSUME NEW id \in FenceIds, RemoveGeofence(id) \/ PauseGeofence(id)
      PROVE  FenceInv'
  BY <1>3, RemoveKeepsFences, PauseKeepsFences
<1>4. CASE FenceAdapter
  <2>1. HandleTurn \/ HandleAnswer \/ HandleBreach
    BY <1>4 DEF FenceAdapter
  <2> QED  BY <1>4, <2>1, TurnKeepsFences, AnswerKeepsFences, BreachKeepsFences
<1>5. CASE FenceLocApi
  BY <1>5, LocApiKeepsFences
<1>6. ASSUME NEW s \in FenceSessions, NEW t \in Transitions, Breach(s, t) PROVE FenceInv'
  BY <1>6, ReportKeepsFences
<1>7. CASE GeofenceBreachCb
  BY <1>7, ToldKeepsFences
<1> QED  BY <1>1, <1>2, <1>3, <1>4, <1>5, <1>6, <1>7 DEF GeofenceClientNext

LEMMA FenceInvHolds == GeofenceClientSpec => []FenceInv
BY FenceInvInit, FenceInvStep, PTL DEF GeofenceClientSpec

LEMMA FenceInvServes == FenceInv => FencesServed
<1> SUFFICES ASSUME FenceInv PROVE FencesServed
  OBVIOUS
<1>1. ASSUME FencesSettled PROVE commands = <<>> /\ \A k \in Commands : awaited[k] = 0
  <2>1. apiQueue = <<>> /\ answersDue = <<>>
    BY <1>1 DEF FencesSettled
  <2>2. /\ apiQueue \in Seq(FenceCalls) /\ answersDue \in Seq(FenceCalls)
        /\ commands \in Seq(Commands)
    BY DEF FenceInv, GeofenceClientTypeOK
  <2>3. HowMany(apiQueue, Requests) = 0 /\ HowMany(answersDue, Requests) = 0
    BY <2>1, <2>2, HowManyType
  <2>4. commands = <<>>
    BY <2>2, <2>3 DEF FenceInv, Counted
  <2>5. \A k \in Commands : HowMany(commands, {k}) = 0
    BY <2>2, <2>4, HowManyType
  <2> QED  BY <2>4, <2>5 DEF FenceInv, Counted
<1>2. ASSUME FencesSettled, NEW s \in fenced \ orphaned
      PROVE  backward[s] # NoFence /\ forward[backward[s]] = s
  <2>1. s \in FenceSessions /\ ~RemoveComes(s)
    BY <1>2 DEF FencesSettled, RemoveComes, FenceInv, GeofenceClientTypeOK
  <2> QED  BY <1>2, <2>1 DEF FenceInv, InReach, TablesTrue
<1> QED  BY <1>1, <1>2 DEF FenceInv, BreachesTrue, FencesServed, CommandsAnswered, FencesHeld

\* Whatever answers overtake each other and whatever the modem or the adapter refuses:
\* each of the framework's geofence commands has its callback, a geofence of the modem is
\* in the table of LocationAPIClientBase unless its removal was refused, and a breach that
\* the framework is told is one it asks for, or was looked up, under mMutex, before the
\* framework took it back.
THEOREM FencesAlwaysServed == GeofenceClientSpec => []FencesServed
BY FenceInvHolds, FenceInvServes, PTL

-----------------------------------------------------------------------------
(***************************************************************************)
(* MeasurementClient.  A session that is not the current one ends with     *)
(* what is under way, and the current one runs or begins with it: ids are  *)
(* fresh when they are taken, and no message of another session comes      *)
(* after the start of the current one.                                     *)
(***************************************************************************)
Told(k, s) == \E i \in DOMAIN toMeasure : toMeasure[i].k = k /\ toMeasure[i].s = s

\* What is left of session s ends.
WillEnd(s) ==
  /\ running[s] # NotRunning => Told("stop", s)
  /\ \A i \in DOMAIN toMeasure : toMeasure[i].k = "start" /\ toMeasure[i].s = s =>
       \E j \in DOMAIN toMeasure : i < j /\ toMeasure[j].k = "stop" /\ toMeasure[j].s = s

FormerEnd == \A s \in MeasureIds : s # current \/ ~hasSession => WillEnd(s)

\* The current session runs, is on its way or was refused, and no other was asked for since.
CurrentRuns ==
  hasSession =>
    /\ current \in MeasureIds /\ ~Told("stop", current)
    /\ running[current] # NotRunning \/ Told("start", current) \/ refused
    /\ \A i, j \in DOMAIN toMeasure :
         /\ toMeasure[i].k = "start" /\ toMeasure[i].s = current /\ toMeasure[j].k = "start"
         => j <= i

CurrentPower ==
  hasSession /\ ~Replaces =>
    /\ running[current] \in {NotRunning, powerMode}
    /\ \A i \in DOMAIN toMeasure :
         toMeasure[i].k = "start" /\ toMeasure[i].s = current => toMeasure[i].m = powerMode

RefusedLast == refused => hasSession /\ \A i \in DOMAIN toMeasure : toMeasure[i].k # "start"

CallsInStep ==
  /\ service = "idle" => (hasSession <=> registered # NoInterface)
  /\ service \in {"start", "session"} => registered # NoInterface /\ (Replaces \/ ~hasSession)
  /\ service = "stop" => registered = NoInterface
  /\ hasSession \/ service = "session" => listed \/ Told("client", NoMeasureId)

\* A report on its way after the first that was late is for the callback of now.
OneLate ==
  /\ measuring => registered # NoInterface
  /\ registered # NoInterface => client = registered
  /\ late <= 1
  /\ late = 1 /\ reporting.k # "nothing" =>
       /\ registered # NoInterface
       /\ reporting.k = "chosen" => registered[reporting.v] = reporting.to

ReportTypes ==
  /\ reporting.v \in MeasureVersions
  /\ reporting.k # "nothing" => reporting.n \in Notifications

MeasureInv ==
  /\ MeasurementTypeOK /\ FormerEnd /\ CurrentRuns /\ CurrentPower /\ RefusedLast
  /\ CallsInStep /\ OneLate /\ ReportTypes /\ MeasurementsFit

MeasureMsgs == [k : {"client", "start", "stop"}, s : MeasureIds \cup {NoMeasureId}, m : Modes]

\* The queue when a message is sent, and when one is taken.
LEMMA SendFacts ==
  ASSUME MeasurementTypeOK, NEW k \in {"client", "start", "stop"},
         NEW s \in MeasureIds \cup {NoMeasureId}, NEW m \in Modes, ToAdapter(k, s, m)
  PROVE  /\ toMeasure' \in Seq(MeasureMsgs)
         /\ DOMAIN toMeasure' = DOMAIN toMeasure \cup {Len(toMeasure) + 1}
         /\ Len(toMeasure) + 1 \notin DOMAIN toMeasure
         /\ \A i \in DOMAIN toMeasure : toMeasure'[i] = toMeasure[i] /\ i < Len(toMeasure) + 1
         /\ toMeasure'[Len(toMeasure) + 1] = [k |-> k, s |-> s, m |-> m]
         /\ \A c, x : Told(c, x)' <=> Told(c, x) \/ (c = k /\ x = s)
<1> DEFINE e == [k |-> k, s |-> s, m |-> m]
<1>1. toMeasure \in Seq(MeasureMsgs) /\ e \in MeasureMsgs /\ toMeasure' = Append(toMeasure, e)
  BY DEF MeasurementTypeOK, MeasureMsgs, ToAdapter
<1>2. /\ toMeasure' \in Seq(MeasureMsgs)
      /\ DOMAIN toMeasure' = DOMAIN toMeasure \cup {Len(toMeasure) + 1}
      /\ Len(toMeasure) + 1 \notin DOMAIN toMeasure
      /\ \A i \in DOMAIN toMeasure : toMeasure'[i] = toMeasure[i]
      /\ toMeasure'[Len(toMeasure) + 1] = e
  BY <1>1, AppendFacts
<1>3. \A i \in DOMAIN toMeasure : i < Len(toMeasure) + 1
  BY <1>1
<1>4. \A c, x : Told(c, x)' <=> Told(c, x) \/ (c = k /\ x = s)
  BY <1>2 DEF Told
<1> QED  BY <1>2, <1>3, <1>4

LEMMA TakeFacts ==
  ASSUME MeasurementTypeOK, toMeasure # <<>>, toMeasure' = Tail(toMeasure), NEW h, h = Head(toMeasure)
  PROVE  /\ toMeasure' \in Seq(MeasureMsgs) /\ h \in MeasureMsgs
         /\ h = toMeasure[1] /\ 1 \in DOMAIN toMeasure
         /\ \A i \in DOMAIN toMeasure' :
              /\ i \in Nat /\ i + 1 \in DOMAIN toMeasure /\ i + 1 # 1
              /\ toMeasure'[i] = toMeasure[i + 1]
         /\ \A i \in DOMAIN toMeasure : i \in Nat \ {0}
         /\ \A i \in DOMAIN toMeasure :
              i # 1 => /\ i - 1 \in DOMAIN toMeasure' /\ i - 1 + 1 = i
                       /\ toMeasure'[i - 1] = toMeasure[i]
         /\ \A c, x : Told(c, x)' => Told(c, x)
         /\ \A c, x : Told(c, x) => Told(c, x)' \/ (h.k = c /\ h.s = x)
<1>1. toMeasure \in Seq(MeasureMsgs)
  BY DEF MeasurementTypeOK, MeasureMsgs
<1>2. /\ toMeasure' \in Seq(MeasureMsgs) /\ h \in MeasureMsgs
      /\ h = toMeasure[1] /\ 1 \in DOMAIN toMeasure
      /\ \A i \in DOMAIN toMeasure' :
           i + 1 \in DOMAIN toMeasure /\ i + 1 # 1 /\ toMeasure'[i] = toMeasure[i + 1]
      /\ \A i \in DOMAIN toMeasure :
           i # 1 => i - 1 \in DOMAIN toMeasure' /\ toMeasure'[i - 1] = toMeasure[i]
  BY <1>1, TailFacts
<1>3. (\A i \in DOMAIN toMeasure : i \in Nat \ {0}) /\ (\A i \in DOMAIN toMeasure' : i \in Nat)
  BY <1>1, <1>2
<1>4. \A i \in DOMAIN toMeasure : i - 1 + 1 = i
  BY <1>3
<1>5. \A c, x : Told(c, x)' => Told(c, x)
  BY <1>2 DEF Told
<1>6. \A c, x : Told(c, x) => Told(c, x)' \/ (h.k = c /\ h.s = x)
  BY <1>2, ZenonT(40) DEF Told
<1> QED  BY <1>2, <1>3, <1>4, <1>5, <1>6

\* What is sent last changes nothing for a session it does not start.
LEMMA SendKeeps ==
  ASSUME MeasurementTypeOK, NEW k \in {"client", "start", "stop"},
         NEW s \in MeasureIds \cup {NoMeasureId}, NEW m \in Modes, ToAdapter(k, s, m),
         UNCHANGED running
  PROVE  /\ \A x : WillEnd(x) /\ (k = "start" => x # s) => WillEnd(x)'
         /\ \A x \in MeasureIds : k = "stop" /\ x = s => WillEnd(x)'
<1>1. /\ DOMAIN toMeasure' = DOMAIN toMeasure \cup {Len(toMeasure) + 1}
      /\ \A i \in DOMAIN toMeasure : toMeasure'[i] = toMeasure[i] /\ i < Len(toMeasure) + 1
      /\ toMeasure'[Len(toMeasure) + 1] = [k |-> k, s |-> s, m |-> m]
      /\ \A c, x : Told(c, x)' <=> Told(c, x) \/ (c = k /\ x = s)
  BY SendFacts
<1>2. ASSUME NEW x, WillEnd(x), k = "start" => x # s PROVE WillEnd(x)'
  BY <1>1, <1>2 DEF WillEnd
<1>3. ASSUME NEW x \in MeasureIds, k = "stop", x = s PROVE WillEnd(x)'
  BY <1>1, <1>3 DEF WillEnd
<1> QED  BY <1>2, <1>3

LEMMA MeasureInvInit == MeasurementInit => MeasureInv
<1> SUFFICES ASSUME MeasurementInit PROVE MeasureInv
  OBVIOUS
<1>1. /\ toMeasure = <<>> /\ DOMAIN toMeasure = {} /\ registered = NoInterface /\ ~hasSession
      /\ \A s \in MeasureIds : running[s] = NotRunning
  BY DEF MeasurementInit
<1>2. MeasurementTypeOK
  <2>1. NoInterface \in [MeasureVersions -> 0 .. MaxRegistered] /\ 0 \in 0 .. MaxRegistered
    BY MeasurementAssumption DEF NoInterface
  <2>2. toMeasure \in Seq([k : {"client", "start", "stop"}, s : MeasureIds \cup {NoMeasureId},
                           m : Modes])
    BY <1>1
  <2>3. NoReport.k = "nothing" /\ NoReport.to = 0
    BY DEF NoReport
  <2> QED  BY <2>1, <2>2, <2>3 DEF MeasurementInit, MeasurementTypeOK, Modes, NotRunning
<1>3. FormerEnd /\ CurrentRuns /\ CurrentPower
  BY <1>1 DEF FormerEnd, WillEnd, CurrentRuns, CurrentPower
<1>4. RefusedLast /\ CallsInStep /\ OneLate /\ ReportTypes
  BY <1>1 DEF MeasurementInit, RefusedLast, CallsInStep, OneLate, ReportTypes, NoReport,
     MeasureVersions
<1>5. MeasurementsFit
  BY MeasurementAssumption DEF MeasurementInit, MeasurementsFit, NoneTold
<1> QED  BY <1>2, <1>3, <1>4, <1>5 DEF MeasureInv

\* The sessions and what is said of them, and the reports.
SessionInv ==
  FormerEnd /\ CurrentRuns /\ CurrentPower /\ RefusedLast /\ CallsInStep

LEMMA ToldAlone ==
  ASSUME UNCHANGED <<toMeasure, running>>
  PROVE  /\ \A c, x : Told(c, x)' <=> Told(c, x)
         /\ \A x : WillEnd(x)' <=> WillEnd(x)
BY DEF Told, WillEnd

LEMMA SessionsAlone ==
  ASSUME SessionInv, UNCHANGED <<registered, service, powerMode, hasSession, current, toMeasure,
                                 listed, running, refused>>
  PROVE  SessionInv'
<1>1. /\ \A c, x : Told(c, x)' <=> Told(c, x)
      /\ \A x : WillEnd(x)' <=> WillEnd(x)
  BY ToldAlone
<1>2. FormerEnd' /\ CurrentRuns'
  BY <1>1 DEF SessionInv, FormerEnd, CurrentRuns
<1>3. CurrentPower' /\ RefusedLast'
  BY DEF SessionInv, CurrentPower, RefusedLast
<1>4. CallsInStep'
  BY <1>1 DEF SessionInv, CallsInStep
<1> QED  BY <1>2, <1>3, <1>4 DEF SessionInv

LEMMA SetCallbackKeeps ==
  ASSUME MeasureInv, NEW v \in MeasureVersions, NEW full \in BOOLEAN, SetCallback(v, full)
  PROVE  MeasureInv'
<1>1. /\ service = "idle" /\ service' = "start" /\ count' = count + 1 /\ count < MaxRegistered
      /\ registered' = [NoInterface EXCEPT ![v] = count'] /\ client' = registered'
      /\ Replaces \/ registered = NoInterface
      /\ powerMode' \in Modes /\ late' = 0
      /\ UNCHANGED <<measuring, hasSession, current, toMeasure, reporting, listed, running,
                     refused, lastTold>>
  BY DEF SetCallback, MayCall, measuringVars, Modes
<1>2. count \in Nat /\ MaxRegistered \in Nat
  BY MeasurementAssumption DEF MeasureInv, MeasurementTypeOK
<1>3. count' \in 0 .. MaxRegistered /\ count' # 0
  BY <1>1, <1>2
<1>4. /\ registered' \in [MeasureVersions -> 0 .. MaxRegistered]
      /\ registered' # NoInterface
  <2>1. registered'[v] # NoInterface[v]
    BY <1>1, <1>3 DEF NoInterface
  <2> QED  BY <1>1, <1>2, <1>3, <2>1 DEF NoInterface
<1>5. MeasurementTypeOK'
  BY <1>1, <1>3, <1>4 DEF MeasureInv, MeasurementTypeOK
<1>6. /\ \A c, x : Told(c, x)' <=> Told(c, x)
      /\ \A x : WillEnd(x)' <=> WillEnd(x)
  BY <1>1, ToldAlone
<1>7. FormerEnd' /\ CurrentRuns'
  BY <1>1, <1>6 DEF MeasureInv, FormerEnd, CurrentRuns
<1>8. Replaces \/ ~hasSession
  BY <1>1 DEF MeasureInv, CallsInStep
<1>9. CurrentPower' /\ RefusedLast'
  BY <1>1, <1>8 DEF MeasureInv, CurrentPower, RefusedLast
<1>10. CallsInStep'
  BY <1>1, <1>4, <1>6, <1>8 DEF MeasureInv, CallsInStep
<1>11. OneLate' /\ ReportTypes' /\ MeasurementsFit'
  BY <1>1, <1>4 DEF MeasureInv, OneLate, ReportTypes, MeasurementsFit
<1> QED  BY <1>5, <1>7, <1>9, <1>10, <1>11 DEF MeasureInv

LEMMA StartTrackingKeeps ==
  ASSUME MeasureInv, StartTracking
  PROVE  MeasureInv'
<1>1. /\ service = "start" /\ service' = "session" /\ measuring' = TRUE
      /\ ToAdapter("client", NoMeasureId, "default")
      /\ UNCHANGED <<registered, powerMode, count, client, hasSession, current, listed, running,
                     refused, reporting, late, lastTold>>
  BY DEF StartTracking, measuringVars, givenVars
<1>2. MeasurementTypeOK /\ "default" \in Modes
  BY DEF MeasureInv, Modes
<1>3. /\ toMeasure' \in Seq(MeasureMsgs)
      /\ DOMAIN toMeasure' = DOMAIN toMeasure \cup {Len(toMeasure) + 1}
      /\ \A i \in DOMAIN toMeasure : toMeasure'[i] = toMeasure[i]
      /\ toMeasure'[Len(toMeasure) + 1] = [k |-> "client", s |-> NoMeasureId, m |-> "default"]
      /\ \A c, x : Told(c, x)' <=> Told(c, x) \/ (c = "client" /\ x = NoMeasureId)
  BY <1>1, <1>2, SendFacts
<1>4. \A x : WillEnd(x) => WillEnd(x)'
  BY <1>1, <1>2, SendKeeps
<1>5. MeasurementTypeOK'
  BY <1>1, <1>3 DEF MeasureInv, MeasurementTypeOK, MeasureMsgs
<1>6. FormerEnd'
  BY <1>1, <1>4 DEF MeasureInv, FormerEnd
<1>7. CurrentRuns' /\ CurrentPower' /\ RefusedLast'
  <2>1. \A i \in DOMAIN toMeasure' : toMeasure'[i].k = "start" => i \in DOMAIN toMeasure
    BY <1>3
  <2>2. CurrentRuns'
    BY <1>1, <1>3, <2>1 DEF MeasureInv, CurrentRuns
  <2> QED  BY <1>1, <1>3, <2>1, <2>2 DEF MeasureInv, CurrentPower, RefusedLast
<1>8. CallsInStep'
  BY <1>1, <1>3 DEF MeasureInv, CallsInStep
<1>9. OneLate' /\ ReportTypes' /\ MeasurementsFit'
  BY <1>1 DEF MeasureInv, CallsInStep, OneLate, ReportTypes, MeasurementsFit
<1> QED  BY <1>5, <1>6, <1>7, <1>8, <1>9 DEF MeasureInv

LEMMA BeginSessionKeeps ==
  ASSUME MeasureInv, BeginSession
  PROVE  MeasureInv'
<1>1. /\ service = "session" /\ service' = "idle"
      /\ UNCHANGED <<registered, powerMode, count, client, measuring, listed, running, refused,
                     reporting, late, lastTold>>
  BY DEF BeginSession, measuringVars, givenVars
<1>2. OneLate' /\ ReportTypes' /\ MeasurementsFit'
  BY <1>1 DEF MeasureInv, OneLate, ReportTypes, MeasurementsFit
<1>3. CASE hasSession /\ UNCHANGED <<hasSession, current, toMeasure>>
  <2>1. /\ \A c, x : Told(c, x)' <=> Told(c, x)
        /\ \A x : WillEnd(x)' <=> WillEnd(x)
    BY <1>1, <1>3, ToldAlone
  <2>2. MeasurementTypeOK'
    BY <1>1, <1>3 DEF MeasureInv, MeasurementTypeOK
  <2>3. FormerEnd' /\ CurrentRuns' /\ CurrentPower' /\ RefusedLast' /\ CallsInStep'
    BY <1>1, <1>3, <2>1 DEF MeasureInv, FormerEnd, CurrentRuns, CurrentPower, RefusedLast,
       CallsInStep
  <2> QED  BY <1>2, <2>2, <2>3 DEF MeasureInv
<1>4. ASSUME ~hasSession, hasSession' = TRUE, NEW s \in Fresh, current' = s,
             ToAdapter("start", s, powerMode)
      PROVE  MeasureInv'
  <2>1. /\ s \in MeasureIds /\ running[s] = NotRunning /\ s # current
        /\ \A i \in DOMAIN toMeasure : toMeasure[i].s # s
    BY <1>4 DEF Fresh, Running
  <2>2. MeasurementTypeOK /\ powerMode \in Modes
    BY DEF MeasureInv, MeasurementTypeOK
  <2>3. /\ toMeasure' \in Seq(MeasureMsgs)
        /\ DOMAIN toMeasure' = DOMAIN toMeasure \cup {Len(toMeasure) + 1}
        /\ \A i \in DOMAIN toMeasure : toMeasure'[i] = toMeasure[i] /\ i < Len(toMeasure) + 1
        /\ toMeasure'[Len(toMeasure) + 1] = [k |-> "start", s |-> s, m |-> powerMode]
        /\ \A c, x : Told(c, x)' <=> Told(c, x) \/ (c = "start" /\ x = s)
    BY <1>4, <2>1, <2>2, SendFacts
  <2>4. \A x : WillEnd(x) /\ x # s => WillEnd(x)'
    BY <1>1, <1>4, <2>1, <2>2, SendKeeps
  <2>5. MeasurementTypeOK'
    BY <1>1, <1>4, <2>1, <2>3 DEF MeasureInv, MeasurementTypeOK, MeasureMsgs
  <2>6. FormerEnd'
    BY <1>4, <2>4 DEF MeasureInv, FormerEnd
  <2>7. \A i \in DOMAIN toMeasure' :
          toMeasure'[i].s = s => i = Len(toMeasure) + 1
    BY <2>1, <2>3
  <2>8. CurrentRuns'
    <3>1. ~Told("stop", s)' /\ Told("start", s)'
      BY <2>1, <2>3 DEF Told
    <3>2. \A j \in DOMAIN toMeasure' : j <= Len(toMeasure) + 1
      <4>1. toMeasure' \in Seq(MeasureMsgs) /\ Len(toMeasure) \in Nat
        BY <2>2, <2>3 DEF MeasurementTypeOK
      <4> QED  BY <2>3, <4>1
    <3> QED  BY <1>4, <2>1, <2>7, <3>1, <3>2 DEF CurrentRuns
  <2>9. CurrentPower'
    BY <1>1, <1>4, <2>1, <2>3, <2>7 DEF CurrentPower
  <2>10. RefusedLast'
    BY <1>1, <1>4 DEF MeasureInv, RefusedLast
  <2>11. CallsInStep'
    BY <1>1, <1>4, <2>3 DEF MeasureInv, CallsInStep
  <2> QED  BY <1>2, <2>5, <2>6, <2>8, <2>9, <2>10, <2>11 DEF MeasureInv
<1> QED  BY <1>3, <1>4 DEF BeginSession

LEMMA CloseKeeps ==
  ASSUME MeasureInv, Close
  PROVE  MeasureInv'
<1>1. /\ service = "idle" /\ service' = "stop" /\ registered' = NoInterface /\ measuring' = FALSE
      /\ late' = 0
      /\ UNCHANGED <<powerMode, count, client, hasSession, current, toMeasure, listed, running,
                     refused, reporting, lastTold>>
  BY DEF Close, MayCall, measuringVars
<1>2. MeasurementTypeOK'
  <2>1. NoInterface \in [MeasureVersions -> 0 .. MaxRegistered]
    BY MeasurementAssumption DEF NoInterface
  <2> QED  BY <1>1, <2>1 DEF MeasureInv, MeasurementTypeOK
<1>3. /\ \A c, x : Told(c, x)' <=> Told(c, x)
      /\ \A x : WillEnd(x)' <=> WillEnd(x)
  BY <1>1, ToldAlone
<1>4. FormerEnd' /\ CurrentRuns' /\ CurrentPower' /\ RefusedLast' /\ CallsInStep'
  BY <1>1, <1>3 DEF MeasureInv, FormerEnd, CurrentRuns, CurrentPower, RefusedLast, CallsInStep
<1>5. OneLate' /\ ReportTypes' /\ MeasurementsFit'
  BY <1>1 DEF MeasureInv, OneLate, ReportTypes, MeasurementsFit
<1> QED  BY <1>2, <1>4, <1>5 DEF MeasureInv

LEMMA EndSessionKeeps ==
  ASSUME MeasureInv, EndSession
  PROVE  MeasureInv'
<1>1. /\ service = "stop" /\ service' = "idle" /\ refused' = FALSE
      /\ UNCHANGED <<registered, powerMode, count, client, measuring, current, listed, running,
                     reporting, late, lastTold>>
  BY DEF EndSession, givenVars
<1>2. OneLate' /\ ReportTypes' /\ MeasurementsFit' /\ RefusedLast'
  BY <1>1 DEF MeasureInv, OneLate, ReportTypes, MeasurementsFit, RefusedLast
<1>3. registered = NoInterface /\ MeasurementTypeOK /\ "default" \in Modes
  BY <1>1 DEF MeasureInv, CallsInStep, Modes
<1>4. CASE current # NoMeasureId /\ ToAdapter("stop", current, "default") /\ hasSession' = FALSE
  <2>1. current \in MeasureIds
    BY <1>3, <1>4 DEF MeasurementTypeOK
  <2>2. /\ toMeasure' \in Seq(MeasureMsgs)
        /\ \A c, x : Told(c, x)' <=> Told(c, x) \/ (c = "stop" /\ x = current)
    BY <1>3, <1>4, <2>1, SendFacts
  <2>3. /\ \A x : WillEnd(x) => WillEnd(x)'
        /\ WillEnd(current)'
    BY <1>1, <1>3, <1>4, <2>1, SendKeeps
  <2>4. MeasurementTypeOK'
    BY <1>1, <1>4, <2>2 DEF MeasureInv, MeasurementTypeOK, MeasureMsgs
  <2>5. FormerEnd'
    BY <1>1, <2>3 DEF MeasureInv, FormerEnd
  <2>6. CurrentRuns' /\ CurrentPower'
    BY <1>4 DEF CurrentRuns, CurrentPower
  <2>7. CallsInStep'
    BY <1>1, <1>3, <1>4 DEF CallsInStep
  <2> QED  BY <1>2, <2>4, <2>5, <2>6, <2>7 DEF MeasureInv
<1>5. CASE current = NoMeasureId /\ UNCHANGED <<toMeasure, hasSession>>
  <2>1. ~hasSession
    BY <1>5, MeasurementAssumption DEF MeasureInv, CurrentRuns
  <2>2. \A x : WillEnd(x)' <=> WillEnd(x)
    BY <1>1, <1>5, ToldAlone
  <2>3. MeasurementTypeOK'
    BY <1>1, <1>5 DEF MeasureInv, MeasurementTypeOK
  <2>4. FormerEnd' /\ CurrentRuns' /\ CurrentPower' /\ CallsInStep'
    BY <1>1, <1>3, <1>5, <2>1, <2>2 DEF MeasureInv, FormerEnd, CurrentRuns, CurrentPower,
       CallsInStep
  <2> QED  BY <1>2, <2>3, <2>4 DEF MeasureInv
<1> QED  BY <1>4, <1>5 DEF EndSession

\* What the adapter takes leaves a session that ends, unless it is started there.
LEMMA TakeKeeps ==
  ASSUME MeasureInv, toMeasure # <<>>, toMeasure' = Tail(toMeasure), NEW h, h = Head(toMeasure),
         NEW x \in MeasureIds, WillEnd(x),
         running'[x] = running[x] \/ running'[x] = NotRunning \/ (h.k = "start" /\ h.s = x),
         h.k = "stop" /\ h.s = x => running'[x] = NotRunning
  PROVE  WillEnd(x)'
<1>1. MeasurementTypeOK
  BY DEF MeasureInv
<1>2. /\ h = toMeasure[1] /\ 1 \in DOMAIN toMeasure
      /\ \A i \in DOMAIN toMeasure' :
           /\ i \in Nat /\ i + 1 \in DOMAIN toMeasure /\ i + 1 # 1
           /\ toMeasure'[i] = toMeasure[i + 1]
      /\ \A i \in DOMAIN toMeasure : i \in Nat \ {0}
      /\ \A i \in DOMAIN toMeasure :
           i # 1 => /\ i - 1 \in DOMAIN toMeasure' /\ i - 1 + 1 = i
                    /\ toMeasure'[i - 1] = toMeasure[i]
      /\ \A c, y : Told(c, y) => Told(c, y)' \/ (h.k = c /\ h.s = y)
  BY <1>1, TakeFacts
<1>3. ASSUME NEW i \in DOMAIN toMeasure, toMeasure[i].k = "start", toMeasure[i].s = x
      PROVE  \E j \in DOMAIN toMeasure' :
               i - 1 < j /\ toMeasure'[j].k = "stop" /\ toMeasure'[j].s = x
  <2>1. PICK j \in DOMAIN toMeasure : i < j /\ toMeasure[j].k = "stop" /\ toMeasure[j].s = x
    BY <1>3 DEF WillEnd
  <2>2. i \in Nat \ {0} /\ j \in Nat
    BY <1>2
  <2>3. j # 1
    BY <2>1, <2>2
  <2>4. j - 1 \in DOMAIN toMeasure' /\ toMeasure'[j - 1] = toMeasure[j] /\ i - 1 < j - 1
    BY <1>2, <2>1, <2>2, <2>3
  <2> QED  BY <2>1, <2>4
<1>4. ASSUME NEW i \in DOMAIN toMeasure', toMeasure'[i].k = "start", toMeasure'[i].s = x
      PROVE  \E j \in DOMAIN toMeasure' :
               i < j /\ toMeasure'[j].k = "stop" /\ toMeasure'[j].s = x
  <2>1. i \in Nat /\ i + 1 \in DOMAIN toMeasure /\ toMeasure'[i] = toMeasure[i + 1]
    BY <1>2
  <2>2. i + 1 - 1 = i
    BY <2>1
  <2> QED  BY <1>3, <1>4, <2>1, <2>2
<1>5. ASSUME running'[x] # NotRunning PROVE Told("stop", x)'
  <2>1. CASE h.k = "start" /\ h.s = x
    <3>1. \E j \in DOMAIN toMeasure' : toMeasure'[j].k = "stop" /\ toMeasure'[j].s = x
      BY <1>2, <1>3, <2>1
    <3> QED  BY <3>1 DEF Told
  <2>2. CASE ~(h.k = "start" /\ h.s = x)
    <3>1. running[x] # NotRunning
      BY <1>5, <2>2
    <3>2. Told("stop", x)
      BY <3>1 DEF WillEnd
    <3> QED  BY <1>2, <1>5, <3>2
  <2> QED  BY <2>1, <2>2
<1> QED  BY <1>4, <1>5 DEF WillEnd

LEMMA AdapterTakesKeeps ==
  ASSUME MeasureInv, AdapterTakes
  PROVE  MeasureInv'
<1> DEFINE h == Head(toMeasure)
<1>1. /\ toMeasure # <<>> /\ toMeasure' = Tail(toMeasure)
      /\ TakeClient(h) \/ TakeStart(h) \/ TakeStop(h)
      /\ UNCHANGED <<registered, service, powerMode, count, client, measuring, hasSession, current,
                     reporting, late, lastTold>>
  BY DEF AdapterTakes, serviceVars, clientVars, givenVars
<1>2. MeasurementTypeOK
  BY DEF MeasureInv
<1>3. /\ toMeasure' \in Seq(MeasureMsgs) /\ h \in MeasureMsgs
      /\ h = toMeasure[1] /\ 1 \in DOMAIN toMeasure
      /\ \A i \in DOMAIN toMeasure' :
           /\ i \in Nat /\ i + 1 \in DOMAIN toMeasure /\ i + 1 # 1
           /\ toMeasure'[i] = toMeasure[i + 1]
      /\ \A c, x : Told(c, x)' => Told(c, x)
      /\ \A c, x : Told(c, x) => Told(c, x)' \/ (h.k = c /\ h.s = x)
  BY <1>1, <1>2, TakeFacts
<1>4. OneLate' /\ ReportTypes' /\ MeasurementsFit'
  BY <1>1 DEF MeasureInv, OneLate, ReportTypes, MeasurementsFit
<1>5. /\ h.k \in {"client", "start", "stop"} /\ h.m \in Modes
      /\ h.s \in MeasureIds \cup {NoMeasureId}
  BY <1>3 DEF MeasureMsgs
<1>6. Told(h.k, h.s)
  BY <1>3 DEF Told
<1>7. hasSession => ~(h.k = "stop" /\ h.s = current)
  BY <1>6 DEF MeasureInv, CurrentRuns
<1>8. ASSUME hasSession
      PROVE  /\ ~Told("stop", current)'
             /\ \A i, j \in DOMAIN toMeasure' :
                  /\ toMeasure'[i].k = "start" /\ toMeasure'[i].s = current
                  /\ toMeasure'[j].k = "start"
                  => j <= i
             /\ h.k = "start" /\ h.s = current =>
                  \A i \in DOMAIN toMeasure' : toMeasure'[i].k # "start"
  <2>1. \A i, j \in DOMAIN toMeasure :
          toMeasure[i].k = "start" /\ toMeasure[i].s = current /\ toMeasure[j].k = "start" => j <= i
    BY <1>8 DEF MeasureInv, CurrentRuns
  <2>2. ASSUME NEW i \in DOMAIN toMeasure', NEW j \in DOMAIN toMeasure',
               toMeasure'[i].k = "start", toMeasure'[i].s = current, toMeasure'[j].k = "start"
        PROVE  j <= i
    <3>1. i \in Nat /\ j \in Nat /\ j + 1 <= i + 1
      BY <1>3, <2>1, <2>2
    <3> QED  BY <3>1
  <2>3. ASSUME h.k = "start", h.s = current, NEW i \in DOMAIN toMeasure', toMeasure'[i].k = "start"
        PROVE  FALSE
    <3>1. i \in Nat /\ i + 1 <= 1 /\ i + 1 # 1
      BY <1>3, <2>1, <2>3
    <3> QED  BY <3>1
  <2>4. ~Told("stop", current)'
    BY <1>1, <1>3, <1>8 DEF MeasureInv, CurrentRuns
  <2> QED  BY <2>2, <2>3, <2>4
<1>9. ASSUME hasSession, ~Replaces
      PROVE  \A i \in DOMAIN toMeasure' :
               toMeasure'[i].k = "start" /\ toMeasure'[i].s = current => toMeasure'[i].m = powerMode
  BY <1>3, <1>9 DEF MeasureInv, CurrentPower
<1>10. refused => /\ hasSession /\ h.k # "start"
                  /\ \A i \in DOMAIN toMeasure' : toMeasure'[i].k # "start"
  BY <1>3 DEF MeasureInv, RefusedLast
<1>11. running \in [MeasureIds -> Modes \cup {NotRunning}]
  BY <1>2 DEF MeasurementTypeOK
<1>12. hasSession => /\ current \in MeasureIds
                     /\ running[current] # NotRunning \/ Told("start", current) \/ refused
  BY DEF MeasureInv, CurrentRuns
<1>13. CASE TakeClient(h)
  <2>1. h.k = "client" /\ listed' = TRUE /\ running' = running /\ refused' = refused
    BY <1>13 DEF TakeClient
  <2>2. MeasurementTypeOK'
    BY <1>1, <1>2, <1>3, <2>1 DEF MeasurementTypeOK, MeasureMsgs
  <2>3. FormerEnd'
    BY <1>1, <2>1, TakeKeeps DEF MeasureInv, FormerEnd
  <2>4. CurrentRuns'
    BY <1>1, <1>3, <1>8, <1>12, <2>1 DEF CurrentRuns
  <2>5. CurrentPower' /\ RefusedLast'
    BY <1>1, <1>9, <1>10, <2>1 DEF MeasureInv, CurrentPower, RefusedLast
  <2>6. CallsInStep'
    BY <1>1, <2>1 DEF MeasureInv, CallsInStep
  <2> QED  BY <1>4, <2>2, <2>3, <2>4, <2>5, <2>6 DEF MeasureInv
<1>14. ASSUME TakeStart(h), running' = [running EXCEPT ![h.s] = h.m], refused' = refused
       PROVE  MeasureInv'
  <2>1. h.k = "start" /\ listed' = listed
    BY <1>14 DEF TakeStart
  <2>2. /\ running' \in [MeasureIds -> Modes \cup {NotRunning}]
        /\ \A x \in MeasureIds : x # h.s => running'[x] = running[x]
        /\ \A x \in MeasureIds : x = h.s => running'[x] = h.m
    BY <1>5, <1>11, <1>14
  <2>3. h.m # NotRunning
    BY <1>5 DEF Modes, NotRunning
  <2>4. MeasurementTypeOK'
    BY <1>1, <1>2, <1>3, <1>14, <2>1, <2>2 DEF MeasurementTypeOK, MeasureMsgs
  <2>5. FormerEnd'
    BY <1>1, <2>1, <2>2, TakeKeeps DEF MeasureInv, FormerEnd
  <2>6. CurrentRuns'
    BY <1>1, <1>3, <1>8, <1>12, <1>14, <2>2, <2>3 DEF CurrentRuns
  <2>7. CurrentPower'
    <3>1. ASSUME hasSession, ~Replaces PROVE running'[current] \in {NotRunning, powerMode}
      BY <1>3, <1>12, <2>1, <2>2, <3>1 DEF MeasureInv, CurrentPower
    <3> QED  BY <1>1, <1>9, <3>1 DEF CurrentPower
  <2>8. RefusedLast'
    BY <1>1, <1>10, <1>14 DEF RefusedLast
  <2>9. CallsInStep'
    BY <1>1, <1>3, <2>1 DEF MeasureInv, CallsInStep
  <2> QED  BY <1>4, <2>4, <2>5, <2>6, <2>7, <2>8, <2>9 DEF MeasureInv
<1>15. ASSUME TakeStart(h), running' = running, refused' = (h.s = current /\ hasSession)
       PROVE  MeasureInv'
  <2>1. h.k = "start" /\ listed' = listed /\ ~refused
    BY <1>10, <1>15 DEF TakeStart
  <2>2. MeasurementTypeOK'
    BY <1>1, <1>2, <1>3, <1>15, <2>1 DEF MeasurementTypeOK, MeasureMsgs
  <2>3. FormerEnd'
    BY <1>1, <1>15, TakeKeeps, <2>1 DEF MeasureInv, FormerEnd
  <2>4. CurrentRuns'
    BY <1>1, <1>3, <1>8, <1>12, <1>15, <2>1 DEF CurrentRuns
  <2>5. CurrentPower'
    BY <1>1, <1>9, <1>15 DEF MeasureInv, CurrentPower
  <2>6. RefusedLast'
    BY <1>1, <1>8, <1>15, <2>1 DEF RefusedLast
  <2>7. CallsInStep'
    BY <1>1, <1>3, <2>1 DEF MeasureInv, CallsInStep
  <2> QED  BY <1>4, <2>2, <2>3, <2>4, <2>5, <2>6, <2>7 DEF MeasureInv
<1>16. CASE TakeStop(h)
  <2>1. /\ h.k = "stop" /\ running' = [running EXCEPT ![h.s] = NotRunning]
        /\ listed' = listed /\ refused' = refused
    BY <1>16 DEF TakeStop
  <2>2. /\ running' \in [MeasureIds -> Modes \cup {NotRunning}]
        /\ \A x \in MeasureIds : x # h.s => running'[x] = running[x]
        /\ \A x \in MeasureIds : x = h.s => running'[x] = NotRunning
    BY <1>11, <2>1
  <2>3. MeasurementTypeOK'
    BY <1>1, <1>2, <1>3, <2>1, <2>2 DEF MeasurementTypeOK, MeasureMsgs
  <2>4. FormerEnd'
    BY <1>1, <2>1, <2>2, TakeKeeps DEF MeasureInv, FormerEnd
  <2>5. hasSession => running'[current] = running[current]
    BY <1>7, <1>12, <2>1, <2>2
  <2>6. CurrentRuns'
    BY <1>1, <1>3, <1>8, <1>12, <2>1, <2>5 DEF CurrentRuns
  <2>7. CurrentPower' /\ RefusedLast'
    BY <1>1, <1>9, <1>10, <2>1, <2>5 DEF MeasureInv, CurrentPower, RefusedLast
  <2>8. CallsInStep'
    BY <1>1, <1>3, <2>1 DEF MeasureInv, CallsInStep
  <2> QED  BY <1>4, <2>3, <2>4, <2>6, <2>7, <2>8 DEF MeasureInv
<1> QED  BY <1>1, <1>13, <1>14, <1>15, <1>16 DEF TakeStart

LEMMA ReportKeepsMeasures ==
  ASSUME MeasureInv, NEW n \in Notifications, ReportMeasurements(n)
  PROVE  MeasureInv'
<1>1. /\ reporting = NoReport /\ measuring
      /\ reporting' = [NoReport EXCEPT !.k = "checked", !.n = n]
      /\ UNCHANGED <<registered, service, powerMode, count, client, measuring, hasSession, current,
                     listed, running, refused, toMeasure, late, lastTold>>
  BY DEF ReportMeasurements, serviceVars, clientVars, measuringVars
<1>2. /\ reporting'.k = "checked" /\ reporting'.n = n /\ reporting'.to = 0
      /\ reporting'.v = "1_0"
  BY <1>1 DEF NoReport
<1>3. MeasurementTypeOK'
  BY <1>1, <1>2, MeasurementAssumption DEF MeasureInv, MeasurementTypeOK
<1>4. SessionInv'
  BY <1>1, SessionsAlone DEF MeasureInv, SessionInv
<1>5. OneLate' /\ ReportTypes' /\ MeasurementsFit'
  BY <1>1, <1>2 DEF MeasureInv, OneLate, ReportTypes, MeasurementsFit, MeasureVersions
<1> QED  BY <1>3, <1>4, <1>5 DEF MeasureInv, SessionInv

LEMMA ChooseKeeps ==
  ASSUME MeasureInv, ChooseInterface
  PROVE  MeasureInv'
<1>1. /\ reporting.k = "checked"
      /\ UNCHANGED <<registered, service, powerMode, count, client, measuring, hasSession, current,
                     listed, running, refused, toMeasure, late, lastTold>>
  BY DEF ChooseInterface, serviceVars, clientVars, measuringVars
<1>2. SessionInv' /\ MeasurementsFit'
  BY <1>1, SessionsAlone DEF MeasureInv, SessionInv, MeasurementsFit
<1>3. client \in [MeasureVersions -> 0 .. MaxRegistered] /\ reporting.n \in Notifications
  BY <1>1 DEF MeasureInv, MeasurementTypeOK, ReportTypes
<1>4. ASSUME NEW v \in MeasureVersions,
             reporting' = [reporting EXCEPT !.k = "chosen", !.v = v, !.to = client[v]]
      PROVE  MeasureInv'
  <2>1. /\ reporting'.k = "chosen" /\ reporting'.v = v /\ reporting'.to = client[v]
        /\ reporting'.n = reporting.n
    BY <1>4
  <2>2. MeasurementTypeOK' /\ ReportTypes'
    BY <1>1, <1>3, <2>1 DEF MeasureInv, MeasurementTypeOK, ReportTypes
  <2>3. OneLate'
    BY <1>1, <2>1 DEF MeasureInv, OneLate
  <2> QED  BY <1>2, <2>2, <2>3 DEF MeasureInv, SessionInv
<1>5. CASE reporting' = NoReport
  <2>1. reporting'.k = "nothing" /\ reporting'.to = 0 /\ reporting'.v = "1_0"
    BY <1>5 DEF NoReport
  <2>2. MeasurementTypeOK' /\ ReportTypes' /\ OneLate'
    BY <1>1, <2>1, MeasurementAssumption DEF MeasureInv, MeasurementTypeOK, ReportTypes, OneLate,
       MeasureVersions
  <2> QED  BY <1>2, <2>2 DEF MeasureInv, SessionInv
<1> QED  BY <1>4, <1>5 DEF ChooseInterface, MeasureVersions

\* What each version tells of measurements.
LEMMA DataFits ==
  ASSUME NEW v \in MeasureVersions, NEW n \in Notifications
  PROVE  /\ Data(v, n).facts \subseteq n.facts /\ Data(v, n).count <= n.count
         /\ v = "1_0" => Data(v, n).count <= SvsCount
         /\ v = "2_1" => Data(v, n) = n
<1>1. /\ n.count \in Nat /\ n.facts \subseteq Facts /\ n = [count |-> n.count, facts |-> n.facts]
      /\ SvsCount \in Nat
  BY MeasurementAssumption
<1>2. CASE v = "1_0"
  <2>1. Data(v, n) = Data_1_0(n)
    BY <1>2 DEF Data
  <2> QED  BY <1>1, <1>2, <2>1 DEF Data_1_0, Measurement, Clock
<1>3. CASE v = "1_1"
  <2>1. Data(v, n) = Data_1_1(n)
    BY <1>3 DEF Data
  <2> QED  BY <1>1, <1>3, <2>1 DEF Data_1_1, Measurement, AdrState, Clock
<1>4. CASE v = "2_0"
  <2>1. Data(v, n) = Data_2_0(n)
    BY <1>4 DEF Data
  <2> QED  BY <1>1, <1>4, <2>1 DEF Data_2_0, Measurement, Constellation, CodeType, AdrState, State,
     Clock, ElapsedRealtime
<1>5. CASE v = "2_1"
  <2>1. Data(v, n) = Data_2_1(n)
    BY <1>5 DEF Data
  <2>2. Data_2_1(n).facts = n.facts /\ Data_2_1(n).count = n.count
    BY <1>1 DEF Data_2_1, Measurement, Constellation, CodeType, AdrState, State, Biases, Clock_2_1,
       Clock, ElapsedRealtime, Facts
  <2>3. Data_2_1(n) = [count |-> Data_2_1(n).count, facts |-> Data_2_1(n).facts]
    BY DEF Data_2_1
  <2> QED  BY <1>1, <1>5, <2>1, <2>2, <2>3
<1> QED  BY <1>2, <1>3, <1>4, <1>5 DEF MeasureVersions

LEMMA GiveKeeps ==
  ASSUME MeasureInv, GiveMeasurements
  PROVE  MeasureInv'
<1>1. /\ reporting.k = "chosen" /\ reporting' = NoReport
      /\ lastTold' = [v |-> reporting.v, n |-> reporting.n,
                      data |-> Data(reporting.v, reporting.n)]
      /\ UNCHANGED <<registered, service, powerMode, count, client, measuring, hasSession, current,
                     listed, running, refused, toMeasure>>
  BY DEF GiveMeasurements, serviceVars, clientVars, measuringVars
<1>2. reporting'.k = "nothing" /\ reporting'.to = 0 /\ reporting'.v = "1_0"
  BY <1>1 DEF NoReport
<1>3. reporting.v \in MeasureVersions /\ reporting.n \in Notifications /\ late \in Nat
  BY <1>1 DEF MeasureInv, ReportTypes, MeasurementTypeOK
<1>4. late' \in Nat /\ late' <= 1
  <2>1. CASE late = 1
    BY <1>1, <1>3, <2>1 DEF MeasureInv, OneLate, GiveMeasurements
  <2>2. CASE late # 1
    BY <1>3, <2>2 DEF MeasureInv, OneLate, GiveMeasurements
  <2> QED  BY <2>1, <2>2
<1>5. MeasurementTypeOK'
  BY <1>1, <1>2, <1>4, MeasurementAssumption DEF MeasureInv, MeasurementTypeOK
<1>6. SessionInv'
  BY <1>1, SessionsAlone DEF MeasureInv, SessionInv
<1>7. OneLate' /\ ReportTypes'
  BY <1>1, <1>2, <1>4 DEF MeasureInv, OneLate, ReportTypes, MeasureVersions
<1>8. MeasurementsFit'
  <2>1. /\ lastTold'.v = reporting.v /\ lastTold'.n = reporting.n
        /\ lastTold'.data = Data(reporting.v, reporting.n)
    BY <1>1
  <2> QED  BY <1>3, <2>1, DataFits DEF MeasurementsFit
<1> QED  BY <1>5, <1>6, <1>7, <1>8 DEF MeasureInv, SessionInv

LEMMA MeasureInvStep == MeasureInv /\ [MeasurementNext]_measureVars => MeasureInv'
<1> SUFFICES ASSUME MeasureInv, [MeasurementNext]_measureVars PROVE MeasureInv'
  OBVIOUS
<1>1. CASE UNCHANGED measureVars
  <2>1. UNCHANGED <<registered, service, powerMode, count, client, measuring, hasSession, current,
                    listed, running, refused, toMeasure, reporting, late, lastTold>>
    BY <1>1 DEF measureVars, serviceVars, clientVars, measuringVars, givenVars
  <2>2. SessionInv'
    BY <2>1, SessionsAlone DEF MeasureInv, SessionInv
  <2> QED  BY <2>1, <2>2 DEF MeasureInv, SessionInv, MeasurementTypeOK, OneLate, ReportTypes,
     MeasurementsFit
<1>2. ASSUME NEW v \in MeasureVersions, NEW full \in BOOLEAN, SetCallback(v, full)
      PROVE  MeasureInv'
  BY <1>2, SetCallbackKeeps
<1>3. CASE StartTracking \/ BeginSession
  BY <1>3, StartTrackingKeeps, BeginSessionKeeps
<1>4. CASE Close \/ EndSession
  BY <1>4, CloseKeeps, EndSessionKeeps
<1>5. CASE AdapterTakes
  BY <1>5, AdapterTakesKeeps
<1>6. ASSUME NEW n \in Notifications, ReportMeasurements(n) PROVE MeasureInv'
  BY <1>6, ReportKeepsMeasures
<1>7. CASE ChooseInterface \/ GiveMeasurements
  BY <1>7, ChooseKeeps, GiveKeeps
<1> QED  BY <1>1, <1>2, <1>3, <1>4, <1>5, <1>6, <1>7 DEF MeasurementNext

LEMMA MeasureInvHolds == MeasurementSpec => []MeasureInv
BY MeasureInvInit, MeasureInvStep, PTL DEF MeasurementSpec

LEMMA MeasureInvFollows == MeasureInv => MeasurementsFollow /\ (~Replaces => PowerFollows)
<1> SUFFICES ASSUME MeasureInv, service = "idle", toMeasure = <<>>, ~refused
             PROVE  /\ IF registered = NoInterface THEN Running = {}
                       ELSE Running = {current} /\ listed
                    /\ ~Replaces /\ registered # NoInterface => running[current] = powerMode
  BY DEF MeasurementsFollow, PowerFollows
<1>1. \A c, x : ~Told(c, x)
  BY DEF Told
<1>2. hasSession <=> registered # NoInterface
  BY DEF MeasureInv, CallsInStep
<1>3. \A s \in MeasureIds : s # current \/ ~hasSession => running[s] = NotRunning
  BY <1>1 DEF MeasureInv, FormerEnd, WillEnd
<1>4. hasSession => /\ current \in MeasureIds /\ running[current] # NotRunning /\ listed
                    /\ ~Replaces => running[current] = powerMode
  BY <1>1 DEF MeasureInv, CurrentRuns, CurrentPower, CallsInStep
<1> QED  BY <1>2, <1>3, <1>4 DEF Running

\* In whatever order calls, answers and refusals come, once nothing is under way the
\* adapter runs exactly the session of the callback that the framework has registered,
\* and none when it has closed.
THEOREM MeasurementsAlwaysFollow == MeasurementSpec => []MeasurementsFollow
BY MeasureInvHolds, MeasureInvFollows, PTL

\* It does so in the power mode that came with the callback, as long as no callback of
\* another version comes without a close.
THEOREM PowerAlwaysFollows ==
  ASSUME ~Replaces
  PROVE  MeasurementSpec => []PowerFollows
BY MeasureInvHolds, MeasureInvFollows, PTL

\* A callback that was closed or replaced is told once more at most, and each is told of
\* measurements what its version can say.
THEOREM MeasurementsAlwaysFit == MeasurementSpec => [](FewLateMeasurements /\ MeasurementsFit)
<1>1. MeasureInv => FewLateMeasurements /\ MeasurementsFit
  BY DEF MeasureInv, OneLate, FewLateMeasurements
<1> QED  BY MeasureInvHolds, <1>1, PTL
=============================================================================
