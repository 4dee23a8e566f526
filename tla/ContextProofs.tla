---------------------------- MODULE ContextProofs ----------------------------
(***************************************************************************)
(* Proofs about what LocContext holds for all adapters: the observer of    *)
(* the system and the masks of events that LocApiBase joins.               *)
(*                                                                         *)
(* First SystemStatus, for all networks, items, listeners, sizes           *)
(* and bounds.                                                             *)
(*                                                                         *)
(* The two maps of subscriptions stay inverse to each other.  That the     *)
(* framework reports what somebody wants needs the order of the queue: a   *)
(* request subscribes without telling the framework, which does no harm    *)
(* because the XTRA observer wants every item before the framework is      *)
(* known, and never leaves.                                                *)
(*                                                                         *)
(* The table of the last report follows the networks of the framework with *)
(* the delay of the queue: the queued reports of a network say up and down *)
(* in turn, the first of them says what the table does not yet say, and    *)
(* the last of them what the framework has.                                *)
(*                                                                         *)
(* Then EventMask, for all clients, callbacks, configurations and          *)
(* bounds.                                                                 *)
(*                                                                         *)
(* Two queues lie between what is wanted and what the modem reports.  The  *)
(* masks of the adapters are ahead of the modem only while an open is      *)
(* under way, which reads them when it is handled; a modem that is down    *)
(* has an open of its own under way, behind which the adapters learn that  *)
(* the engine is up; and the wishes of the hub, which are taken as toggles *)
(* of a bit, say yes and no in turn.                                       *)
(*                                                                         *)
(* Last Configuration, for all values, items, commands and bounds, where   *)
(* commands do not overlap as a theorem names it.                          *)
(*                                                                         *)
(* The modem is behind the calls that are queued with the values of their  *)
(* moment.  For each item, what the modem has will have been overwritten   *)
(* by the last of these, and that is the value the adapter has now; while  *)
(* the modem is down, or its restart not yet handled, the injection that   *)
(* will come makes up for all that is lost.                                *)
(***************************************************************************)
EXTENDS SystemStatus, EventMask, Configuration, FiniteSetTheorems, FunctionTheorems,
        SequenceTheorems, TLAPS

Asking == {"subscribe", "request", "unsubscribe", "unsubscribeAll"}

IsReport(r) == r.up \in BOOLEAN /\ r.net \in Networks /\ r = NetworkReport(r.up, r.net)
AboutNetwork(t) == t.kind = "notify" /\ t.what = {"network"}
WellFormed(t) ==
  /\ t.kind \in Asking => t.who \in Observers /\ t.what \subseteq FrameworkItems
  /\ t.kind \in {"unsubscribe", "unsubscribeAll"} => t.who # "xtra"
  /\ t.kind = "notify" => \E i \in DataItems : t.what = {i}

TasksFormed ==
  /\ tasks \in Seq(Range(tasks))
  /\ \A k \in DOMAIN tasks : WellFormed(tasks[k])

\* The XTRA observer listens to every item, or will before the framework is known.
XtraAsks(t, i) == t.kind \in {"subscribe", "request"} /\ t.who = "xtra" /\ i \in t.what
XtraListens ==
  \A i \in FrameworkItems :
    \/ "xtra" \in listeners[i]
    \/ /\ ~subscriptionObj
       /\ \E k \in DOMAIN tasks :
            /\ XtraAsks(tasks[k], i)
            /\ \A j \in DOMAIN tasks : tasks[j].kind = "setObject" => k < j

MapsInv ==
  /\ TasksFormed
  /\ XtraListens
  /\ listeners \in [FrameworkItems -> SUBSET Observers]
  /\ wants \in [Observers -> SUBSET FrameworkItems]
  /\ fwItems \subseteq FrameworkItems
  /\ \A c \in Observers, i \in FrameworkItems : i \in wants[c] <=> c \in listeners[i]
  /\ MapsInverse

\* The table that the next report is collated with.
Table == IF history = <<>> THEN <<>> ELSE Last(history).table
TableReports == [up : BOOLEAN, net : Networks, types : SUBSET Types(Networks),
                 table : Seq(Networks)]

\* The queued reports on network n, in their order.
On(k, n) == AboutNetwork(tasks[k]) /\ tasks[k].value.net = n
Ups(k) == tasks[k].value.up
First(k, n) == On(k, n) /\ \A j \in DOMAIN tasks : On(j, n) => k <= j
Final(k, n) == On(k, n) /\ \A j \in DOMAIN tasks : On(j, n) => j <= k
Follows(k, j, n) ==
  j < k /\ On(j, n) /\ On(k, n) /\ \A i \in DOMAIN tasks : On(i, n) => i <= j \/ k <= i

Turn(n) ==
  /\ \A k \in DOMAIN tasks : First(k, n) => (Ups(k) <=> n \notin Range(Table))
  /\ \A j, k \in DOMAIN tasks : Follows(k, j, n) => (Ups(k) <=> ~Ups(j))
  /\ \A k \in DOMAIN tasks : Final(k, n) => (Ups(k) <=> n \in link)
  /\ (\A k \in DOMAIN tasks : ~On(k, n)) => (n \in Range(Table) <=> n \in link)

ReportsFormed == \A k \in DOMAIN tasks : AboutNetwork(tasks[k]) => IsReport(tasks[k].value)

NetworksInv ==
  /\ TasksFormed
  /\ ReportsFormed
  /\ resetAt = 0
  /\ link \subseteq Networks
  /\ history \in Seq(TableReports)
  /\ history # <<>> => Last(history).types = Types(Range(Table))
  /\ IsInjective(Table)
  /\ \A n \in Networks : Turn(n)

-----------------------------------------------------------------------------
(***************************************************************************)
(* The queue.                                                              *)
(***************************************************************************)
IsSequence(q) == q \in Seq(Range(q))

LEMMA QueueOf ==
  ASSUME NEW S, NEW q \in Seq(S)
  PROVE  IsSequence(q)
BY SeqOfRange DEF IsSequence

\* The queue r is q with t at its end; r is q without its head and with a at its end.
Longer(r, q, t) ==
  /\ IsSequence(r) /\ Len(q) \in Nat
  /\ DOMAIN q = 1 .. Len(q) /\ DOMAIN r = 1 .. Len(q) + 1
  /\ \A k \in DOMAIN q : r[k] = q[k]
  /\ r[Len(q) + 1] = t
Moved(r, q, a) ==
  /\ IsSequence(r) /\ Len(q) \in Nat /\ Len(a) \in Nat /\ Len(q) > 0
  /\ DOMAIN q = 1 .. Len(q) /\ DOMAIN a = 1 .. Len(a)
  /\ DOMAIN r = 1 .. (Len(q) - 1) + Len(a)
  /\ \A k \in 1 .. Len(q) - 1 : r[k] = q[k + 1]
  /\ \A k \in 1 .. Len(a) : r[(Len(q) - 1) + k] = a[k]
  /\ Head(q) = q[1]

LEMMA Appended ==
  ASSUME NEW q, IsSequence(q), NEW t, NEW r, r = Append(q, t)
  PROVE  Longer(r, q, t)
<1> DEFINE S == Range(q) \cup {t}
<1>1. q \in Seq(Range(q))
  BY DEF IsSequence
<1>2. q \in Seq(S) /\ t \in S
  BY <1>1, SeqMonotonic
<1> HIDE DEF S
<1>3. r \in Seq(S)
  BY <1>2
<1>4. IsSequence(r)
  BY <1>3, QueueOf
<1> QED  BY <1>2, <1>3, <1>4 DEF Longer

LEMMA Handled ==
  ASSUME NEW q, IsSequence(q), q # <<>>, NEW a, IsSequence(a), NEW r, r = Tail(q) \o a
  PROVE  Moved(r, q, a)
<1> DEFINE S == Range(q) \cup Range(a)
<1>1. q \in Seq(S) /\ a \in Seq(S)
  BY SeqMonotonic DEF IsSequence
<1> HIDE DEF S
<1>2. Tail(q) \in Seq(S) /\ Len(Tail(q)) = Len(q) - 1
      /\ \A k \in 1 .. Len(q) - 1 : Tail(q)[k] = q[k + 1]
  BY <1>1
<1> DEFINE t == Tail(q)
<1> HIDE DEF t
<1>3. /\ r \in Seq(S) /\ Len(r) = Len(t) + Len(a)
      /\ \A k \in 1 .. Len(t) : r[k] = t[k]
      /\ \A k \in 1 .. Len(a) : r[Len(t) + k] = a[k]
  BY <1>1, <1>2, ConcatProperties DEF t
<1>4. IsSequence(r)
  BY <1>3, QueueOf
<1>5. Len(t) = Len(q) - 1 /\ Len(q) \in Nat /\ Len(q) > 0 /\ Len(a) \in Nat
  BY <1>1, <1>2 DEF t
<1>6. DOMAIN r = 1 .. Len(r)
  BY <1>3
<1> QED  BY <1>1, <1>2, <1>3, <1>4, <1>5, <1>6 DEF Moved, t

\* Entries that neither ask for anything nor say anything of a network.
Silent(a) ==
  /\ IsSequence(a)
  /\ \A k \in DOMAIN a : \/ a[k].kind = "update"
                         \/ a[k].kind = "notify" /\ \E i \in Plain : a[k].what = {i}

LEMMA SilentNone == Silent(<<>>)
<1>1. <<>> \in Seq({})
  OBVIOUS
<1>2. IsSequence(<<>>)
  BY <1>1, QueueOf
<1> QED  BY <1>2 DEF Silent

LEMMA SilentFormed ==
  ASSUME NEW a, Silent(a), NEW k \in DOMAIN a
  PROVE  /\ WellFormed(a[k]) /\ ~AboutNetwork(a[k])
         /\ a[k].kind \notin {"request", "setObject"}
<1>1. \/ a[k].kind = "update"
      \/ a[k].kind = "notify" /\ \E i \in Plain : a[k].what = {i}
  BY DEF Silent
<1>2. "network" \notin Plain
  BY DEF Plain
<1> QED  BY <1>1, <1>2 DEF WellFormed, AboutNetwork, Asking, DataItems

LEMMA SilentCopies ==
  ASSUME NEW new, NEW S
  PROVE  Silent(Copied(new, S))
<1> DEFINE got == {i \in S : new[i] # None}
           t == Task("update", "xtra", got, [i \in got |-> new[i]])
<1>1. t.kind = "update"
  BY DEF Task
<1>2. Copied(new, S) = <<>> \/ Copied(new, S) = <<t>>
  BY DEF Copied
<1> HIDE DEF t
<1>3. <<t>> \in Seq({t})
  OBVIOUS
<1>4. Silent(<<t>>)
  <2>1. IsSequence(<<t>>)
    BY <1>3, QueueOf
  <2> QED  BY <1>1, <2>1 DEF Silent
<1> QED  BY <1>2, <1>4, SilentNone

LEMMA SilentAnswers ==
  ASSUME NEW S
  PROVE  Silent(Answers(S))
<1> DEFINE P == S \cap Plain
           N == Cardinality(P)
           f == SetToSeq(P)
<1>1. IsFiniteSet(Plain)
  <2> DEFINE A == {"mccmnc"}
             B == {"tac"}
             C == {"lock"}
  <2>1. IsFiniteSet(A) /\ IsFiniteSet(B) /\ IsFiniteSet(C)
    BY FS_Singleton
  <2>2. Plain = (A \cup B) \cup C
    BY DEF Plain
  <2> HIDE DEF A, B, C
  <2>3. IsFiniteSet(A \cup B)
    BY <2>1, FS_Union
  <2>4. IsFiniteSet((A \cup B) \cup C)
    BY <2>1, <2>3, FS_Union
  <2> QED  BY <2>2, <2>4
<1>2. IsFiniteSet(P)
  BY <1>1, FS_Subset
<1>3. N \in Nat /\ ExistsBijection(1 .. N, P)
  BY <1>2, FS_CardinalityType
<1>4. \E g \in [1 .. N -> P] : IsInjective(g)
  <2>1. PICK g : g \in Bijection(1 .. N, P)
    BY <1>3 DEF ExistsBijection
  <2>2. g \in Injection(1 .. N, P)
    BY <2>1, Fun_BijectionProperties
  <2>3. g \in [1 .. N -> P] /\ \A a, b \in 1 .. N : g[a] = g[b] => a = b
    BY <2>2, Fun_InjectionProperties
  <2> QED  BY <2>3 DEF IsInjective
<1>5. f \in [1 .. N -> P]
  BY <1>4 DEF SetToSeq
<1> DEFINE e(k) == Task("notify", "framework", {f[k]}, truth[f[k]])
           T == {e(k) : k \in 1 .. N}
<1>6. Answers(S) = [k \in 1 .. N |-> e(k)]
  BY DEF Answers
<1>7. Answers(S) \in Seq(T)
  <2>1. [k \in 1 .. N |-> e(k)] \in [1 .. N -> T]
    OBVIOUS
  <2> HIDE DEF e, T, N
  <2> QED  BY <1>3, <1>6, <2>1, SeqDef
<1>8. \A k \in 1 .. N : e(k).kind = "notify" /\ \E i \in Plain : e(k).what = {i}
  BY <1>5 DEF Task, Plain
<1> HIDE DEF e, T, N, f, P
<1> QED  BY <1>6, <1>7, <1>8, QueueOf DEF Silent

LEMMA SilentBoth ==
  ASSUME NEW q, IsSequence(q), q # <<>>, NEW a, Silent(a), NEW b, Silent(b)
  PROVE  Tail(q) \o a \o b = Tail(q) \o (a \o b) /\ Silent(a \o b)
<1>0. IsSequence(a) /\ IsSequence(b)
  BY DEF Silent
<1> DEFINE S == Range(q) \cup Range(a) \cup Range(b)
<1>1. q \in Seq(S) /\ a \in Seq(S) /\ b \in Seq(S)
  BY <1>0, SeqMonotonic DEF IsSequence
<1> HIDE DEF S
<1>2. Tail(q) \in Seq(S) /\ a \o b \in Seq(S) /\ Len(a) \in Nat /\ Len(b) \in Nat
  BY <1>1
<1>3. Tail(q) \o a \o b = Tail(q) \o (a \o b)
  BY <1>1, <1>2, ConcatAssociative
<1>4. /\ Len(a \o b) = Len(a) + Len(b)
      /\ \A k \in 1 .. Len(a) : (a \o b)[k] = a[k]
      /\ \A k \in 1 .. Len(b) : (a \o b)[Len(a) + k] = b[k]
  BY <1>1, ConcatProperties
<1>5. \A k \in DOMAIN (a \o b) : \/ k \in 1 .. Len(a)
                                 \/ k - Len(a) \in 1 .. Len(b) /\ k = Len(a) + (k - Len(a))
  BY <1>1, <1>2, <1>4
<1>6. ASSUME NEW k \in DOMAIN (a \o b)
      PROVE  \/ \E i \in DOMAIN a : (a \o b)[k] = a[i]
             \/ \E i \in DOMAIN b : (a \o b)[k] = b[i]
  <2>1. CASE k \in 1 .. Len(a)
    BY <1>1, <1>4, <2>1
  <2>2. CASE k - Len(a) \in 1 .. Len(b) /\ k = Len(a) + (k - Len(a))
    <3>1. k - Len(a) \in DOMAIN b /\ (a \o b)[k] = b[k - Len(a)]
      BY <1>1, <1>4, <2>2
    <3> QED  BY <3>1
  <2> QED  BY <1>5, <2>1, <2>2
<1>7. IsSequence(a \o b)
  BY <1>2, QueueOf
<1> DEFINE c == a \o b
<1>8. Silent(c)
  <2>1. \A k \in DOMAIN c : \/ \E i \in DOMAIN a : c[k] = a[i]
                          \/ \E i \in DOMAIN b : c[k] = b[i]
    BY <1>6
  <2> HIDE DEF c
  <2> QED  BY <1>7, <2>1 DEF Silent, c
<1> QED  BY <1>3, <1>8

LEMMA SilentTail ==
  ASSUME NEW q, IsSequence(q), q # <<>>
  PROVE  Tail(q) = Tail(q) \o <<>>
BY DEF IsSequence

-----------------------------------------------------------------------------
(***************************************************************************)
(* Steps of the queue.                                                     *)
(***************************************************************************)
Queued(t) == tasks' = Append(tasks, t)
Served(a) == tasks # <<>> /\ Silent(a) /\ tasks' = Tail(tasks) \o a

LEMMA QueuedFormed ==
  ASSUME TasksFormed, NEW t, WellFormed(t), Queued(t)
  PROVE  /\ TasksFormed'
         /\ DOMAIN tasks = 1 .. Len(tasks) /\ DOMAIN tasks' = 1 .. Len(tasks) + 1
         /\ Len(tasks) \in Nat
         /\ \A k \in DOMAIN tasks : tasks'[k] = tasks[k]
         /\ tasks'[Len(tasks) + 1] = t
<1>1. IsSequence(tasks)
  BY DEF TasksFormed, IsSequence
<1>2. /\ IsSequence(tasks') /\ Len(tasks) \in Nat
      /\ DOMAIN tasks = 1 .. Len(tasks) /\ DOMAIN tasks' = 1 .. Len(tasks) + 1
      /\ \A k \in DOMAIN tasks : tasks'[k] = tasks[k]
      /\ tasks'[Len(tasks) + 1] = t
  <2>1. Longer(tasks', tasks, t)
    BY <1>1, Appended DEF Queued
  <2> QED  BY <2>1 DEF Longer
<1>3. \A k \in DOMAIN tasks' : k \in DOMAIN tasks \/ k = Len(tasks) + 1
  BY <1>2
<1>4. ASSUME NEW k \in DOMAIN tasks' PROVE WellFormed(tasks'[k])
  BY <1>2, <1>3 DEF TasksFormed
<1>5. TasksFormed'
  BY <1>2, <1>4 DEF TasksFormed, IsSequence, WellFormed, AboutNetwork
<1> QED  BY <1>2, <1>5

LEMMA ServedFormed ==
  ASSUME TasksFormed, NEW a, Served(a)
  PROVE  /\ TasksFormed'
         /\ Len(tasks) \in Nat /\ Len(tasks) > 0 /\ Len(a) \in Nat
         /\ DOMAIN tasks = 1 .. Len(tasks) /\ DOMAIN a = 1 .. Len(a)
         /\ DOMAIN tasks' = 1 .. (Len(tasks) - 1) + Len(a)
         /\ \A k \in 1 .. Len(tasks) - 1 : tasks'[k] = tasks[k + 1]
         /\ \A k \in DOMAIN tasks' : k > Len(tasks) - 1 =>
               /\ tasks'[k].kind \notin {"request", "setObject"}
               /\ ~AboutNetwork(tasks'[k])
         /\ NextTask = tasks[1] /\ WellFormed(tasks[1])
<1>1. IsSequence(tasks) /\ tasks # <<>> /\ Silent(a) /\ IsSequence(a) /\ tasks' = Tail(tasks) \o a
  BY DEF TasksFormed, IsSequence, Served, Silent
<1>2. /\ IsSequence(tasks') /\ Len(tasks) \in Nat /\ Len(a) \in Nat /\ Len(tasks) > 0
      /\ DOMAIN tasks = 1 .. Len(tasks) /\ DOMAIN a = 1 .. Len(a)
      /\ DOMAIN tasks' = 1 .. (Len(tasks) - 1) + Len(a)
      /\ \A k \in 1 .. Len(tasks) - 1 : tasks'[k] = tasks[k + 1]
      /\ \A k \in 1 .. Len(a) : tasks'[(Len(tasks) - 1) + k] = a[k]
      /\ NextTask = tasks[1]
  <2>1. Moved(tasks', tasks, a)
    BY <1>1, Handled
  <2> QED  BY <2>1 DEF Moved, NextTask
<1>3. ASSUME NEW k \in DOMAIN tasks', k > Len(tasks) - 1
      PROVE  \E i \in DOMAIN a : tasks'[k] = a[i]
  <2>1. k - (Len(tasks) - 1) \in DOMAIN a
        /\ k = (Len(tasks) - 1) + (k - (Len(tasks) - 1))
    BY <1>2, <1>3
  <2>2. tasks'[k] = a[k - (Len(tasks) - 1)]
    BY <1>2, <2>1
  <2> QED  BY <2>1, <2>2
<1>4. ASSUME NEW k \in DOMAIN tasks', k > Len(tasks) - 1
      PROVE  /\ WellFormed(tasks'[k]) /\ ~AboutNetwork(tasks'[k])
             /\ tasks'[k].kind \notin {"request", "setObject"}
  BY <1>1, <1>3, <1>4, SilentFormed
<1>5. ASSUME NEW k \in DOMAIN tasks', ~(k > Len(tasks) - 1)
      PROVE  WellFormed(tasks'[k])
  BY <1>2, <1>5 DEF TasksFormed
<1>6. TasksFormed'
  BY <1>2, <1>4, <1>5 DEF TasksFormed, IsSequence, WellFormed, AboutNetwork
<1>7. WellFormed(tasks[1])
  BY <1>2 DEF TasksFormed
<1> QED  BY <1>2, <1>4, <1>6, <1>7

\* What a handler leaves behind the head.
LEMMA HandlersServe ==
  ASSUME TasksFormed, HandleTask
  PROVE  \E a : Served(a)
<1>1. tasks # <<>> /\ IsSequence(tasks)
  BY DEF HandleTask, TasksFormed, IsSequence
<1>2. CASE tasks' = Tail(tasks)
  BY <1>1, <1>2, SilentNone, SilentTail DEF Served
<1>3. ASSUME NEW a, NEW b, Silent(a), Silent(b), tasks' = Tail(tasks) \o a \o b
      PROVE  \E c : Served(c)
  <2>1. Tail(tasks) \o a \o b = Tail(tasks) \o (a \o b) /\ Silent(a \o b)
    BY <1>1, <1>3, SilentBoth, Zenon
  <2> QED  BY <1>1, <1>3, <2>1, Zenon DEF Served
<1>4. CASE HandleSubscribe
  <2>1. PICK S, T : tasks' = Tail(tasks)
                               \o (IF NextTask.who = "xtra" THEN Copied(items, S) ELSE <<>>)
                               \o Answers(T)
    BY <1>4 DEF HandleSubscribe
  <2> QED  BY <1>3, <2>1, SilentCopies, SilentNone, SilentAnswers
<1>5. CASE HandleSetObject
  <2>1. PICK S : tasks' = Tail(tasks) \o Answers(S)
    BY <1>5 DEF HandleSetObject
  <2> QED  BY <1>1, <2>1, SilentAnswers DEF Served
<1>6. CASE HandleNotify
  <2>1. PICK new, S : \/ tasks' = Tail(tasks) \o Copied(new, S)
                      \/ tasks' = Tail(tasks) \o <<>>
    BY <1>6, Zenon DEF HandleNotify
  <2> QED  BY <1>1, <2>1, SilentCopies, SilentNone, Zenon DEF Served
<1> QED
  BY <1>2, <1>4, <1>5, <1>6 DEF HandleTask, HandleUnsubscribe, HandleUpdate, HandleStatus

-----------------------------------------------------------------------------
(***************************************************************************)
(* The maps of subscriptions.                                              *)
(***************************************************************************)
LEMMA MapsQueued ==
  ASSUME MapsInv, NEW t, WellFormed(t), Queued(t),
         UNCHANGED <<listeners, wants, fwItems, subscriptionObj>>
  PROVE  MapsInv'
<1> USE DEF MapsInv
<1>1. /\ TasksFormed'
      /\ DOMAIN tasks = 1 .. Len(tasks) /\ DOMAIN tasks' = 1 .. Len(tasks) + 1
      /\ Len(tasks) \in Nat
      /\ \A k \in DOMAIN tasks : tasks'[k] = tasks[k]
      /\ tasks'[Len(tasks) + 1] = t
  BY QueuedFormed
<1>2. ASSUME NEW i \in FrameworkItems, "xtra" \notin listeners'[i]
      PROVE  /\ ~subscriptionObj'
             /\ \E k \in DOMAIN tasks' :
                  /\ XtraAsks(tasks'[k], i)
                  /\ \A j \in DOMAIN tasks' : tasks'[j].kind = "setObject" => k < j
  <2>1. PICK k \in DOMAIN tasks :
          /\ XtraAsks(tasks[k], i)
          /\ \A j \in DOMAIN tasks : tasks[j].kind = "setObject" => k < j
    BY <1>2 DEF XtraListens
  <2>2. ~subscriptionObj
    BY <1>2 DEF XtraListens
  <2>3. k \in DOMAIN tasks' /\ XtraAsks(tasks'[k], i)
    BY <1>1, <2>1
  <2>4. ASSUME NEW j \in DOMAIN tasks', tasks'[j].kind = "setObject" PROVE k < j
    BY <1>1, <2>1, <2>4
  <2> QED  BY <2>2, <2>3, <2>4
<1>3. XtraListens'
  BY <1>2 DEF XtraListens
<1> QED  BY <1>1, <1>3 DEF MapsInverse

LEMMA XtraServed ==
  ASSUME TasksFormed, XtraListens, NEW a, Served(a),
         subscriptionObj' => subscriptionObj \/ NextTask.kind = "setObject",
         \A i \in FrameworkItems :
           "xtra" \in listeners[i] \/ XtraAsks(NextTask, i) => "xtra" \in listeners'[i]
  PROVE  XtraListens'
<1>1. /\ Len(tasks) \in Nat /\ Len(tasks) > 0 /\ Len(a) \in Nat
      /\ DOMAIN tasks = 1 .. Len(tasks)
      /\ DOMAIN tasks' = 1 .. (Len(tasks) - 1) + Len(a)
      /\ \A k \in 1 .. Len(tasks) - 1 : tasks'[k] = tasks[k + 1]
      /\ NextTask = tasks[1]
  BY ServedFormed
<1>2. ASSUME NEW i \in FrameworkItems, "xtra" \notin listeners'[i]
      PROVE  /\ ~subscriptionObj'
             /\ \E k \in DOMAIN tasks' :
                  /\ XtraAsks(tasks'[k], i)
                  /\ \A j \in DOMAIN tasks' : tasks'[j].kind = "setObject" => k < j
  <2>1. ~subscriptionObj /\ ~XtraAsks(NextTask, i)
    BY <1>2 DEF XtraListens
  <2>2. PICK k \in DOMAIN tasks :
          /\ XtraAsks(tasks[k], i)
          /\ \A j \in DOMAIN tasks : tasks[j].kind = "setObject" => k < j
    BY <1>2 DEF XtraListens
  <2>3. k # 1 /\ k - 1 \in 1 .. Len(tasks) - 1 /\ (k - 1) + 1 = k
    BY <1>1, <2>1, <2>2
  <2>4. k - 1 \in DOMAIN tasks' /\ XtraAsks(tasks'[k - 1], i)
    BY <1>1, <2>2, <2>3
  <2>5. NextTask.kind # "setObject"
    BY <1>1, <2>2
  <2>6. ASSUME NEW j \in DOMAIN tasks', tasks'[j].kind = "setObject" PROVE k - 1 < j
    <3>1. CASE j \in 1 .. Len(tasks) - 1
      <4>1. j + 1 \in DOMAIN tasks /\ tasks[j + 1].kind = "setObject"
        BY <1>1, <2>6, <3>1
      <4>2. k < j + 1
        BY <2>2, <4>1
      <4> QED  BY <1>1, <3>1, <4>2
    <3>2. CASE j \notin 1 .. Len(tasks) - 1
      BY <1>1, <2>3, <3>2
    <3> QED  BY <3>1, <3>2
  <2> QED  BY <2>1, <2>4, <2>5, <2>6
<1> QED  BY <1>2 DEF XtraListens

LEMMA HandleMaps ==
  ASSUME MapsInv, HandleTask
  PROVE  MapsInv'
<1> USE DEF MapsInv
<1> DEFINE c == NextTask.who
<1>1. PICK a : Served(a)
  BY HandlersServe
<1>2. TasksFormed' /\ NextTask = tasks[1] /\ WellFormed(NextTask) /\ 1 \in DOMAIN tasks
  BY <1>1, ServedFormed
<1>3. NextTask.kind \in Asking => c \in Observers /\ NextTask.what \subseteq FrameworkItems
  BY <1>2 DEF WellFormed
<1>4. subscriptionObj => \A i \in FrameworkItems : listeners[i] # {}
  BY DEF XtraListens
<1>5. subscriptionObj' => subscriptionObj \/ NextTask.kind = "setObject"
  BY DEF HandleTask, HandleSubscribe, HandleUnsubscribe, HandleSetObject, HandleNotify,
         HandleUpdate, HandleStatus
<1>7. CASE HandleSubscribe
  <2> DEFINE S == NextTask.what
  <2>1. NextTask.kind \in {"subscribe", "request"} /\ NextTask.kind \in Asking
    BY <1>7 DEF HandleSubscribe, Asking
  <2>2. c \in Observers /\ S \subseteq FrameworkItems
    BY <1>3, <2>1
  <2>3. /\ listeners' = [i \in FrameworkItems |-> listeners[i] \cup IF i \in S THEN {c} ELSE {}]
        /\ wants' = [wants EXCEPT ![c] = @ \cup S]
        /\ subscriptionObj' = subscriptionObj
    BY <1>7 DEF HandleSubscribe
  <2>4. fwItems' = IF ~subscriptionObj \/ NextTask.kind = "request" THEN fwItems
                   ELSE fwItems \cup {i \in S : listeners[i] = {}}
    BY <1>7 DEF HandleSubscribe
  <2> HIDE DEF c, S
  <2>5. /\ (listeners \in [FrameworkItems -> SUBSET Observers])'
        /\ (wants \in [Observers -> SUBSET FrameworkItems])'
        /\ (fwItems \subseteq FrameworkItems)'
    BY <2>2, <2>3, <2>4
  <2>6. ASSUME NEW o \in Observers, NEW i \in FrameworkItems
        PROVE  i \in wants'[o] <=> o \in listeners'[i]
    BY <2>2, <2>3
  <2>7. ASSUME subscriptionObj' PROVE fwItems' = {i \in FrameworkItems : listeners'[i] # {}}
    <3>1. fwItems = FrameworkItems /\ \A i \in FrameworkItems : listeners[i] # {}
      BY <1>4, <2>3, <2>7 DEF MapsInverse
    <3> QED  BY <2>2, <2>3, <2>4, <3>1
  <2>8. \A i \in FrameworkItems : "xtra" \in listeners[i] \/ XtraAsks(NextTask, i)
                                 => "xtra" \in listeners'[i]
    BY <2>3 DEF XtraAsks, c, S
  <2>9. XtraListens'
    BY <1>1, <1>5, <2>8, XtraServed
  <2> QED  BY <1>2, <2>5, <2>6, <2>7, <2>9 DEF MapsInverse
<1>8. CASE HandleUnsubscribe
  <2> DEFINE S == IF NextTask.kind = "unsubscribe" THEN wants[c] \cap NextTask.what
                  ELSE wants[c]
  <2>1. NextTask.kind \in Asking
    BY <1>8 DEF HandleUnsubscribe, Asking
  <2>2. c \in Observers /\ S \subseteq FrameworkItems /\ S \subseteq wants[c]
    BY <1>3, <2>1
  <2>3. /\ listeners' = [i \in FrameworkItems |-> listeners[i] \ IF i \in S THEN {c} ELSE {}]
        /\ wants' = [wants EXCEPT ![c] = @ \ S]
        /\ subscriptionObj' = subscriptionObj
        /\ fwItems' = IF subscriptionObj THEN fwItems \ {i \in S : listeners[i] = {c}}
                      ELSE fwItems
    BY <1>8 DEF HandleUnsubscribe
  <2> HIDE DEF c, S
  <2>5. /\ (listeners \in [FrameworkItems -> SUBSET Observers])'
        /\ (wants \in [Observers -> SUBSET FrameworkItems])'
        /\ (fwItems \subseteq FrameworkItems)'
    BY <2>2, <2>3
  <2>6. ASSUME NEW o \in Observers, NEW i \in FrameworkItems
        PROVE  i \in wants'[o] <=> o \in listeners'[i]
    BY <2>2, <2>3
  <2>7. ASSUME subscriptionObj'
        PROVE  fwItems' = {i \in FrameworkItems : listeners'[i] # {}}
    <3>1. /\ fwItems = {i \in FrameworkItems : listeners[i] # {}}
          /\ fwItems' = fwItems \ {i \in S : listeners[i] = {c}}
      BY <2>3, <2>7 DEF MapsInverse
    <3> QED  BY <2>2, <2>3, <3>1
  <2>8. \A i \in FrameworkItems : "xtra" \in listeners[i] \/ XtraAsks(NextTask, i)
                                 => "xtra" \in listeners'[i]
    <3>1. NextTask.kind \in {"unsubscribe", "unsubscribeAll"}
      BY <1>8 DEF HandleUnsubscribe
    <3>2. c # "xtra" /\ \A i : ~XtraAsks(NextTask, i)
      BY <1>2, <3>1 DEF WellFormed, XtraAsks, c
    <3> QED  BY <2>3, <3>2
  <2>9. XtraListens'
    BY <1>1, <1>5, <2>8, XtraServed
  <2> QED  BY <1>2, <2>5, <2>6, <2>7, <2>9 DEF MapsInverse
<1>9. CASE HandleSetObject
  <2>1. /\ fwItems' = {i \in FrameworkItems : listeners[i] # {}}
        /\ UNCHANGED <<listeners, wants>>
    BY <1>9 DEF HandleSetObject
  <2>2. \A i : ~XtraAsks(NextTask, i)
    BY <1>9 DEF HandleSetObject, XtraAsks
  <2>3. XtraListens'
    BY <1>1, <1>5, <2>1, <2>2, XtraServed
  <2> QED  BY <1>2, <2>1, <2>3 DEF MapsInverse
<1>10. CASE /\ UNCHANGED <<listeners, wants, fwItems, subscriptionObj>>
            /\ NextTask.kind \notin {"subscribe", "request"}
  <2>1. XtraListens'
    BY <1>1, <1>5, <1>10, XtraServed DEF XtraAsks
  <2> QED  BY <1>2, <1>10, <2>1 DEF MapsInverse
<1> QED
  BY <1>7, <1>8, <1>9, <1>10 DEF HandleTask, HandleNotify, HandleUpdate, HandleStatus

\* What is queued from outside of the task.
LEMMA CallsFormed ==
  ASSUME NEW t \in Calls, StatusAssumption
  PROVE  WellFormed(t) /\ t.kind # "notify"
<1>1. /\ Listened \subseteq FrameworkItems /\ Listeners \subseteq Observers
      /\ \A l \in Listeners : l # "xtra"
  BY DEF StatusAssumption, FrameworkItems, DataItems, Plain, Observers
<1>2. CASE t \in Asked({"unsubscribeAll"}, {{}})
  BY <1>1, <1>2 DEF Asked, WellFormed, Asking
<1>3. CASE t \in Asked({"subscribe", "unsubscribe", "request"}, {{i} : i \in Listened})
  BY <1>1, <1>3 DEF Asked, WellFormed, Asking
<1>4. CASE t = Task("setObject", "framework", {}, None)
  BY <1>4 DEF Task, WellFormed, Asking
<1> QED  BY <1>2, <1>3, <1>4 DEF Calls

LEMMA MapsStep ==
  ASSUME MapsInv, [StatusNext]_statusVars
  PROVE  MapsInv'
<1> DEFINE Same == UNCHANGED <<listeners, wants, fwItems, subscriptionObj>>
<1>1. ASSUME Same, UNCHANGED tasks PROVE MapsInv'
  BY <1>1 DEF MapsInv, TasksFormed, WellFormed, XtraListens, MapsInverse
<1>2. ASSUME NEW n \in Networks, NetworkChanges(n) PROVE MapsInv'
  <2> DEFINE t == Task("notify", "framework", {"network"}, NetworkReport(n \notin link, n))
  <2>1. WellFormed(t)
    BY DEF Task, WellFormed, Asking, DataItems
  <2>2. Queued(t) /\ Same
    BY <1>2 DEF NetworkChanges, Queue, Queued
  <2> QED  BY <2>1, <2>2, MapsQueued
<1>3. ASSUME NEW i \in Changing, NEW v \in Values, ItemChanges(i, v) PROVE MapsInv'
  <2> DEFINE t == IF i = "lock" THEN Task("lock", "adapter", {}, v)
                  ELSE Task("notify", "framework", {i}, v)
  <2>1. WellFormed(t)
    BY StatusAssumption DEF StatusAssumption, Task, WellFormed, Asking, DataItems, Plain
  <2>2. (Queued(t) \/ UNCHANGED tasks) /\ Same
    BY <1>3 DEF ItemChanges, Queue, Queued
  <2> HIDE DEF t
  <2> QED  BY <1>1, <2>1, <2>2, MapsQueued
<1>4. ASSUME NEW t \in Calls, Call(t) PROVE MapsInv'
  <2>1. Queued(t) /\ Same
    BY <1>4 DEF Call, Queue, Queued
  <2> QED  BY <2>1, CallsFormed, StatusAssumption, MapsQueued
<1>5. CASE ResetNext
  <2> DEFINE t == Task("notify", "framework", {"network"},
                       NetworkReport(FALSE, history[resetAt].net))
  <2>1. WellFormed(t)
    BY DEF Task, WellFormed, Asking, DataItems
  <2>2. (Queued(t) \/ UNCHANGED tasks) /\ Same
    BY <1>5 DEF ResetNext, Queue, Queued
  <2> HIDE DEF t
  <2> QED  BY <1>1, <2>1, <2>2, MapsQueued
<1>6. CASE DaemonStarts
  <2> DEFINE t == Task("status", "daemon", {}, None)
  <2>1. WellFormed(t)
    BY DEF Task, WellFormed, Asking
  <2>2. Queued(t) /\ Same
    BY <1>6 DEF DaemonStarts, Queue, Queued
  <2> HIDE DEF t
  <2> QED  BY <2>1, <2>2, MapsQueued
<1>7. CASE FrameworkDies \/ DaemonStops
  BY <1>1, <1>7 DEF FrameworkDies, DaemonStops
<1>8. CASE UNCHANGED statusVars
  BY <1>1, <1>8 DEF statusVars
<1>9. CASE HandleTask
  BY <1>9, HandleMaps
<1> QED  BY <1>2, <1>3, <1>4, <1>5, <1>6, <1>7, <1>8, <1>9 DEF StatusNext

LEMMA MapsInit ==
  ASSUME StatusInit
  PROVE  MapsInv
<1> DEFINE t1 == Task("subscribe", "xtra", {"network", "mccmnc"}, None)
           t2 == Task("request", "xtra", {"tac"}, None)
           t3 == Task("subscribe", "agps", {"network"}, None)
<1>1. WellFormed(t1) /\ WellFormed(t2) /\ WellFormed(t3)
  BY DEF Task, WellFormed, Asking, Observers, FrameworkItems, DataItems, Plain
<1>2. t1.kind # "setObject" /\ t2.kind # "setObject" /\ t3.kind # "setObject"
  BY DEF Task
<1>3. tasks = <<t1, t2, t3>>
  BY DEF StatusInit
<1> HIDE DEF t1, t2, t3
<1>4. /\ tasks \in Seq({t1, t2, t3})
      /\ \A k \in DOMAIN tasks : tasks[k] = t1 \/ tasks[k] = t2 \/ tasks[k] = t3
  BY <1>3
<1>5. TasksFormed
  BY <1>1, <1>4, QueueOf DEF TasksFormed, IsSequence
<1>6. ~subscriptionObj
  BY DEF StatusInit
<1>7. XtraListens
  <2>1. /\ 1 \in DOMAIN tasks /\ 2 \in DOMAIN tasks /\ tasks[1] = t1 /\ tasks[2] = t2
        /\ \A j \in DOMAIN tasks : tasks[j].kind # "setObject"
    BY <1>2, <1>3, <1>4
  <2>2. \A i \in FrameworkItems : XtraAsks(t1, i) \/ XtraAsks(t2, i)
    BY DEF FrameworkItems, DataItems, Plain, XtraAsks, Task, t1, t2
  <2> QED  BY <1>6, <2>1, <2>2 DEF XtraListens
<1>8. /\ listeners \in [FrameworkItems -> SUBSET Observers]
      /\ wants \in [Observers -> SUBSET FrameworkItems]
      /\ fwItems \subseteq FrameworkItems
      /\ \A c \in Observers, i \in FrameworkItems : i \in wants[c] <=> c \in listeners[i]
  BY DEF StatusInit
<1> QED  BY <1>5, <1>6, <1>7, <1>8 DEF MapsInv, MapsInverse

\* The maps of subscribers and of subscriptions of SystemStatusOsObserver are
\* inverse to each other, and the framework reports an item exactly as long as
\* somebody wants it, whether it is subscribed to or requested.
THEOREM StatusMapsInverse == StatusSpec => []MapsInverse
<1>1. StatusInit => MapsInv
  BY MapsInit
<1>2. MapsInv /\ [StatusNext]_statusVars => MapsInv'
  BY MapsStep
<1>3. MapsInv => MapsInverse
  BY DEF MapsInv
<1> QED  BY <1>1, <1>2, <1>3, PTL DEF StatusSpec

-----------------------------------------------------------------------------
(***************************************************************************)
(* The table of networks.                                                  *)
(***************************************************************************)
LEMMA TableLen ==
  ASSUME NEW t \in Seq(Networks), IsInjective(t), StatusAssumption
  PROVE  /\ Cardinality(Range(t)) = Len(t) /\ Len(t) <= Cardinality(Networks)
         /\ Cardinality(Networks) \in Nat
         /\ \A n \in Networks \ Range(t) : Len(t) # TableSize
<1>1. t \in [1 .. Len(t) -> Networks] /\ Len(t) \in Nat /\ Range(t) \subseteq Networks
  BY DEF Range
<1>2. \A i, j \in 1 .. Len(t) : t[i] = t[j] => i = j
  BY <1>1 DEF IsInjective
<1>3. t \in Injection(1 .. Len(t), Networks)
  BY <1>1, <1>2, Fun_IsInj
<1>4. t \in Bijection(1 .. Len(t), Range(t))
  BY <1>3, Fun_InjMeansBijImage
<1>5. ExistsBijection(1 .. Len(t), Range(t))
  BY <1>4 DEF ExistsBijection
<1>6. Cardinality(Range(t)) = Len(t)
  BY <1>1, <1>5, FS_CountingElements
<1>7. IsFiniteSet(Networks) /\ TableSize \in Nat /\ TableSize >= Cardinality(Networks)
  BY DEF StatusAssumption
<1>8. /\ Cardinality(Range(t)) <= Cardinality(Networks)
      /\ Cardinality(Networks) = Cardinality(Range(t)) => Networks = Range(t)
      /\ Cardinality(Networks) \in Nat
  BY <1>1, <1>7, FS_Subset, FS_CardinalityType
<1> DEFINE L == Len(t)
           N == Cardinality(Networks)
<1>9. ASSUME NEW n \in Networks \ Range(t) PROVE L # TableSize
  <2>1. L \in Nat /\ L <= N /\ N # L /\ N \in Nat
    BY <1>1, <1>6, <1>8, <1>9
  <2> HIDE DEF L, N
  <2>2. TableSize >= N /\ TableSize \in Nat
    BY <1>7 DEF N
  <2> QED  BY <2>1, <2>2
<1>10. L <= N
  BY <1>6, <1>8
<1> QED  BY <1>6, <1>8, <1>9, <1>10

LEMMA TableAdds ==
  ASSUME NEW t \in Seq(Networks), IsInjective(t), StatusAssumption,
         NEW n \in Networks \ Range(t), NEW r, r = WithNetwork(t, n)
  PROVE  /\ r \in Seq(Networks) /\ IsInjective(r) /\ Range(r) = Range(t) \cup {n}
         /\ r # t
<1>1. r = Append(t, n)
  BY TableLen DEF WithNetwork
<1>2. /\ r \in Seq(Networks) /\ Len(r) = Len(t) + 1 /\ Len(t) \in Nat
      /\ DOMAIN r = 1 .. Len(t) + 1 /\ DOMAIN t = 1 .. Len(t)
      /\ \A k \in 1 .. Len(t) : r[k] = t[k]
      /\ r[Len(t) + 1] = n
  BY <1>1
<1>3. \A k \in DOMAIN r : k \in DOMAIN t \/ k = Len(t) + 1
  BY <1>2
<1>4. \A k \in DOMAIN t : t[k] # n
  BY DEF Range
<1>5. IsInjective(r)
  <2>1. ASSUME NEW i \in DOMAIN r, NEW j \in DOMAIN r, r[i] = r[j] PROVE i = j
    BY <1>2, <1>3, <1>4, <2>1 DEF IsInjective
  <2> QED  BY <2>1 DEF IsInjective
<1>6. Range(r) = Range(t) \cup {n}
  <2>1. Range(r) \subseteq Range(t) \cup {n}
    BY <1>2, <1>3 DEF Range
  <2>2. \A k \in DOMAIN t : k \in DOMAIN r /\ r[k] = t[k]
    BY <1>2
  <2>3. Len(t) + 1 \in DOMAIN r
    BY <1>2
  <2>4. Range(t) \subseteq Range(r)
    BY <2>2 DEF Range
  <2>5. n \in Range(r)
    BY <1>2, <2>3 DEF Range
  <2> QED  BY <2>1, <2>4, <2>5
<1>7. r # t
  BY <1>2
<1> QED  BY <1>2, <1>5, <1>6, <1>7

LEMMA TableRemoves ==
  ASSUME NEW t \in Seq(Networks), IsInjective(t), StatusAssumption,
         NEW n \in Range(t), NEW r, r = WithoutNetwork(t, n)
  PROVE  /\ r \in Seq(Networks) /\ IsInjective(r) /\ Range(r) = Range(t) \ {n}
         /\ r # t
<1> DEFINE L == Len(t)
           i == CHOOSE j \in DOMAIN t : t[j] = n
           u == [t EXCEPT ![i] = t[L]]
<1>1. i \in DOMAIN t /\ t[i] = n
  BY DEF Range
<1>2. r = SubSeq(u, 1, Len(u) - 1)
  BY Zenon DEF WithoutNetwork, Front, Last
<1>3. /\ L \in Nat /\ DOMAIN t = 1 .. L /\ L > 0
      /\ \A k \in 1 .. L : t[k] \in Networks
  BY <1>1
<1> HIDE DEF i
<1>4. /\ u \in Seq(Networks) /\ Len(u) = L
      /\ \A k \in 1 .. L : u[k] = IF k = i THEN t[L] ELSE t[k]
  BY <1>1, <1>3
<1> HIDE DEF u, L
<1>5. /\ r \in Seq(Networks) /\ Len(r) = L - 1 /\ DOMAIN r = 1 .. L - 1
      /\ \A k \in 1 .. L - 1 : r[k] = u[k]
  BY <1>2, <1>3, <1>4
<1>6. /\ \A k \in 1 .. L - 1 : k \in 1 .. L /\ k # L
      /\ \A k \in 1 .. L : k = L \/ k \in 1 .. L - 1
      /\ i \in 1 .. L /\ L \in 1 .. L
  BY <1>1, <1>3
<1>7. \A k \in 1 .. L - 1 : r[k] = IF k = i THEN t[L] ELSE t[k]
  BY <1>4, <1>5, <1>6
<1>8. IsInjective(r)
  <2>1. ASSUME NEW j \in DOMAIN r, NEW k \in DOMAIN r, r[j] = r[k] PROVE j = k
    BY <1>3, <1>5, <1>6, <1>7, <2>1 DEF IsInjective
  <2> QED  BY <2>1 DEF IsInjective
<1>9. \A k \in DOMAIN r : r[k] \in Range(t) \ {n}
  BY <1>1, <1>3, <1>5, <1>6, <1>7 DEF Range, IsInjective
<1>10. ASSUME NEW k \in DOMAIN t, t[k] # n PROVE t[k] \in Range(r)
  <2>1. k # i
    BY <1>1, <1>10
  <2>2. CASE k = L
    <3>1. i \in DOMAIN r /\ r[i] = t[k]
      BY <1>5, <1>6, <1>7, <2>1, <2>2
    <3> QED  BY <3>1 DEF Range
  <2>3. CASE k # L
    <3>1. k \in DOMAIN r /\ r[k] = t[k]
      BY <1>3, <1>5, <1>6, <1>7, <2>1, <2>3
    <3> QED  BY <3>1 DEF Range
  <2> QED  BY <2>2, <2>3
<1>11. Range(r) = Range(t) \ {n}
  BY <1>9, <1>10 DEF Range
<1>12. r # t
  BY <1>11
<1> QED  BY <1>5, <1>8, <1>11, <1>12

LEMMA ReportExcept ==
  ASSUME NEW r, NEW u, NEW n, NEW s, NEW t, NEW s2, NEW t2,
         r = [up |-> u, net |-> n, types |-> s, table |-> t]
  PROVE  /\ [r EXCEPT !.types = s2, !.table = t2]
              = [up |-> u, net |-> n, types |-> s2, table |-> t2]
         /\ r.types = s /\ r.net = n
<1> DEFINE q == [r EXCEPT !.types = s2, !.table = t2]
           F == {"up", "net", "types", "table"}
<1>1. r.types = s /\ r.net = n
  OBVIOUS
<1>2. DOMAIN r = F /\ r["up"] = u /\ r["net"] = n /\ r = [f \in F |-> r[f]]
  OBVIOUS
<1>3. DOMAIN q = F /\ q["up"] = u /\ q["net"] = n /\ q["types"] = s2 /\ q["table"] = t2
      /\ q = [f \in F |-> q[f]]
  BY <1>2
<1> HIDE DEF q
<1>4. q = [up |-> u, net |-> n, types |-> s2, table |-> t2]
  BY <1>3
<1> QED  BY <1>1, <1>4 DEF q

\* What collate makes of a report that says what the table does not.
LEMMA ReportArrives ==
  ASSUME history \in Seq(TableReports), IsInjective(Table), StatusAssumption,
         history # <<>> => Last(history).types = Types(Range(Table)),
         \A m, n \in Networks : TypeOf[m] = TypeOf[n] => m = n,
         NEW r, IsReport(r), r.up <=> r.net \notin Range(Table)
  PROVE  /\ Arrived(r) \in TableReports /\ IsNews(r)
         /\ IsInjective(Arrived(r).table)
         /\ Range(Arrived(r).table) = IF r.up THEN Range(Table) \cup {r.net}
                                      ELSE Range(Table) \ {r.net}
         /\ Arrived(r).types = Types(Range(Arrived(r).table))
<1> DEFINE n == r.net
           v == Arrived(r)
<1>1. /\ n \in Networks /\ r.up \in BOOLEAN
      /\ r = [up |-> r.up, net |-> n, types |-> {TypeOf[n]}, table |-> <<n>>]
  BY DEF IsReport, NetworkReport
<1>2. CASE history = <<>>
  <2>1. Table = <<>> /\ v = r /\ IsNews(r)
    BY <1>2 DEF Table, Arrived, IsNews
  <2>2. Range(Table) = {}
    BY <2>1 DEF Range
  <2>3. r.up = TRUE /\ r.table = <<n>> /\ r.types = {TypeOf[n]}
    BY <1>1, <2>2
  <2>4. Range(<<n>>) = {n} /\ IsInjective(<<n>>) /\ <<n>> \in Seq(Networks)
    BY <1>1 DEF Range, IsInjective
  <2>5. Types({n}) = {TypeOf[n]} /\ {TypeOf[n]} \in SUBSET Types(Networks)
    BY <1>1 DEF Types
  <2>6. r \in TableReports
    BY <1>1, <2>3, <2>4, <2>5 DEF TableReports
  <2> QED  BY <2>1, <2>2, <2>3, <2>4, <2>5, <2>6
<1>3. CASE history # <<>>
  <2> DEFINE cur == Last(history)
             t == cur.table
  <2>1. cur \in TableReports /\ Table = t /\ v = Collated(r, cur)
    BY <1>3 DEF Last, Table, Arrived
  <2>2. t \in Seq(Networks) /\ cur.types = Types(Range(t)) /\ IsInjective(t)
        /\ cur.types \subseteq Types(Networks)
    BY <1>3, <2>1 DEF TableReports
  <2>3. IsNews(r) <=> ~(v.up = cur.up /\ v.table = t)
    BY <1>3, Zenon DEF IsNews, SameReport
  <2> HIDE DEF cur, v, n
  <2>4. CASE r.up = TRUE
    <3>1. v = [r EXCEPT !.types = @ \cup cur.types, !.table = WithNetwork(t, n)]
      BY <2>1, <2>4 DEF Collated, n
    <3> DEFINE w == WithNetwork(t, n)
    <3>2. n \in Networks \ Range(t)
      BY <1>1, <2>1, <2>4 DEF n
    <3>3. w \in Seq(Networks) /\ IsInjective(w) /\ Range(w) = Range(t) \cup {n} /\ w # t
      BY <2>2, <3>2, TableAdds
    <3> HIDE DEF w
    <3>4. v = [up |-> TRUE, net |-> n, types |-> {TypeOf[n]} \cup cur.types, table |-> w]
      <4>1. v = [r EXCEPT !.types = r.types \cup cur.types, !.table = w]
        BY <3>1 DEF w
      <4>2. r = [up |-> TRUE, net |-> n, types |-> {TypeOf[n]}, table |-> <<n>>]
        BY <1>1, <2>4
      <4>3. r.types = {TypeOf[n]}
        BY <4>2, ReportExcept
      <4> QED  BY <4>1, <4>2, <4>3, ReportExcept
    <3>5. {TypeOf[n]} \cup cur.types = Types(Range(t) \cup {n})
      BY <2>2 DEF Types
    <3>6. {TypeOf[n]} \cup cur.types \subseteq Types(Networks)
      BY <2>2, <3>2 DEF Types
    <3>7. v \in TableReports
      BY <3>2, <3>3, <3>4, <3>6 DEF TableReports
    <3>8. IsNews(r)
      BY <2>3, <3>3, <3>4
    <3>9. v.table = w /\ v.types = Types(Range(w))
      BY <3>3, <3>4, <3>5
    <3>10. Range(w) = IF r.up THEN Range(Table) \cup {n} ELSE Range(Table) \ {n}
      BY <2>1, <2>4, <3>3
    <3> QED  BY <3>3, <3>7, <3>8, <3>9, <3>10 DEF n, v
  <2>5. CASE r.up = FALSE
    <3>1. v = [r EXCEPT !.types = IF \E m \in Range(t) \ {n} : TypeOf[m] = TypeOf[n]
                                  THEN r.types ELSE cur.types \ r.types,
                        !.table = WithoutNetwork(t, n)]
      BY <2>1, <2>5, Zenon DEF Collated, n
    <3> DEFINE w == WithoutNetwork(t, n)
    <3>2. n \in Range(t) /\ Range(t) \subseteq Networks
      BY <1>1, <2>1, <2>2, <2>5 DEF n, Range
    <3>3. w \in Seq(Networks) /\ IsInjective(w) /\ Range(w) = Range(t) \ {n} /\ w # t
      BY <2>2, <3>2, TableRemoves
    <3> HIDE DEF w
    <3>4. ~ \E m \in Range(t) \ {n} : TypeOf[m] = TypeOf[n]
      BY <3>2
    <3>5. v = [up |-> FALSE, net |-> n, types |-> cur.types \ {TypeOf[n]}, table |-> w]
      <4>1. v = [r EXCEPT !.types = cur.types \ r.types, !.table = w]
        BY <3>1, <3>4 DEF w
      <4>2. r = [up |-> FALSE, net |-> n, types |-> {TypeOf[n]}, table |-> <<n>>]
        BY <1>1, <2>5
      <4>3. r.types = {TypeOf[n]}
        BY <4>2, ReportExcept
      <4> QED  BY <4>1, <4>2, <4>3, ReportExcept
    <3>6. cur.types \ {TypeOf[n]} = Types(Range(t) \ {n})
      BY <2>2, <3>2, <3>4 DEF Types
    <3>7. v \in TableReports
      BY <2>2, <3>2, <3>3, <3>5 DEF TableReports
    <3>8. IsNews(r)
      BY <2>3, <3>3, <3>5
    <3>9. v.table = w /\ v.types = Types(Range(w))
      BY <3>3, <3>5, <3>6
    <3>10. Range(w) = IF r.up THEN Range(Table) \cup {n} ELSE Range(Table) \ {n}
      BY <2>1, <2>5, <3>3
    <3> QED  BY <3>3, <3>7, <3>8, <3>9, <3>10 DEF n, v
  <2> QED  BY <1>1, <2>4, <2>5
<1> QED  BY <1>2, <1>3

\* The history keeps its last report.
LEMMA KeptLast ==
  ASSUME StatusAssumption, history \in Seq(TableReports), NEW v \in TableReports,
         NEW h, h = Kept(Append(history, v))
  PROVE  h \in Seq(TableReports) /\ h # <<>> /\ Last(h) = v
<1> DEFINE a == Append(history, v)
<1>1. MaxItem \in Nat /\ MaxItem > 0
  BY DEF StatusAssumption
<1>2. /\ a \in Seq(TableReports) /\ Len(a) \in Nat /\ Len(a) > 0 /\ a[Len(a)] = v
  OBVIOUS
<1> HIDE DEF a
<1>3. CASE Len(a) > MaxItem
  <2>1. Len(a) > 1 /\ a # <<>>
    BY <1>1, <1>2, <1>3
  <2>2. /\ h = Tail(a) /\ h \in Seq(TableReports) /\ Len(h) = Len(a) - 1
        /\ \A k \in 1 .. Len(a) - 1 : h[k] = a[k + 1]
    BY <1>2, <1>3, <2>1 DEF Kept, a
  <2>3. Len(a) - 1 \in 1 .. Len(a) - 1 /\ (Len(a) - 1) + 1 = Len(a) /\ Len(h) > 0
    BY <1>2, <2>1, <2>2
  <2> QED  BY <1>2, <2>2, <2>3 DEF Last
<1>4. CASE ~(Len(a) > MaxItem)
  BY <1>2, <1>4 DEF Kept, Last, a
<1> QED  BY <1>3, <1>4

-----------------------------------------------------------------------------
(***************************************************************************)
(* Reports in turn.                                                        *)
(***************************************************************************)
SameTable(n) == n \in Range(Table') <=> n \in Range(Table)
SameLink(n) == n \in link' <=> n \in link

\* A message on something else is queued.
LEMMA TurnQueued ==
  ASSUME TasksFormed, NEW n, Turn(n), NEW t, WellFormed(t), Queued(t),
         AboutNetwork(t) => t.value.net # n, SameTable(n), SameLink(n)
  PROVE  Turn(n)'
<1>1. /\ DOMAIN tasks = 1 .. Len(tasks) /\ DOMAIN tasks' = 1 .. Len(tasks) + 1
      /\ Len(tasks) \in Nat
      /\ \A k \in DOMAIN tasks : tasks'[k] = tasks[k]
      /\ tasks'[Len(tasks) + 1] = t
  BY QueuedFormed
<1>2. \A k \in DOMAIN tasks : k \in DOMAIN tasks' /\ (On(k, n)' <=> On(k, n))
                                /\ (Ups(k))' = Ups(k)
  BY <1>1 DEF On, Ups, AboutNetwork
<1>3. \A k \in DOMAIN tasks' : On(k, n)' => k \in DOMAIN tasks
  <2>1. ASSUME NEW k \in DOMAIN tasks', k = Len(tasks) + 1 PROVE ~On(k, n)'
    BY <1>1, <2>1 DEF On, AboutNetwork
  <2>2. \A k \in DOMAIN tasks' : k \in DOMAIN tasks \/ k = Len(tasks) + 1
    BY <1>1
  <2> QED  BY <2>1, <2>2
<1>4. ASSUME NEW k \in DOMAIN tasks' PROVE First(k, n)' => k \in DOMAIN tasks /\ First(k, n)
  BY <1>2, <1>3 DEF First
<1>5. ASSUME NEW k \in DOMAIN tasks' PROVE Final(k, n)' => k \in DOMAIN tasks /\ Final(k, n)
  BY <1>2, <1>3 DEF Final
<1>6. ASSUME NEW k \in DOMAIN tasks', NEW j \in DOMAIN tasks'
      PROVE  Follows(k, j, n)' => j \in DOMAIN tasks /\ k \in DOMAIN tasks /\ Follows(k, j, n)
  BY <1>2, <1>3 DEF Follows
<1>7. (\A k \in DOMAIN tasks' : ~On(k, n)') => \A k \in DOMAIN tasks : ~On(k, n)
  BY <1>2
<1> QED  BY <1>2, <1>4, <1>5, <1>6, <1>7 DEF Turn, SameTable, SameLink

\* A change of the network itself is queued.
LEMMA TurnReported ==
  ASSUME TasksFormed, NEW n, Turn(n), NEW t, WellFormed(t), Queued(t),
         AboutNetwork(t), t.value.net = n, t.value.up <=> n \notin link,
         SameTable(n), n \in link' <=> n \notin link
  PROVE  Turn(n)'
<1>0. PICK N : N = Len(tasks) + 1
  OBVIOUS
<1>1. /\ DOMAIN tasks = 1 .. Len(tasks) /\ DOMAIN tasks' = 1 .. N
      /\ Len(tasks) \in Nat /\ N \in DOMAIN tasks' /\ N \notin DOMAIN tasks
      /\ \A k \in DOMAIN tasks : tasks'[k] = tasks[k] /\ k < N
      /\ tasks'[N] = t
  BY <1>0, QueuedFormed
<1>2. \A k \in DOMAIN tasks : k \in DOMAIN tasks' /\ (On(k, n)' <=> On(k, n))
                                /\ (Ups(k))' = Ups(k)
  BY <1>1 DEF On, Ups, AboutNetwork
<1>3. On(N, n)' /\ ((Ups(N))' <=> n \notin link)
  BY <1>1 DEF On, AboutNetwork, Ups
<1>4. \A k \in DOMAIN tasks' : k \in DOMAIN tasks \/ k = N
  BY <1>0, <1>1
<1>5. \A k \in DOMAIN tasks' : k <= N /\ k \in Nat
  BY <1>1
<1>6. ASSUME NEW k \in DOMAIN tasks', First(k, n)'
      PROVE  (Ups(k))' <=> n \notin Range(Table')
  <2>1. CASE k \in DOMAIN tasks
    <3>1. First(k, n)
      BY <1>2, <1>6, <2>1 DEF First
    <3> QED  BY <1>2, <2>1, <3>1 DEF Turn, SameTable
  <2>2. CASE k = N
    <3>1. \A j \in DOMAIN tasks : ~On(j, n)
      BY <1>1, <1>2, <1>5, <1>6, <2>2 DEF First
    <3> QED  BY <1>3, <2>2, <3>1 DEF Turn, SameTable
  <2> QED  BY <1>4, <2>1, <2>2
<1>7. ASSUME NEW j \in DOMAIN tasks', NEW k \in DOMAIN tasks', Follows(k, j, n)'
      PROVE  (Ups(k))' <=> ~(Ups(j))'
  <2>1. j \in DOMAIN tasks /\ On(j, n)
    BY <1>2, <1>4, <1>5, <1>7 DEF Follows
  <2>2. CASE k \in DOMAIN tasks
    <3>1. Follows(k, j, n)
      BY <1>2, <1>7, <2>1, <2>2 DEF Follows
    <3> QED  BY <1>2, <2>1, <2>2, <3>1 DEF Turn
  <2>3. CASE k = N
    <3>1. Final(j, n)
      BY <1>1, <1>2, <1>5, <1>7, <2>1, <2>3 DEF Follows, Final
    <3> QED  BY <1>2, <1>3, <2>1, <2>3, <3>1 DEF Turn
  <2> QED  BY <1>4, <2>2, <2>3
<1>8. ASSUME NEW k \in DOMAIN tasks', Final(k, n)'
      PROVE  (Ups(k))' <=> n \in link'
  <2>1. k = N
    BY <1>1, <1>3, <1>4, <1>5, <1>8 DEF Final
  <2> QED  BY <1>3, <2>1
<1> QED  BY <1>1, <1>3, <1>6, <1>7, <1>8 DEF Turn

\* The head is handled; n is in the table if the head says so.
LEMMA TurnServed ==
  ASSUME TasksFormed, NEW n, Turn(n), NEW a, Served(a), SameLink(n),
         IF On(1, n) THEN Ups(1) <=> n \in Range(Table') ELSE SameTable(n)
  PROVE  Turn(n)'
<1>0. PICK N : N = Len(tasks) - 1
  OBVIOUS
<1>1. /\ Len(tasks) \in Nat /\ Len(tasks) > 0 /\ Len(a) \in Nat
      /\ DOMAIN tasks = 1 .. Len(tasks)
      /\ DOMAIN tasks' = 1 .. N + Len(a)
      /\ \A k \in 1 .. N : tasks'[k] = tasks[k + 1]
      /\ \A k \in DOMAIN tasks' : k > N => ~AboutNetwork(tasks'[k])
  BY <1>0, ServedFormed
<1>2. \A k \in DOMAIN tasks' : On(k, n)' => k \in 1 .. N
  BY <1>0, <1>1 DEF On, AboutNetwork
<1>3. \A k \in 1 .. N : /\ k \in DOMAIN tasks' /\ k + 1 \in DOMAIN tasks
                        /\ On(k, n)' <=> On(k + 1, n)
                        /\ (Ups(k))' = Ups(k + 1)
  BY <1>0, <1>1 DEF On, Ups, AboutNetwork
<1>4. \A k \in DOMAIN tasks : /\ k \in Nat
                              /\ \/ k = 1
                                 \/ k - 1 \in 1 .. N /\ k = (k - 1) + 1 /\ k > 1
  BY <1>0, <1>1
<1>5. 1 \in DOMAIN tasks /\ \A k \in DOMAIN tasks' : k \in Nat
  BY <1>1
<1>6. ASSUME NEW j \in DOMAIN tasks', NEW k \in DOMAIN tasks', Follows(k, j, n)'
      PROVE  (Ups(k))' <=> ~(Ups(j))'
  <2>1. j \in 1 .. N /\ k \in 1 .. N /\ On(j + 1, n) /\ On(k + 1, n)
    BY <1>2, <1>3, <1>6 DEF Follows
  <2>2. Follows(k + 1, j + 1, n)
    <3>1. ASSUME NEW i \in DOMAIN tasks, On(i, n) PROVE i <= j + 1 \/ k + 1 <= i
      <4>1. CASE i = 1
        BY <2>1, <4>1
      <4>2. CASE i - 1 \in 1 .. N /\ i = (i - 1) + 1
        <5>1. On(i - 1, n)' /\ i - 1 \in DOMAIN tasks'
          BY <1>3, <3>1, <4>2
        <5>2. i - 1 <= j \/ k <= i - 1
          BY <1>6, <5>1 DEF Follows
        <5> QED  BY <1>4, <2>1, <5>2
      <4> QED  BY <1>4, <4>1, <4>2
    <3>2. j + 1 < k + 1
      BY <1>6, <2>1 DEF Follows
    <3> QED  BY <2>1, <3>1, <3>2 DEF Follows
  <2>3. Ups(k + 1) <=> ~Ups(j + 1)
    BY <1>3, <2>1, <2>2 DEF Turn
  <2> QED  BY <1>3, <2>1, <2>3
<1>7. ASSUME NEW k \in DOMAIN tasks', Final(k, n)'
      PROVE  (Ups(k))' <=> n \in link'
  <2>1. k \in 1 .. N /\ On(k + 1, n)
    BY <1>2, <1>3, <1>7 DEF Final
  <2>2. ASSUME NEW i \in DOMAIN tasks, On(i, n) PROVE i <= k + 1
    <3>1. CASE i = 1
      BY <2>1, <3>1
    <3>2. CASE i - 1 \in 1 .. N /\ i = (i - 1) + 1
      <4>1. On(i - 1, n)' /\ i - 1 \in DOMAIN tasks'
        BY <1>3, <2>2, <3>2
      <4>2. i - 1 <= k
        BY <1>7, <4>1 DEF Final
      <4> QED  BY <1>4, <2>1, <4>2
    <3> QED  BY <1>4, <3>1, <3>2
  <2>3. Final(k + 1, n)
    BY <2>1, <2>2 DEF Final
  <2> QED  BY <1>3, <2>1, <2>3 DEF Turn, SameLink
<1>8. ASSUME NEW k \in DOMAIN tasks', First(k, n)'
      PROVE  (Ups(k))' <=> n \notin Range(Table')
  <2>1. k \in 1 .. N /\ On(k + 1, n)
    BY <1>2, <1>3, <1>8 DEF First
  <2>2. ASSUME NEW i \in DOMAIN tasks, On(i, n), i # 1 PROVE k + 1 <= i
    <3>1. i - 1 \in 1 .. N /\ i = (i - 1) + 1
      BY <1>4, <2>2
    <3>2. On(i - 1, n)' /\ i - 1 \in DOMAIN tasks'
      BY <1>3, <2>2, <3>1
    <3>3. k <= i - 1
      BY <1>8, <3>2 DEF First
    <3> QED  BY <1>4, <2>1, <3>3
  <2>3. CASE On(1, n)
    <3>1. \A i \in DOMAIN tasks : On(i, n) => i <= 1 \/ k + 1 <= i
      BY <1>4, <2>2
    <3>2. Follows(k + 1, 1, n)
      <4>1. 1 < k + 1
        BY <2>1
      <4> QED  BY <2>1, <2>3, <3>1, <4>1 DEF Follows
    <3>3. Ups(k + 1) <=> ~Ups(1)
      BY <1>3, <1>5, <2>1, <3>2 DEF Turn
    <3> QED  BY <1>3, <2>1, <2>3, <3>3
  <2>4. CASE ~On(1, n)
    <3>1. First(k + 1, n)
      BY <2>1, <2>2, <2>4 DEF First
    <3>2. Ups(k + 1) <=> n \notin Range(Table)
      BY <1>3, <2>1, <3>1 DEF Turn
    <3> QED  BY <1>3, <2>1, <2>4, <3>2 DEF SameTable
  <2> QED  BY <2>3, <2>4
<1>9. ASSUME \A k \in DOMAIN tasks' : ~On(k, n)'
      PROVE  n \in Range(Table') <=> n \in link'
  <2>1. \A k \in DOMAIN tasks : On(k, n) => k = 1
    BY <1>3, <1>4, <1>9
  <2>2. CASE On(1, n)
    <3>1. Final(1, n)
      BY <1>5, <2>1, <2>2 DEF Final
    <3> QED  BY <1>5, <2>2, <3>1 DEF Turn, SameLink
  <2>3. CASE ~On(1, n)
    BY <2>1, <2>3 DEF Turn, SameTable, SameLink
  <2> QED  BY <2>2, <2>3
<1> QED  BY <1>6, <1>7, <1>8, <1>9 DEF Turn

\* The table as far as the history is untouched.
LEMMA TableKept ==
  ASSUME UNCHANGED history
  PROVE  Table' = Table
BY DEF Table

LEMMA NetworksQueued ==
  ASSUME NetworksInv, NEW t, WellFormed(t), Queued(t), ~AboutNetwork(t),
         UNCHANGED <<link, history, resetAt>>
  PROVE  NetworksInv'
<1>1. Table' = Table
  BY TableKept
<1>2. \A n \in Networks : Turn(n)'
  BY <1>1, TurnQueued DEF NetworksInv, SameTable, SameLink
<1>3. /\ TasksFormed'
      /\ DOMAIN tasks' = 1 .. Len(tasks) + 1 /\ DOMAIN tasks = 1 .. Len(tasks)
      /\ Len(tasks) \in Nat
      /\ \A k \in DOMAIN tasks : tasks'[k] = tasks[k]
      /\ tasks'[Len(tasks) + 1] = t
  BY QueuedFormed DEF NetworksInv
<1>4. \A k \in DOMAIN tasks' : k \in DOMAIN tasks \/ tasks'[k] = t
  BY <1>3
<1>5. ReportsFormed'
  BY <1>3, <1>4 DEF NetworksInv, ReportsFormed, AboutNetwork, IsReport
<1> QED  BY <1>1, <1>2, <1>3, <1>5 DEF NetworksInv

LEMMA NetworksReported ==
  ASSUME NetworksInv, NEW n \in Networks, NetworkChanges(n)
  PROVE  NetworksInv'
<1> DEFINE r == NetworkReport(n \notin link, n)
           t == Task("notify", "framework", {"network"}, r)
<1>1. IsReport(r) /\ (r.up <=> n \notin link) /\ r.net = n
  BY DEF IsReport, NetworkReport
<1>2. t.kind = "notify" /\ t.what = {"network"} /\ t.value = r
  BY DEF Task
<1>3. Queued(t) /\ UNCHANGED <<history, resetAt>>
      /\ link' = IF n \in link THEN link \ {n} ELSE link \cup {n}
  BY DEF NetworkChanges, Queue, Queued
<1> HIDE DEF r, t
<1>4. WellFormed(t) /\ AboutNetwork(t)
  BY <1>2 DEF WellFormed, AboutNetwork, Asking, DataItems
<1>5. Table' = Table
  BY <1>3, TableKept
<1>6. Turn(n)'
  BY <1>1, <1>2, <1>3, <1>4, <1>5, TurnReported DEF NetworksInv, SameTable
<1>7. ASSUME NEW m \in Networks, m # n PROVE Turn(m)'
  <2>1. SameLink(m) /\ SameTable(m) /\ t.value.net # m
    BY <1>1, <1>2, <1>3, <1>5, <1>7 DEF SameLink, SameTable
  <2> QED  BY <1>3, <1>4, <2>1, TurnQueued DEF NetworksInv
<1>8. /\ TasksFormed'
      /\ DOMAIN tasks' = 1 .. Len(tasks) + 1 /\ DOMAIN tasks = 1 .. Len(tasks)
      /\ Len(tasks) \in Nat
      /\ \A k \in DOMAIN tasks : tasks'[k] = tasks[k]
      /\ tasks'[Len(tasks) + 1] = t
  BY <1>3, <1>4, QueuedFormed DEF NetworksInv
<1>9. \A k \in DOMAIN tasks' : k \in DOMAIN tasks \/ tasks'[k] = t
  BY <1>8
<1>10. ReportsFormed'
  BY <1>1, <1>2, <1>8, <1>9 DEF NetworksInv, ReportsFormed, AboutNetwork, IsReport
<1>11. \A m \in Networks : Turn(m)'
  BY <1>6, <1>7
<1> QED  BY <1>3, <1>5, <1>8, <1>10, <1>11 DEF NetworksInv

\* A task is handled: only that on a network changes the table.
LEMMA NetworksHandled ==
  ASSUME NetworksInv, HandleTask, StatusAssumption,
         \A m, n \in Networks : TypeOf[m] = TypeOf[n] => m = n
  PROVE  NetworksInv'
<1>1. PICK a : Served(a)
  BY HandlersServe DEF NetworksInv
<1>2. /\ TasksFormed' /\ Len(tasks) \in Nat /\ Len(tasks) > 0 /\ Len(a) \in Nat
      /\ DOMAIN tasks = 1 .. Len(tasks)
      /\ DOMAIN tasks' = 1 .. (Len(tasks) - 1) + Len(a)
      /\ \A k \in 1 .. Len(tasks) - 1 : tasks'[k] = tasks[k + 1]
      /\ \A k \in DOMAIN tasks' : k > Len(tasks) - 1 => ~AboutNetwork(tasks'[k])
      /\ NextTask = tasks[1] /\ WellFormed(tasks[1])
  BY <1>1, ServedFormed DEF NetworksInv
<1>3. ReportsFormed'
  <2>1. ASSUME NEW k \in DOMAIN tasks', AboutNetwork(tasks'[k]) PROVE IsReport(tasks'[k].value)
    <3>1. k + 1 \in DOMAIN tasks /\ tasks'[k] = tasks[k + 1]
      BY <1>2, <2>1
    <3> QED  BY <2>1, <3>1 DEF NetworksInv, ReportsFormed
  <2> QED  BY <2>1 DEF ReportsFormed, IsReport, AboutNetwork
<1>4. UNCHANGED <<link, resetAt>>
  BY DEF HandleTask
<1>5. 1 \in DOMAIN tasks
  BY <1>2
<1>6. CASE UNCHANGED history /\ ~AboutNetwork(tasks[1])
  <2>1. Table' = Table
    BY <1>6, TableKept
  <2>2. ASSUME NEW n \in Networks PROVE Turn(n)'
    <3>1. SameLink(n) /\ SameTable(n) /\ ~On(1, n)
      BY <1>4, <1>6, <2>1 DEF SameLink, SameTable, On
    <3> QED  BY <1>1, <3>1, TurnServed DEF NetworksInv
  <2> QED  BY <1>2, <1>3, <1>4, <1>6, <2>1, <2>2 DEF NetworksInv
<1>7. CASE AboutNetwork(tasks[1])
  <2> DEFINE r == tasks[1].value
             v == Arrived(r)
  <2>1. IsReport(r) /\ r.net \in Networks /\ r.up \in BOOLEAN
    BY <1>5, <1>7 DEF NetworksInv, ReportsFormed, IsReport
  <2>2. On(1, r.net) /\ First(1, r.net)
    BY <1>2, <1>5, <1>7 DEF On, First
  <2>3. r.up <=> r.net \notin Range(Table)
    BY <1>5, <2>1, <2>2 DEF NetworksInv, Turn, Ups
  <2>4. /\ v \in TableReports /\ IsNews(r) /\ IsInjective(v.table)
        /\ Range(v.table) = IF r.up THEN Range(Table) \cup {r.net} ELSE Range(Table) \ {r.net}
        /\ v.types = Types(Range(v.table))
    BY <2>1, <2>3, ReportArrives DEF NetworksInv
  <2>5. NextTask.kind = "notify" /\ NextTask.what = {"network"} /\ NextTask.value = r
    BY <1>2, <1>7 DEF AboutNetwork
  <2>6. HandleNotify
    BY <2>5 DEF HandleTask, HandleSubscribe, HandleUnsubscribe, HandleSetObject, HandleUpdate,
                HandleStatus
  <2>7. history' = Kept(Append(history, v))
    <3>1. (CHOOSE j \in NextTask.what : TRUE) = "network"
      BY <2>5
    <3> HIDE DEF v, r
    <3> QED  BY <2>4, <2>5, <2>6, <3>1 DEF HandleNotify, v
  <2> HIDE DEF v
  <2>8. history' \in Seq(TableReports) /\ history' # <<>> /\ Last(history') = v
    <3>1. ASSUME NEW h, h = Kept(Append(history, v))
          PROVE  h \in Seq(TableReports) /\ h # <<>> /\ Last(h) = v
      BY <2>4, <3>1, KeptLast DEF NetworksInv
    <3> QED  BY <2>7, <3>1
  <2>9. Table' = v.table
    BY <2>8 DEF Table
  <2>10. ASSUME NEW n \in Networks PROVE Turn(n)'
    <3>1. SameLink(n)
      BY <1>4 DEF SameLink
    <3>2. IF On(1, n) THEN Ups(1) <=> n \in Range(Table') ELSE SameTable(n)
      <4>1. On(1, n) <=> n = r.net
        BY <1>7 DEF On
      <4>2. n \in Range(Table') <=> IF r.up THEN n \in Range(Table) \/ n = r.net
                                    ELSE n \in Range(Table) /\ n # r.net
        BY <2>4, <2>9
      <4> QED  BY <2>1, <4>1, <4>2 DEF Ups, SameTable
    <3> QED  BY <1>1, <3>1, <3>2, TurnServed DEF NetworksInv
  <2>11. IsInjective(Table') /\ Last(history').types = Types(Range(Table'))
    BY <2>4, <2>8, <2>9
  <2>12. /\ (history # <<>> => Last(history).types = Types(Range(Table)))'
         /\ (history \in Seq(TableReports))' /\ (IsInjective(Table))'
         /\ (resetAt = 0)' /\ (link \subseteq Networks)'
    BY <1>4, <2>8, <2>11 DEF NetworksInv, TableReports, Types
  <2> QED  BY <1>2, <1>3, <2>10, <2>12 DEF NetworksInv
<1>8. AboutNetwork(tasks[1]) \/ UNCHANGED history
  <2>1. CASE HandleNotify /\ NextTask.what # {"network"}
    <3>1. NextTask.kind = "notify" /\ \E i \in DataItems : NextTask.what = {i}
      BY <1>2, <2>1 DEF HandleNotify, WellFormed
    <3>2. (CHOOSE j \in NextTask.what : TRUE) # "network"
      BY <2>1, <3>1
    <3> QED  BY <2>1, <3>2 DEF HandleNotify
  <2>2. CASE HandleNotify /\ NextTask.what = {"network"}
    BY <1>2, <2>2 DEF HandleNotify, AboutNetwork
  <2> QED  BY <2>1, <2>2 DEF HandleTask, HandleSubscribe, HandleUnsubscribe, HandleSetObject,
                             HandleUpdate, HandleStatus
<1> QED  BY <1>6, <1>7, <1>8

LEMMA NetworksStep ==
  ASSUME NetworksInv, [StatusNext]_statusVars, ~MayReset, StatusAssumption,
         \A m, n \in Networks : TypeOf[m] = TypeOf[n] => m = n
  PROVE  NetworksInv'
<1> DEFINE Same == UNCHANGED <<link, history, resetAt>>
<1>1. ASSUME Same, UNCHANGED tasks PROVE NetworksInv'
  <2>1. Table' = Table
    BY <1>1, TableKept
  <2>2. ASSUME NEW n \in Networks PROVE Turn(n)'
    <3>1. Turn(n) /\ tasks' = tasks /\ link' = link
      BY <1>1 DEF NetworksInv
    <3>2. \A k : (On(k, n)' <=> On(k, n)) /\ (Ups(k)' <=> Ups(k))
      BY <3>1 DEF On, Ups, AboutNetwork
    <3>3. /\ \A k : (First(k, n)' <=> First(k, n)) /\ (Final(k, n)' <=> Final(k, n))
          /\ \A j, k : Follows(k, j, n)' <=> Follows(k, j, n)
      BY <3>1, <3>2 DEF First, Final, Follows
    <3> QED  BY <2>1, <3>1, <3>2, <3>3 DEF Turn
  <2>3. TasksFormed' /\ ReportsFormed'
    BY <1>1 DEF NetworksInv, TasksFormed, WellFormed, ReportsFormed, AboutNetwork, IsReport
  <2> QED  BY <1>1, <2>1, <2>2, <2>3 DEF NetworksInv
<1>2. ASSUME NEW n \in Networks, NetworkChanges(n) PROVE NetworksInv'
  BY <1>2, NetworksReported
<1>3. ASSUME NEW i \in Changing, NEW v \in Values, ItemChanges(i, v) PROVE NetworksInv'
  <2> DEFINE t == IF i = "lock" THEN Task("lock", "adapter", {}, v)
                  ELSE Task("notify", "framework", {i}, v)
  <2>1. i \in Plain
    BY StatusAssumption DEF StatusAssumption, Plain
  <2>2. WellFormed(t) /\ ~AboutNetwork(t)
    BY <2>1 DEF Task, WellFormed, Asking, DataItems, AboutNetwork, Plain
  <2>3. (Queued(t) \/ UNCHANGED tasks) /\ Same
    BY <1>3 DEF ItemChanges, Queue, Queued
  <2> HIDE DEF t
  <2> QED  BY <1>1, <2>2, <2>3, NetworksQueued
<1>4. ASSUME NEW t \in Calls, Call(t) PROVE NetworksInv'
  <2>1. Queued(t) /\ Same
    BY <1>4 DEF Call, Queue, Queued
  <2>2. WellFormed(t) /\ ~AboutNetwork(t)
    BY CallsFormed DEF AboutNetwork
  <2> QED  BY <2>1, <2>2, NetworksQueued
<1>5. ~ResetNext /\ ~FrameworkDies
  BY DEF ResetNext, FrameworkDies, NetworksInv
<1>6. CASE DaemonStarts
  <2> DEFINE t == Task("status", "daemon", {}, None)
  <2>1. WellFormed(t) /\ ~AboutNetwork(t)
    BY DEF Task, WellFormed, Asking, AboutNetwork
  <2>2. Queued(t) /\ Same
    BY <1>6 DEF DaemonStarts, Queue, Queued
  <2> HIDE DEF t
  <2> QED  BY <2>1, <2>2, NetworksQueued
<1>7. CASE DaemonStops \/ UNCHANGED statusVars
  BY <1>1, <1>7 DEF DaemonStops, statusVars
<1>8. CASE HandleTask
  BY <1>8, NetworksHandled
<1> QED  BY <1>2, <1>3, <1>4, <1>5, <1>6, <1>7, <1>8 DEF StatusNext

LEMMA NetworksInit ==
  ASSUME StatusInit
  PROVE  NetworksInv
<1>1. TasksFormed
  BY MapsInit DEF MapsInv
<1>2. \A k \in DOMAIN tasks : ~AboutNetwork(tasks[k])
  <2> DEFINE t1 == Task("subscribe", "xtra", {"network", "mccmnc"}, None)
             t2 == Task("request", "xtra", {"tac"}, None)
             t3 == Task("subscribe", "agps", {"network"}, None)
  <2>1. ~AboutNetwork(t1) /\ ~AboutNetwork(t2) /\ ~AboutNetwork(t3)
    BY DEF Task, AboutNetwork
  <2>2. tasks = <<t1, t2, t3>>
    BY DEF StatusInit
  <2> HIDE DEF t1, t2, t3
  <2> QED  BY <2>1, <2>2
<1>3. history = <<>> /\ link = {} /\ resetAt = 0
  BY DEF StatusInit
<1>4. Table = <<>> /\ Range(Table) = {} /\ IsInjective(Table) /\ history \in Seq(TableReports)
  BY <1>3 DEF Table, Range, IsInjective
<1>5. ASSUME NEW n \in Networks PROVE Turn(n)
  BY <1>2, <1>3, <1>4 DEF Turn, First, Final, Follows, On
<1> QED  BY <1>1, <1>2, <1>3, <1>4, <1>5 DEF NetworksInv, ReportsFormed

\* Whatever the order in which networks come and go and their reports are
\* handled, once nothing is under way the last report of SystemStatus lists
\* exactly the networks that the framework has, each once, with their types:
\* as long as the framework does not die and no two networks have one type,
\* which collate cannot tell apart.
THEOREM StatusNetworksAgree ==
  ASSUME ~MayReset, \A m, n \in Networks : TypeOf[m] = TypeOf[n] => m = n
  PROVE  StatusSpec => []NetworksAgree
<1>1. StatusInit => NetworksInv
  BY NetworksInit
<1>2. NetworksInv /\ [StatusNext]_statusVars => NetworksInv'
  BY NetworksStep, StatusAssumption
<1>3. NetworksInv => NetworksAgree
  <2> SUFFICES ASSUME NetworksInv, StatusQuiet, history # <<>> PROVE NetworksAgree
    BY DEF NetworksAgree
  <2>1. Table = Last(history).table /\ Table \in Seq(Networks)
    <3>1. history \in Seq(TableReports) /\ Len(history) \in DOMAIN history
      BY DEF NetworksInv
    <3>2. Last(history) \in TableReports
      BY <3>1 DEF Last
    <3> QED  BY <3>2 DEF Table, TableReports
  <2>2. \A k \in DOMAIN tasks : FALSE
    BY DEF StatusQuiet
  <2>3. \A n \in Networks : n \in Range(Table) <=> n \in link
    BY <2>2 DEF NetworksInv, Turn
  <2>4. Range(Table) \subseteq Networks /\ link \subseteq Networks
    BY <2>1 DEF NetworksInv, Range
  <2>5. Range(Table) = link
    BY <2>3, <2>4
  <2>6. Len(Table) = Cardinality(Range(Table))
    BY <2>1, StatusAssumption, TableLen DEF NetworksInv
  <2> QED  BY <2>1, <2>5, <2>6 DEF NetworksAgree, NetworksInv
<1> QED  BY <1>1, <1>2, <1>3, PTL DEF StatusSpec

-----------------------------------------------------------------------------
IsQueue(q) == \E S : q \in Seq(S)

TaskFormed(m) ==
  /\ m.op = "client" => /\ m.adapter \in adapters /\ m.client \in Clients
                        /\ m.given \in Offers[m.adapter] \cup {{}}
  /\ m.op = "up" => m.adapter \in adapters
  /\ m.op \in {"agps", "odcpi", "nhz"} => "gnss" \in adapters
  /\ m.op = "nhz" => HubLoaded /\ m.needed \in BOOLEAN
  /\ m.op = "info" => m.report \in [Pieces -> Nat]
ApiFormed(m) == m.op = "open" => m.adapter \in adapters \cup {"none"}

Formed ==
  /\ IsQueue(taskQ) /\ \A k \in DOMAIN taskQ : TaskFormed(taskQ[k])
  /\ IsQueue(apiQ) /\ \A k \in DOMAIN apiQ : ApiFormed(apiQ[k])
  /\ adapters \subseteq Adapters
  /\ callbacks \in [Adapters -> [Clients -> (UNION {Offers[a] : a \in Adapters}) \cup {{}}]]
  /\ DOMAIN evtMask = Adapters
  /\ agps \in BOOLEAN /\ odcpi \in BOOLEAN /\ nhzWish \in BOOLEAN
  /\ modem.up \in BOOLEAN /\ DOMAIN modem = {"up", "mask", "types"}
  /\ DOMAIN upSince = Adapters

\* An open, or the message of a restart, is under way.
IsOpen(m) == m.op = "open" \/ m.op = "ssr"
OpenDue == \E k \in DOMAIN apiQ : IsOpen(apiQ[k])
RestartDue == \E k \in DOMAIN apiQ : apiQ[k].op = "ssr"
Opened ==
  /\ ~OpenDue => modem.mask = Union
  /\ ~modem.up => RestartDue

\* The mask of each adapter is that of its callbacks and handlers.
Housekeeping == HubBits \cup {"info", "nhz"}
GnssWants ==
  (IF Has("gnss", callbacks, "tracking") \/ Has("gnss", callbacks, "data")
   THEN {"position"} ELSE {})
  \cup (IF Has("gnss", callbacks, "sv") THEN {"satellites"} ELSE {})
  \cup (IF Has("gnss", callbacks, "data") \/ (nmeaMask # {} /\ Has("gnss", callbacks, "nmea"))
        THEN {"nmea"} ELSE {})
  \cup (IF agps THEN {"server"} ELSE {}) \cup (IF odcpi THEN {"wifi"} ELSE {})
Masked ==
  /\ evtMask["geofence"] = GeofenceMask(callbacks)
  /\ evtMask["batching"] = BatchingMask(callbacks)
  /\ evtMask["gnss"] \ Housekeeping = GnssWants
  /\ Has("gnss", callbacks, "measurement") => "measurement" \in evtMask["gnss"]
  /\ (\E c \in Clients : callbacks["gnss"][c] # {}) => "info" \in evtMask["gnss"]
  /\ "nhz" \in evtMask["gnss"] => HubLoaded
  /\ nmeaMask = {} \/ nmeaMask = ConfTypes
  /\ \A a \in Adapters \ adapters : evtMask[a] = {} /\ \A c \in Clients : callbacks[a][c] = {}

\* The wishes of the hub that are under way, in their order.
Wish(k) == taskQ[k].op = "nhz"
Needed(k) == taskQ[k].needed
FirstWish(k) == Wish(k) /\ \A j \in DOMAIN taskQ : Wish(j) => k <= j
LastWish(k) == Wish(k) /\ \A j \in DOMAIN taskQ : Wish(j) => j <= k
NextWish(k, j) ==
  j < k /\ Wish(j) /\ Wish(k) /\ \A i \in DOMAIN taskQ : Wish(i) => i <= j \/ k <= i
Measures == "nhz" \in evtMask["gnss"]
Wishes ==
  /\ \A k \in DOMAIN taskQ : FirstWish(k) => (Needed(k) <=> ~Measures)
  /\ \A j, k \in DOMAIN taskQ : NextWish(k, j) => (Needed(k) <=> ~Needed(j))
  /\ \A k \in DOMAIN taskQ : LastWish(k) => (Needed(k) <=> nhzWish)
  /\ (\A k \in DOMAIN taskQ : ~Wish(k)) => (Measures <=> nhzWish)

\* The adapter will learn that the engine came up, or has learned it last.
OpensFor(m, a) == m.op = "ssr" \/ (m.op = "open" /\ m.adapter = a)
ApiDue(a) == \E k \in DOMAIN apiQ : OpensFor(apiQ[k], a)
Up(m, a) == m.op = "up" /\ m.adapter = a
UpDue(a) == \E k \in DOMAIN taskQ : Up(taskQ[k], a)
Newest(k, a) == Up(taskQ[k], a) /\ \A j \in DOMAIN taskQ : Up(taskQ[j], a) => j <= k
Knows(a) ==
  /\ \A k \in DOMAIN taskQ : Newest(k, a) => taskQ[k].since = restarts
  /\ ~UpDue(a) => upSince[a] = restarts
Restarted == \A a \in adapters : ApiDue(a) \/ Knows(a)

\* The adapter will set the NMEA types when it learns that the engine is up.
GnssDue == UpDue("gnss") \/ ApiDue("gnss")
Configured == "gnss" \in adapters => GnssDue \/ nmeaMask = ConfTypes

\* The types that the modem has in the end.
Typed(k) == apiQ[k].op = "types" /\ \A j \in DOMAIN apiQ : apiQ[j].op = "types" => j <= k
TypesSet ==
  /\ \A k \in DOMAIN apiQ : Typed(k) => apiQ[k].types = ConfTypes
  /\ (\A k \in DOMAIN apiQ : apiQ[k].op # "types") => modem.types = ConfTypes
TypesKept == "gnss" \in adapters => GnssDue \/ TypesSet

\* A piece of the system information that a client was told is kept.
Informed ==
  /\ sysInfo \in [Pieces -> Nat] /\ infoSeen \in [Clients -> [Pieces -> Nat]]
  /\ infoSent \in [Pieces -> Nat]
  /\ \A c \in Clients, p \in Pieces : sysInfo[p] = 0 => infoSeen[c][p] = 0
  /\ InfoReaches

MaskInv ==
  /\ Formed /\ Opened /\ Masked /\ (~HubRepeats => Wishes) /\ Restarted /\ Configured
  /\ ("debug" \in ConfTypes => TypesKept) /\ Informed

-----------------------------------------------------------------------------
(***************************************************************************)
(* The queues.                                                             *)
(***************************************************************************)
Elems(u) == {u[k] : k \in DOMAIN u}

\* The queue r is q with the messages of M behind it; r is q without its head.
Grown(r, q, M) ==
  /\ IsQueue(r) /\ Len(q) \in Nat /\ DOMAIN q = 1 .. Len(q)
  /\ \A k \in DOMAIN q : k \in DOMAIN r /\ r[k] = q[k]
  /\ \A k \in DOMAIN r : k \in Nat /\ (k \in DOMAIN q \/ (k > Len(q) /\ r[k] \in M))
  /\ \A m \in M : \E k \in DOMAIN r : k > Len(q) /\ r[k] = m
Shifted(r, q) ==
  /\ IsQueue(r) /\ Len(q) \in Nat /\ 1 \in DOMAIN q /\ Head(q) = q[1]
  /\ DOMAIN q = 1 .. Len(q)
  /\ \A k \in DOMAIN r : k \in Nat /\ k + 1 \in DOMAIN q /\ k + 1 # 1 /\ r[k] = q[k + 1]
  /\ \A k \in DOMAIN q : k \in Nat /\ (k = 1 \/ (k - 1 \in DOMAIN r /\ r[k - 1] = q[k]))

LEMMA OneMessage ==
  ASSUME NEW m
  PROVE  IsQueue(<<m>>) /\ Elems(<<m>>) = {m}
<1>1. <<m>> \in Seq({m})
  OBVIOUS
<1>2. IsQueue(<<m>>)
  BY <1>1, Zenon DEF IsQueue
<1>3. Elems(<<m>>) = {m}
  BY DEF Elems
<1> QED  BY <1>2, <1>3

LEMMA NoMessage == IsQueue(<<>>) /\ Elems(<<>>) = {}
<1>1. <<>> \in Seq({})
  OBVIOUS
<1>2. IsQueue(<<>>)
  BY <1>1, Zenon DEF IsQueue
<1>3. Elems(<<>>) = {}
  BY DEF Elems
<1> QED  BY <1>2, <1>3

LEMMA Grows ==
  ASSUME NEW q, IsQueue(q), NEW u, IsQueue(u), NEW r, r = q \o u
  PROVE  Grown(r, q, Elems(u))
<1>1. PICK S : q \in Seq(S)
  BY DEF IsQueue
<1>2. PICK T : u \in Seq(T)
  BY DEF IsQueue
<1> DEFINE W == S \cup T
<1>3. q \in Seq(W) /\ u \in Seq(W)
  BY <1>1, <1>2, SeqMonotonic
<1> HIDE DEF W
<1>4. /\ r \in Seq(W) /\ Len(r) = Len(q) + Len(u)
      /\ \A k \in 1 .. Len(q) : r[k] = q[k]
      /\ \A k \in 1 .. Len(u) : r[Len(q) + k] = u[k]
  BY <1>3, ConcatProperties
<1>5. /\ Len(q) \in Nat /\ Len(u) \in Nat /\ DOMAIN q = 1 .. Len(q) /\ DOMAIN u = 1 .. Len(u)
      /\ DOMAIN r = 1 .. Len(q) + Len(u)
  BY <1>3, <1>4
<1>6. ASSUME NEW k \in DOMAIN r, k \notin DOMAIN q
      PROVE  k > Len(q) /\ r[k] \in Elems(u)
  <2>1. k > Len(q) /\ k - Len(q) \in 1 .. Len(u) /\ k = Len(q) + (k - Len(q))
    BY <1>5, <1>6
  <2>2. r[k] = u[k - Len(q)]
    BY <1>4, <2>1
  <2> QED  BY <1>5, <2>1, <2>2 DEF Elems
<1>7. ASSUME NEW m \in Elems(u)
      PROVE  \E k \in DOMAIN r : k > Len(q) /\ r[k] = m
  <2>1. PICK i \in 1 .. Len(u) : u[i] = m
    BY <1>5 DEF Elems
  <2>2. Len(q) + i \in DOMAIN r /\ Len(q) + i > Len(q) /\ r[Len(q) + i] = m
    BY <1>4, <1>5, <2>1
  <2> QED  BY <2>2
<1>8. IsQueue(r)
  BY <1>4 DEF IsQueue
<1>9. \A k \in DOMAIN r : k \in Nat
  BY <1>5
<1>10. \A k \in DOMAIN q : k \in DOMAIN r /\ r[k] = q[k]
  BY <1>4, <1>5
<1> QED  BY <1>5, <1>6, <1>7, <1>8, <1>9, <1>10 DEF Grown

LEMMA GrowsTwice ==
  ASSUME NEW r, NEW q, NEW s, NEW M, NEW N, Grown(r, q, M), Grown(s, r, N)
  PROVE  Grown(s, q, M \cup N)
<1>1. Len(r) >= Len(q) /\ Len(r) \in Nat /\ Len(q) \in Nat
  <2>1. DOMAIN q = 1 .. Len(q) /\ DOMAIN r = 1 .. Len(r)
    BY DEF Grown
  <2>2. \A k \in 1 .. Len(q) : k \in 1 .. Len(r)
    BY <2>1 DEF Grown
  <2>3. Len(q) \in Nat /\ Len(r) \in Nat
    BY DEF Grown
  <2> DEFINE m == Len(q)
             n == Len(r)
  <2>4. m \in Nat /\ n \in Nat /\ \A k \in 1 .. m : k \in 1 .. n
    BY <2>2, <2>3
  <2> HIDE DEF m, n
  <2>5. m = 0 \/ m \in 1 .. m
    BY <2>4
  <2>6. n >= m
    BY <2>4, <2>5
  <2> QED  BY <2>3, <2>6 DEF m, n
<1>2. \A k \in DOMAIN s : k \in Nat /\ (k \in DOMAIN q \/ (k > Len(q) /\ s[k] \in M \cup N))
  <2> TAKE k \in DOMAIN s
  <2>1. k \in Nat /\ (k \in DOMAIN r \/ (k > Len(r) /\ s[k] \in N))
    BY DEF Grown
  <2>2. CASE k \in DOMAIN r
    BY <2>1, <2>2 DEF Grown
  <2>3. CASE k > Len(r) /\ s[k] \in N
    BY <1>1, <2>1, <2>3
  <2> QED  BY <2>1, <2>2, <2>3
<1>3. ASSUME NEW m \in M \cup N PROVE \E k \in DOMAIN s : k > Len(q) /\ s[k] = m
  <2>1. CASE m \in M
    BY <2>1 DEF Grown
  <2>2. CASE m \in N
    <3>1. PICK k \in DOMAIN s : k \in Nat /\ k > Len(r) /\ s[k] = m
      BY <2>2 DEF Grown
    <3> QED  BY <1>1, <3>1
  <2> QED  BY <2>1, <2>2
<1> QED  BY <1>2, <1>3 DEF Grown

LEMMA GrowsNot ==
  ASSUME NEW q, IsQueue(q)
  PROVE  Grown(q, q, {})
<1>1. Len(q) \in Nat /\ DOMAIN q = 1 .. Len(q)
  BY DEF IsQueue
<1> QED  BY <1>1 DEF Grown

LEMMA GrowsByOne ==
  ASSUME NEW q, IsQueue(q), NEW m
  PROVE  /\ Grown(Append(q, m), q, {m})
         /\ Grown(q \o <<m>>, q, {m})
         /\ \A k \in DOMAIN Append(q, m) : k \in DOMAIN q \/ k = Len(q) + 1
<1>1. Append(q, m) = q \o <<m>> /\ \A k \in DOMAIN Append(q, m) : k \in DOMAIN q \/ k = Len(q) + 1
  <2>1. PICK S : q \in Seq(S)
    BY DEF IsQueue
  <2> DEFINE W == S \cup {m}
  <2>2. q \in Seq(W) /\ m \in W
    BY <2>1, SeqMonotonic
  <2> HIDE DEF W
  <2>3. Append(q, m) = q \o <<m>>
    BY <2>2
  <2>4. \A k \in DOMAIN Append(q, m) : k \in DOMAIN q \/ k = Len(q) + 1
    BY <2>2
  <2> QED  BY <2>3, <2>4
<1> DEFINE u == <<m>>
           r == q \o u
<1>2. IsQueue(u) /\ Elems(u) = {m}
  BY OneMessage
<1> HIDE DEF u
<1>3. Grown(r, q, {m})
  BY <1>2, Grows
<1> QED  BY <1>1, <1>3 DEF u

LEMMA GrowsByNone ==
  ASSUME NEW q, IsQueue(q)
  PROVE  Grown(q \o <<>>, q, {})
BY Grows, NoMessage

LEMMA Shifts ==
  ASSUME NEW q, IsQueue(q), q # <<>>, NEW r, r = Tail(q)
  PROVE  Shifted(r, q)
<1>1. PICK S : q \in Seq(S)
  BY DEF IsQueue
<1>2. /\ r \in Seq(S) /\ Len(r) = Len(q) - 1 /\ Len(q) \in Nat /\ Len(q) > 0
      /\ \A k \in 1 .. Len(q) - 1 : r[k] = q[k + 1]
      /\ DOMAIN q = 1 .. Len(q) /\ Head(q) = q[1]
  BY <1>1
<1>3. DOMAIN r = 1 .. Len(q) - 1 /\ 1 \in DOMAIN q /\ IsQueue(r)
  BY <1>2 DEF IsQueue
<1>4. \A k \in DOMAIN r : k \in Nat /\ k + 1 \in DOMAIN q /\ k + 1 # 1 /\ r[k] = q[k + 1]
  BY <1>2, <1>3
<1>5. ASSUME NEW k \in DOMAIN q, k # 1 PROVE k - 1 \in DOMAIN r /\ r[k - 1] = q[k]
  <2>1. k - 1 \in 1 .. Len(q) - 1 /\ (k - 1) + 1 = k
    BY <1>2, <1>5
  <2> QED  BY <1>2, <1>3, <2>1
<1>6. \A k \in DOMAIN q : k \in Nat
  BY <1>2
<1> QED  BY <1>2, <1>3, <1>4, <1>5, <1>6 DEF Shifted

LEMMA ElemsConcat ==
  ASSUME NEW q, IsQueue(q), NEW u, IsQueue(u), NEW r, r = q \o u
  PROVE  IsQueue(r) /\ Elems(r) = Elems(q) \cup Elems(u)
<1>1. Grown(r, q, Elems(u))
  BY Grows
<1>2. Elems(r) \subseteq Elems(q) \cup Elems(u)
  BY <1>1 DEF Grown, Elems
<1>3. ASSUME NEW m \in Elems(u) PROVE m \in Elems(r)
  <2>1. \E k \in DOMAIN r : r[k] = m
    BY <1>1, <1>3 DEF Grown
  <2> QED  BY <2>1 DEF Elems
<1>4. Elems(q) \subseteq Elems(r)
  BY <1>1 DEF Grown, Elems
<1> QED  BY <1>1, <1>2, <1>3, <1>4 DEF Grown

UpMsg(a) == [op |-> "up", adapter |-> a, since |-> restarts]

LEMMA UpMsgsElems ==
  ASSUME NEW as
  PROVE  IsQueue(UpMsgs(as)) /\ Elems(UpMsgs(as)) = {UpMsg(a) : a \in as \cap Adapters}
<1> DEFINE one(a) == IF a \in as
                     THEN <<[op |-> "up", adapter |-> a, since |-> restarts]>> ELSE <<>>
           g == one("gnss")
           f == one("geofence")
           b == one("batching")
           gf == g \o f
           u == gf \o b
<1>1. ASSUME NEW a PROVE IsQueue(one(a)) /\ Elems(one(a)) = IF a \in as THEN {UpMsg(a)} ELSE {}
  <2>1. CASE a \in as
    <3> DEFINE m == UpMsg(a)
    <3>1. one(a) = <<m>>
      BY <2>1 DEF UpMsg
    <3> HIDE DEF m, one
    <3>2. IsQueue(<<m>>) /\ Elems(<<m>>) = {m}
      BY OneMessage
    <3> QED  BY <2>1, <3>1, <3>2 DEF m
  <2>2. CASE a \notin as
    BY <2>2, NoMessage
  <2> QED  BY <2>1, <2>2
<1>2. UpMsgs(as) = u
  BY DEF UpMsgs
<1>3. /\ IsQueue(g) /\ Elems(g) = IF "gnss" \in as THEN {UpMsg("gnss")} ELSE {}
      /\ IsQueue(f) /\ Elems(f) = IF "geofence" \in as THEN {UpMsg("geofence")} ELSE {}
      /\ IsQueue(b) /\ Elems(b) = IF "batching" \in as THEN {UpMsg("batching")} ELSE {}
  BY <1>1
<1> HIDE DEF g, f, b
<1>4. IsQueue(gf) /\ Elems(gf) = Elems(g) \cup Elems(f)
  BY <1>3, ElemsConcat
<1> HIDE DEF gf
<1>5. IsQueue(u) /\ Elems(u) = Elems(gf) \cup Elems(b)
  BY <1>3, <1>4, ElemsConcat
<1> HIDE DEF u
<1>6. \A m : m \in Elems(u) <=> \E a \in as \cap Adapters : m = UpMsg(a)
  BY <1>3, <1>4, <1>5 DEF Adapters
<1> QED  BY <1>2, <1>5, <1>6

-----------------------------------------------------------------------------
(***************************************************************************)
(* What is due, and the opening of the modem.                              *)
(***************************************************************************)
LEMMA ApiDueGrows ==
  ASSUME NEW M, Grown(apiQ', apiQ, M)
  PROVE  /\ OpenDue \/ (\E m \in M : IsOpen(m)) => OpenDue'
         /\ RestartDue \/ (\E m \in M : m.op = "ssr") => RestartDue'
         /\ \A a : ApiDue(a) \/ (\E m \in M : OpensFor(m, a)) => ApiDue(a)'
BY DEF Grown, OpenDue, RestartDue, ApiDue, IsOpen, OpensFor

LEMMA ApiDueShifts ==
  ASSUME Shifted(apiQ', apiQ)
  PROVE  /\ OpenDue => OpenDue' \/ IsOpen(apiQ[1])
         /\ RestartDue => RestartDue' \/ apiQ[1].op = "ssr"
         /\ RestartDue' => OpenDue' /\ \A a : ApiDue(a)'
         /\ \A a : ApiDue(a) => ApiDue(a)' \/ OpensFor(apiQ[1], a)
BY DEF Shifted, OpenDue, RestartDue, ApiDue, IsOpen, OpensFor

LEMMA UpDueGrows ==
  ASSUME NEW M, Grown(taskQ', taskQ, M), NEW a
  PROVE  UpDue(a)' <=> UpDue(a) \/ \E m \in M : Up(m, a)
BY DEF Grown, UpDue, Up

LEMMA UpDueShifts ==
  ASSUME Shifted(taskQ', taskQ), NEW a
  PROVE  /\ UpDue(a)' => UpDue(a)
         /\ UpDue(a) => UpDue(a)' \/ Up(taskQ[1], a)
BY DEF Shifted, UpDue, Up

\* An adapter that knows of the last restart still does.
LEMMA KnowsGrows ==
  ASSUME NEW M, Grown(taskQ', taskQ, M), NEW a, Knows(a), ~\E m \in M : Up(m, a),
         UNCHANGED restarts, upSince'[a] = upSince[a]
  PROVE  Knows(a)'
<1>1. \A k \in DOMAIN taskQ' : Newest(k, a)' => k \in DOMAIN taskQ /\ Newest(k, a)
  BY DEF Grown, Newest, Up
<1>2. \A k \in DOMAIN taskQ : taskQ'[k] = taskQ[k]
  BY DEF Grown
<1>3. ~UpDue(a)' => ~UpDue(a)
  BY UpDueGrows
<1> QED  BY <1>1, <1>2, <1>3 DEF Knows

LEMMA KnowsTold ==
  ASSUME NEW M, Grown(taskQ', taskQ, M), NEW a, \E m \in M : Up(m, a),
         \A m \in M : Up(m, a) => m.since = restarts, UNCHANGED restarts
  PROVE  Knows(a)'
<1>1. UpDue(a)'
  BY UpDueGrows
<1>2. PICK j \in DOMAIN taskQ' : j > Len(taskQ) /\ Up(taskQ'[j], a)
  BY DEF Grown
<1>3. ASSUME NEW k \in DOMAIN taskQ', Newest(k, a)' PROVE taskQ'[k].since = restarts'
  <2>1. j <= k /\ Up(taskQ'[k], a)
    BY <1>2, <1>3 DEF Newest, Up
  <2>2. j \in Nat /\ k \in Nat /\ Len(taskQ) \in Nat /\ DOMAIN taskQ = 1 .. Len(taskQ)
    BY DEF Grown
  <2>3. k \notin DOMAIN taskQ
    BY <1>2, <2>1, <2>2
  <2>4. taskQ'[k] \in M
    BY <2>3 DEF Grown
  <2> QED  BY <2>1, <2>4
<1> QED  BY <1>1, <1>3 DEF Knows

LEMMA KnowsShifts ==
  ASSUME Shifted(taskQ', taskQ), NEW a, Knows(a), UNCHANGED restarts,
         upSince'[a] = IF Up(taskQ[1], a) THEN taskQ[1].since ELSE upSince[a]
  PROVE  Knows(a)'
<1>1. ASSUME NEW k \in DOMAIN taskQ', Newest(k, a)' PROVE taskQ'[k].since = restarts'
  <2>1. k \in Nat /\ k + 1 \in DOMAIN taskQ /\ taskQ'[k] = taskQ[k + 1]
    BY DEF Shifted
  <2>2. ASSUME NEW j \in DOMAIN taskQ, Up(taskQ[j], a) PROVE j <= k + 1
    <3>1. CASE j = 1
      BY <2>1, <3>1
    <3>2. CASE j - 1 \in DOMAIN taskQ' /\ taskQ'[j - 1] = taskQ[j]
      <4>1. j - 1 <= k /\ j \in Nat
        BY <1>1, <2>2, <3>2 DEF Newest, Up, Shifted
      <4> QED  BY <2>1, <4>1
    <3> QED  BY <3>1, <3>2 DEF Shifted
  <2>3. Up(taskQ[k + 1], a)
    BY <1>1, <2>1 DEF Newest, Up
  <2>4. Newest(k + 1, a)
    BY <2>2, <2>3 DEF Newest
  <2> QED  BY <2>1, <2>4 DEF Knows
<1>2. ASSUME ~UpDue(a)' PROVE upSince'[a] = restarts'
  <2>1. \A j \in DOMAIN taskQ : Up(taskQ[j], a) => j = 1
    BY <1>2 DEF Shifted, UpDue, Up
  <2>2. CASE Up(taskQ[1], a)
    <3>1. Newest(1, a) /\ 1 \in DOMAIN taskQ
      BY <2>1, <2>2 DEF Newest, Shifted
    <3> QED  BY <2>2, <3>1 DEF Knows
  <2>3. CASE ~Up(taskQ[1], a)
    BY <2>1, <2>3 DEF Knows, UpDue
  <2> QED  BY <2>2, <2>3
<1> QED  BY <1>1, <1>2 DEF Knows

-----------------------------------------------------------------------------
(***************************************************************************)
(* The wishes of the hub.                                                  *)
(***************************************************************************)
LEMMA WishesGrow ==
  ASSUME NEW M, Grown(taskQ', taskQ, M), Wishes, \A m \in M : m.op # "nhz",
         UNCHANGED nhzWish, Measures' <=> Measures
  PROVE  Wishes'
<1>1. \A k \in DOMAIN taskQ : k \in DOMAIN taskQ' /\ taskQ'[k] = taskQ[k]
  BY DEF Grown
<1>2. \A k \in DOMAIN taskQ' : Wish(k)' => k \in DOMAIN taskQ
  BY DEF Grown, Wish
<1>3. \A k \in DOMAIN taskQ : (Wish(k)' <=> Wish(k)) /\ (Needed(k))' = Needed(k)
  BY <1>1 DEF Wish, Needed
<1>4. \A k \in DOMAIN taskQ' :
        /\ FirstWish(k)' => k \in DOMAIN taskQ /\ FirstWish(k)
        /\ LastWish(k)' => k \in DOMAIN taskQ /\ LastWish(k)
  BY <1>1, <1>2, <1>3 DEF FirstWish, LastWish
<1>5. \A j, k \in DOMAIN taskQ' :
        NextWish(k, j)' => j \in DOMAIN taskQ /\ k \in DOMAIN taskQ /\ NextWish(k, j)
  BY <1>1, <1>2, <1>3 DEF NextWish
<1>6. (\A k \in DOMAIN taskQ' : ~Wish(k)') => \A k \in DOMAIN taskQ : ~Wish(k)
  BY <1>1, <1>3
<1> QED  BY <1>1, <1>3, <1>4, <1>5, <1>6 DEF Wishes

\* The hub says something new.
LEMMA WishesSaid ==
  ASSUME NEW m, Grown(taskQ', taskQ, {m}), Wishes, m.op = "nhz", m.needed \in BOOLEAN,
         nhzWish \in BOOLEAN, m.needed # nhzWish, nhzWish' = m.needed, Measures' <=> Measures,
         \A k \in DOMAIN taskQ' : k \in DOMAIN taskQ \/ k = Len(taskQ) + 1
  PROVE  Wishes'
<1> PICK N : N = Len(taskQ) + 1
  OBVIOUS
<1>1. \A k \in DOMAIN taskQ : k \in DOMAIN taskQ' /\ taskQ'[k] = taskQ[k]
  BY DEF Grown
<1>2. /\ N \in DOMAIN taskQ' /\ taskQ'[N] = m /\ N \notin DOMAIN taskQ
      /\ \A k \in DOMAIN taskQ : k < N /\ ~(N <= k) /\ k <= N
      /\ N <= N
  <2>1. Len(taskQ) \in Nat /\ DOMAIN taskQ = 1 .. Len(taskQ)
    BY DEF Grown
  <2>2. PICK k \in DOMAIN taskQ' : k > Len(taskQ) /\ taskQ'[k] = m
    BY DEF Grown
  <2>3. k = N
    BY <2>1, <2>2
  <2>4. \A i \in DOMAIN taskQ : i < N /\ ~(N <= i) /\ i <= N
    BY <2>1
  <2>5. N \notin DOMAIN taskQ /\ N <= N
    BY <2>1
  <2> QED  BY <2>2, <2>3, <2>4, <2>5
<1>3. \A k \in DOMAIN taskQ' : k \in DOMAIN taskQ \/ k = N
  OBVIOUS
<1>4. \A k \in DOMAIN taskQ : (Wish(k)' <=> Wish(k)) /\ (Needed(k))' = Needed(k)
  BY <1>1 DEF Wish, Needed
<1>5. Wish(N)' /\ (Needed(N))' = m.needed
  BY <1>2 DEF Wish, Needed
<1>6. ASSUME NEW k \in DOMAIN taskQ', FirstWish(k)'
      PROVE  Needed(k)' <=> ~Measures'
  <2>1. CASE k \in DOMAIN taskQ
    <3>1. FirstWish(k)
      BY <1>1, <1>4, <1>6, <2>1 DEF FirstWish
    <3> QED  BY <1>4, <2>1, <3>1 DEF Wishes
  <2>2. CASE k = N
    <3>1. \A j \in DOMAIN taskQ : ~Wish(j)
      BY <1>1, <1>2, <1>4, <1>6, <2>2 DEF FirstWish
    <3>2. Measures <=> nhzWish
      BY <3>1 DEF Wishes
    <3> QED  BY <1>5, <2>2, <3>2
  <2> QED  BY <1>3, <2>1, <2>2
<1>7. ASSUME NEW j \in DOMAIN taskQ', NEW k \in DOMAIN taskQ', NextWish(k, j)'
      PROVE  Needed(k)' <=> ~Needed(j)'
  <2>0. j \in DOMAIN taskQ
    <3>1. j < k
      BY <1>7 DEF NextWish
    <3>2. j # N
      <4> SUFFICES ASSUME j = N PROVE FALSE
        OBVIOUS
      <4>1. CASE k \in DOMAIN taskQ
        <5>1. k < N /\ k \in Nat /\ N \in Nat
          BY <1>2, <4>1 DEF Grown
        <5> QED  BY <3>1, <5>1
      <4>2. CASE k = N
        <5>1. N \in Nat
          BY DEF Grown
        <5> QED  BY <3>1, <4>2, <5>1
      <4> QED  BY <1>3, <4>1, <4>2
    <3> QED  BY <1>3, <3>2
  <2>1. CASE k \in DOMAIN taskQ
    <3>1. NextWish(k, j)
      BY <1>1, <1>4, <1>7, <2>0, <2>1 DEF NextWish
    <3> QED  BY <1>4, <2>0, <2>1, <3>1 DEF Wishes
  <2>2. CASE k = N
    <3>1. LastWish(j)
      BY <1>1, <1>2, <1>4, <1>7, <2>0, <2>2 DEF NextWish, LastWish
    <3>2. Needed(j) <=> nhzWish
      BY <2>0, <3>1 DEF Wishes
    <3> QED  BY <1>4, <1>5, <2>0, <2>2, <3>2
  <2> QED  BY <1>3, <2>1, <2>2
<1>8. ASSUME NEW k \in DOMAIN taskQ', LastWish(k)'
      PROVE  Needed(k)' <=> nhzWish'
  <2>1. k = N
    BY <1>2, <1>3, <1>5, <1>8 DEF LastWish
  <2> QED  BY <1>5, <2>1
<1> QED  BY <1>2, <1>5, <1>6, <1>7, <1>8 DEF Wishes

\* A message is handled; a wish of the hub is taken at its word.
LEMMA WishesShift ==
  ASSUME Shifted(taskQ', taskQ), Wishes, UNCHANGED nhzWish,
         IF Wish(1) THEN Needed(1) <=> Measures' ELSE Measures' <=> Measures
  PROVE  Wishes'
<1>1. \A k \in DOMAIN taskQ' : /\ k \in Nat /\ k + 1 \in DOMAIN taskQ /\ k + 1 # 1
                               /\ (Wish(k)' <=> Wish(k + 1))
                               /\ (Needed(k))' = Needed(k + 1)
  BY DEF Shifted, Wish, Needed
<1>2. 1 \in DOMAIN taskQ /\ \A k \in DOMAIN taskQ :
        k \in Nat /\ (k = 1 \/ (k - 1 \in DOMAIN taskQ' /\ (Wish(k - 1)' <=> Wish(k))))
  BY DEF Shifted, Wish
<1>3. ASSUME NEW k \in DOMAIN taskQ', FirstWish(k)'
      PROVE  Needed(k)' <=> ~Measures'
  <2>1. ASSUME NEW i \in DOMAIN taskQ, Wish(i), i # 1 PROVE k + 1 <= i
    <3>1. k <= i - 1
      BY <1>2, <1>3, <2>1 DEF FirstWish
    <3> QED  BY <1>1, <1>2, <3>1
  <2>2. CASE Wish(1)
    <3>1. \A i \in DOMAIN taskQ : Wish(i) => i <= 1 \/ k + 1 <= i
      <4>1. 1 <= 1
        OBVIOUS
      <4> QED  BY <2>1, <4>1
    <3>2. NextWish(k + 1, 1)
      <4>1. 1 < k + 1
        BY <1>1, <1>2
      <4>2. Wish(k + 1)
        BY <1>1, <1>3 DEF FirstWish
      <4> QED  BY <2>2, <3>1, <4>1, <4>2 DEF NextWish
    <3>3. Needed(k + 1) <=> ~Needed(1)
      BY <1>1, <1>2, <3>2 DEF Wishes
    <3> QED  BY <1>1, <2>2, <3>3
  <2>3. CASE ~Wish(1)
    <3>1. FirstWish(k + 1)
      BY <1>1, <1>3, <2>1, <2>3 DEF FirstWish
    <3> QED  BY <1>1, <2>3, <3>1 DEF Wishes
  <2> QED  BY <2>2, <2>3
<1>4. ASSUME NEW j \in DOMAIN taskQ', NEW k \in DOMAIN taskQ', NextWish(k, j)'
      PROVE  Needed(k)' <=> ~Needed(j)'
  <2>1. ASSUME NEW i \in DOMAIN taskQ, Wish(i) PROVE i <= j + 1 \/ k + 1 <= i
    <3>1. CASE i = 1
      BY <1>1, <3>1
    <3>2. CASE i - 1 \in DOMAIN taskQ' /\ Wish(i - 1)'
      <4>1. i - 1 <= j \/ k <= i - 1
        BY <1>4, <3>2 DEF NextWish
      <4> QED  BY <1>1, <1>2, <4>1
    <3> QED  BY <1>2, <2>1, <3>1, <3>2
  <2>2. j + 1 < k + 1
    <3>1. j < k
      BY <1>4 DEF NextWish
    <3> QED  BY <1>1, <3>1
  <2>3. Wish(j + 1) /\ Wish(k + 1)
    BY <1>1, <1>4 DEF NextWish
  <2>4. NextWish(k + 1, j + 1)
    BY <2>1, <2>2, <2>3 DEF NextWish
  <2> QED  BY <1>1, <2>4 DEF Wishes
<1>5. ASSUME NEW k \in DOMAIN taskQ', LastWish(k)'
      PROVE  Needed(k)' <=> nhzWish'
  <2>1. ASSUME NEW i \in DOMAIN taskQ, Wish(i) PROVE i <= k + 1
    <3>1. CASE i = 1
      BY <1>1, <3>1
    <3>2. CASE i - 1 \in DOMAIN taskQ' /\ Wish(i - 1)'
      <4>1. i - 1 <= k
        BY <1>5, <3>2 DEF LastWish
      <4> QED  BY <1>1, <1>2, <4>1
    <3> QED  BY <1>2, <2>1, <3>1, <3>2
  <2>2. LastWish(k + 1)
    BY <1>1, <1>5, <2>1 DEF LastWish
  <2> QED  BY <1>1, <2>2 DEF Wishes
<1>6. ASSUME \A k \in DOMAIN taskQ' : ~Wish(k)'
      PROVE  Measures' <=> nhzWish'
  <2>1. \A k \in DOMAIN taskQ : Wish(k) => k = 1
    BY <1>2, <1>6
  <2>2. CASE Wish(1)
    <3>1. LastWish(1)
      <4>1. 1 <= 1
        OBVIOUS
      <4> QED  BY <2>1, <2>2, <4>1 DEF LastWish
    <3> QED  BY <1>2, <2>2, <3>1 DEF Wishes
  <2>3. CASE ~Wish(1)
    BY <2>1, <2>3 DEF Wishes
  <2> QED  BY <2>2, <2>3
<1> QED  BY <1>3, <1>4, <1>5, <1>6 DEF Wishes

-----------------------------------------------------------------------------
(***************************************************************************)
(* The NMEA types.                                                         *)
(***************************************************************************)
LEMMA TypesGrow ==
  ASSUME NEW M, Grown(apiQ', apiQ, M), \A m \in M : m.op = "types" => m.types = ConfTypes,
         \/ TypesSet /\ modem'.types = modem.types
         \/ \E m \in M : m.op = "types"
  PROVE  TypesSet'
<1>1. \A k \in DOMAIN apiQ : k \in DOMAIN apiQ' /\ apiQ'[k] = apiQ[k]
  BY DEF Grown
<1>2. ASSUME NEW k \in DOMAIN apiQ', Typed(k)' PROVE apiQ'[k].types = ConfTypes
  <2>1. apiQ'[k].op = "types" /\ k \in Nat /\ \A j \in DOMAIN apiQ' : apiQ'[j].op = "types" => j <= k
    BY <1>2 DEF Typed, Grown
  <2>2. CASE k \notin DOMAIN apiQ
    BY <2>1, <2>2 DEF Grown
  <2>3. CASE k \in DOMAIN apiQ
    <3>1. Typed(k)
      BY <1>1, <2>1, <2>3 DEF Typed
    <3>2. ~\E m \in M : m.op = "types"
      <4> SUFFICES ASSUME NEW m \in M, m.op = "types" PROVE FALSE
        OBVIOUS
      <4>1. PICK j \in DOMAIN apiQ' : j > Len(apiQ) /\ apiQ'[j] = m
        BY DEF Grown
      <4>2. j <= k /\ j \in Nat /\ Len(apiQ) \in Nat /\ k <= Len(apiQ)
        BY <2>1, <2>3, <4>1 DEF Grown
      <4> QED  BY <2>1, <4>1, <4>2
    <3> QED  BY <1>1, <2>3, <3>1, <3>2 DEF TypesSet
  <2> QED  BY <2>2, <2>3
<1>3. ASSUME \A k \in DOMAIN apiQ' : apiQ'[k].op # "types" PROVE modem'.types = ConfTypes
  <2>1. ~\E m \in M : m.op = "types"
    BY <1>3 DEF Grown
  <2>2. \A k \in DOMAIN apiQ : apiQ[k].op # "types"
    BY <1>1, <1>3
  <2> QED  BY <2>1, <2>2 DEF TypesSet
<1> QED  BY <1>2, <1>3 DEF TypesSet, Typed

LEMMA TypesShift ==
  ASSUME Shifted(apiQ', apiQ), TypesSet,
         modem'.types = IF apiQ[1].op = "types" THEN apiQ[1].types ELSE modem.types
  PROVE  TypesSet'
<1>1. ASSUME NEW k \in DOMAIN apiQ', Typed(k)' PROVE apiQ'[k].types = ConfTypes
  <2>1. k \in Nat /\ k + 1 \in DOMAIN apiQ /\ apiQ'[k] = apiQ[k + 1]
    BY DEF Shifted
  <2>2. ASSUME NEW j \in DOMAIN apiQ, apiQ[j].op = "types" PROVE j <= k + 1
    <3>1. CASE j = 1
      BY <2>1, <3>1
    <3>2. CASE j - 1 \in DOMAIN apiQ' /\ apiQ'[j - 1] = apiQ[j]
      <4>1. j - 1 <= k /\ j \in Nat
        BY <1>1, <2>2, <3>2 DEF Typed, Shifted
      <4> QED  BY <2>1, <4>1
    <3> QED  BY <3>1, <3>2 DEF Shifted
  <2>3. Typed(k + 1)
    BY <1>1, <2>1, <2>2 DEF Typed
  <2> QED  BY <2>1, <2>3 DEF TypesSet
<1>2. ASSUME \A k \in DOMAIN apiQ' : apiQ'[k].op # "types" PROVE modem'.types = ConfTypes
  <2>1. \A j \in DOMAIN apiQ : apiQ[j].op = "types" => j = 1
    BY <1>2 DEF Shifted
  <2>2. CASE apiQ[1].op = "types"
    <3>1. Typed(1) /\ 1 \in DOMAIN apiQ
      BY <2>1, <2>2 DEF Typed, Shifted
    <3> QED  BY <2>2, <3>1 DEF TypesSet
  <2>3. CASE apiQ[1].op # "types"
    BY <2>1, <2>3 DEF TypesSet
  <2> QED  BY <2>2, <2>3
<1> QED  BY <1>1, <1>2 DEF TypesSet, Typed

-----------------------------------------------------------------------------
(***************************************************************************)
(* The masks of the adapters.                                              *)
(***************************************************************************)
\* What GnssWants says, of other callbacks.
WantsOf(given, types) ==
  (IF Has("gnss", given, "tracking") \/ Has("gnss", given, "data")
   THEN {"position"} ELSE {})
  \cup (IF Has("gnss", given, "sv") THEN {"satellites"} ELSE {})
  \cup (IF Has("gnss", given, "data") \/ (types # {} /\ Has("gnss", given, "nmea"))
        THEN {"nmea"} ELSE {})
  \cup (IF agps THEN {"server"} ELSE {}) \cup (IF odcpi THEN {"wifi"} ELSE {})

LEMMA GnssMaskWants ==
  ASSUME NEW given
  PROVE  /\ GnssMask(given) \ Housekeeping = WantsOf(given, nmeaMask)
         /\ Has("gnss", given, "measurement") => "measurement" \in GnssMask(given)
         /\ "info" \in GnssMask(given)
         /\ "nhz" \in GnssMask(given) <=> HubLoaded /\ "nhz" \in evtMask["gnss"]
<1> DEFINE track == Has("gnss", given, "tracking")
           data == Has("gnss", given, "data")
           sv == Has("gnss", given, "sv")
           nmea == Has("gnss", given, "nmea")
           meas == Has("gnss", given, "measurement")
           e == evtMask["gnss"]
<1>1. GnssMask(given) =
        {"info"}
        \cup (IF track THEN {"position"} ELSE {})
        \cup (IF sv THEN {"satellites"} ELSE {})
        \cup (IF nmea /\ nmeaMask # {} THEN {"nmea"} ELSE {})
        \cup (IF meas THEN {"measurement"} ELSE {})
        \cup (IF data THEN {"position", "nmea"} ELSE {})
        \cup (IF HubLoaded THEN HubBits \cup (e \cap {"nhz"}) ELSE {})
        \cup (IF agps THEN {"server"} ELSE {})
        \cup (IF odcpi THEN {"wifi"} ELSE {})
  BY DEF GnssMask
<1>2. WantsOf(given, nmeaMask) =
        (IF track \/ data THEN {"position"} ELSE {})
        \cup (IF sv THEN {"satellites"} ELSE {})
        \cup (IF data \/ (nmeaMask # {} /\ nmea) THEN {"nmea"} ELSE {})
        \cup (IF agps THEN {"server"} ELSE {}) \cup (IF odcpi THEN {"wifi"} ELSE {})
  BY DEF WantsOf
<1> HIDE DEF track, data, sv, nmea, meas, e
<1> DEFINE G == GnssMask(given)
           W == WantsOf(given, nmeaMask)
<1> HIDE DEF G, W
<1>3. /\ "info" \in G
      /\ "position" \in G <=> track \/ data
      /\ "satellites" \in G <=> sv
      /\ "nmea" \in G <=> (nmea /\ nmeaMask # {}) \/ data
      /\ meas => "measurement" \in G
      /\ "nhz" \in G <=> HubLoaded /\ "nhz" \in e
      /\ "server" \in G <=> agps
      /\ "wifi" \in G <=> odcpi
      /\ \A x \in G : x \in Housekeeping \cup {"position", "satellites", "nmea", "server", "wifi"}
  BY <1>1 DEF G, HubBits, Housekeeping
<1>4. /\ "position" \in W <=> track \/ data
      /\ "satellites" \in W <=> sv
      /\ "nmea" \in W <=> (nmea /\ nmeaMask # {}) \/ data
      /\ "server" \in W <=> agps
      /\ "wifi" \in W <=> odcpi
      /\ \A x \in W : x \in {"position", "satellites", "nmea", "server", "wifi"}
  BY <1>2 DEF W
<1>5. \A x \in {"position", "satellites", "nmea", "server", "wifi"} : x \notin Housekeeping
  BY DEF Housekeeping, HubBits
<1>6. \A x : x \in G \ Housekeeping <=> x \in W
  BY <1>3, <1>4, <1>5
<1>7. G \ Housekeeping = W
  BY <1>6
<1> QED  BY <1>3, <1>7 DEF G, W, meas, e

\* Only the configuration is read of the masks of the other adapters.
LEMMA Unmasked ==
  ASSUME NEW given, \A c \in Clients : given["gnss"][c] = {}
  PROVE  \A cb : ~Has("gnss", given, cb)
BY DEF Has

LEMMA MaskedClient ==
  ASSUME Formed, Masked, NEW a \in adapters, NEW c \in Clients, NEW given,
         given \in Offers[a] \cup {{}}, AddClient(a, c, given), UNCHANGED <<adapters, agps, odcpi>>
  PROVE  /\ Masked' /\ (Measures' <=> Measures)
         /\ callbacks' \in [Adapters -> [Clients -> (UNION {Offers[b] : b \in Adapters}) \cup {{}}]]
         /\ DOMAIN evtMask' = Adapters
<1>1. a \in Adapters /\ UNCHANGED nmeaMask
  BY DEF Formed, AddClient
<1>2. /\ callbacks' = [callbacks EXCEPT ![a][c] = given]
      /\ evtMask' = [evtMask EXCEPT ![a] = ClientsMask(a, callbacks')]
  BY DEF AddClient
<1>3. /\ evtMask'[a] = ClientsMask(a, callbacks') /\ DOMAIN evtMask' = Adapters
      /\ \A b \in Adapters : b # a => evtMask'[b] = evtMask[b]
  BY <1>1, <1>2 DEF Formed
<1>4. /\ \A b \in Adapters : b # a => callbacks'[b] = callbacks[b]
      /\ callbacks' \in [Adapters -> [Clients -> (UNION {Offers[b] : b \in Adapters}) \cup {{}}]]
  <2> DEFINE All == (UNION {Offers[b] : b \in Adapters}) \cup {{}}
  <2>1. given \in All
    BY <1>1
  <2>2. callbacks \in [Adapters -> [Clients -> All]]
    BY DEF Formed
  <2> HIDE DEF All
  <2>3. /\ \A b \in Adapters : b # a => callbacks'[b] = callbacks[b]
        /\ callbacks' \in [Adapters -> [Clients -> All]]
    BY <1>1, <1>2, <2>1, <2>2
  <2> QED  BY <2>3 DEF All
<1>5. \A b \in Adapters : \A cb : b # a => (Has(b, callbacks', cb) <=> Has(b, callbacks, cb))
  BY <1>4 DEF Has
<1>6. "gnss" \in Adapters /\ "geofence" \in Adapters /\ "batching" \in Adapters
  BY DEF Adapters
<1>7. GnssWants = WantsOf(callbacks, nmeaMask) /\ GnssWants' = WantsOf(callbacks', nmeaMask)
  BY <1>1 DEF GnssWants, WantsOf, Has
<1>8. evtMask'["geofence"] = GeofenceMask(callbacks')
  BY <1>3, <1>5, <1>6 DEF Masked, ClientsMask, GeofenceMask
<1>9. evtMask'["batching"] = BatchingMask(callbacks')
  BY <1>3, <1>5, <1>6 DEF Masked, ClientsMask, BatchingMask
<1>10. /\ evtMask'["gnss"] \ Housekeeping = GnssWants'
       /\ Has("gnss", callbacks', "measurement") => "measurement" \in evtMask'["gnss"]
       /\ (\E d \in Clients : callbacks'["gnss"][d] # {}) => "info" \in evtMask'["gnss"]
       /\ "nhz" \in evtMask'["gnss"] <=> "nhz" \in evtMask["gnss"]
  <2>1. CASE a = "gnss"
    <3>1. evtMask'["gnss"] = GnssMask(callbacks')
      BY <1>3, <2>1 DEF ClientsMask
    <3> QED  BY <1>7, <3>1, GnssMaskWants DEF Masked
  <2>2. CASE a # "gnss"
    <3>1. GnssWants' = GnssWants
      BY <1>5, <1>6, <1>7, <2>2 DEF WantsOf
    <3> QED  BY <1>3, <1>4, <1>5, <1>6, <2>2, <3>1 DEF Masked
  <2> QED  BY <2>1, <2>2
<1>11. \A b \in Adapters \ adapters : evtMask'[b] = {} /\ \A d \in Clients : callbacks'[b][d] = {}
  BY <1>3, <1>4 DEF Masked
<1>12. /\ GeofenceMask(callbacks)' = GeofenceMask(callbacks')
       /\ BatchingMask(callbacks)' = BatchingMask(callbacks')
       /\ Has("gnss", callbacks, "measurement")' <=> Has("gnss", callbacks', "measurement")
  BY DEF GeofenceMask, BatchingMask, Has
<1>13. Masked'
  BY <1>1, <1>8, <1>9, <1>10, <1>11, <1>12 DEF Masked
<1> QED  BY <1>3, <1>4, <1>10, <1>13 DEF Measures

\* The types of the configuration are registered.
LEMMA MaskedConfig ==
  ASSUME Formed, Masked, SetConfig, UNCHANGED <<adapters, callbacks, agps, odcpi>>,
         "gnss" \in adapters
  PROVE  Masked' /\ (Measures' <=> Measures) /\ DOMAIN evtMask' = Adapters
<1> DEFINE enable == nmeaMask # ConfTypes /\ ConfTypes # {} /\ Has("gnss", callbacks, "nmea")
           data == Has("gnss", callbacks, "data")
           nmea == Has("gnss", callbacks, "nmea")
<1>1. /\ nmeaMask' = ConfTypes
      /\ evtMask' = IF enable THEN [evtMask EXCEPT !["gnss"] = @ \cup {"nmea"}] ELSE evtMask
  BY DEF SetConfig
<1>2. "gnss" \in Adapters /\ DOMAIN evtMask = Adapters
  BY DEF Formed, Adapters
<1>3. /\ DOMAIN evtMask' = Adapters /\ \A b \in Adapters : b # "gnss" => evtMask'[b] = evtMask[b]
      /\ evtMask'["gnss"] = evtMask["gnss"] \cup (IF enable THEN {"nmea"} ELSE {})
  BY <1>1, <1>2
<1>4. /\ GnssWants' = WantsOf(callbacks, ConfTypes) /\ GnssWants = WantsOf(callbacks, nmeaMask)
      /\ GeofenceMask(callbacks)' = GeofenceMask(callbacks)
      /\ BatchingMask(callbacks)' = BatchingMask(callbacks)
      /\ \A cb : Has("gnss", callbacks, cb)' <=> Has("gnss", callbacks, cb)
  BY <1>1 DEF GnssWants, WantsOf, GeofenceMask, BatchingMask, Has
<1>5. nmeaMask = {} \/ nmeaMask = ConfTypes
  BY DEF Masked
<1>6. WantsOf(callbacks, ConfTypes)
        = WantsOf(callbacks, nmeaMask) \cup (IF enable THEN {"nmea"} ELSE {})
  <2>1. CASE enable
    <3>1. ("nmea" \in WantsOf(callbacks, ConfTypes)) /\ nmea
      BY <2>1 DEF WantsOf
    <3>2. \A x : x # "nmea" => (x \in WantsOf(callbacks, ConfTypes) <=> x \in WantsOf(callbacks, nmeaMask))
      BY DEF WantsOf
    <3> QED  BY <2>1, <3>1, <3>2
  <2>2. CASE ~enable
    <3>1. ConfTypes # {} /\ nmea <=> nmeaMask # {} /\ nmea
      BY <1>5, <2>2
    <3> QED  BY <2>2, <3>1 DEF WantsOf
  <2> QED  BY <2>1, <2>2
<1>7. "nmea" \notin Housekeeping
  BY DEF Housekeeping, HubBits
<1>8. evtMask'["gnss"] \ Housekeeping = GnssWants'
  <2>1. evtMask["gnss"] \ Housekeeping = GnssWants
    BY DEF Masked
  <2> HIDE DEF enable
  <2> QED  BY <1>3, <1>4, <1>6, <1>7, <2>1
<1>9. "nhz" \in evtMask'["gnss"] <=> "nhz" \in evtMask["gnss"]
  BY <1>3
<1>10. \A b \in Adapters \ adapters : evtMask'[b] = {}
  BY <1>3 DEF Masked
<1>11. "geofence" \in Adapters /\ "batching" \in Adapters
  BY DEF Adapters
<1>12. Masked'
  BY <1>1, <1>3, <1>4, <1>8, <1>9, <1>10, <1>11 DEF Masked
<1> QED  BY <1>3, <1>9, <1>12 DEF Measures

\* A bit that no callback asks for is set or taken back.
LEMMA MaskedBit ==
  ASSUME Formed, Masked, "gnss" \in adapters, NEW bit \in {"server", "wifi", "nhz"},
         UNCHANGED <<adapters, callbacks, nmeaMask>>,
         \/ /\ Enable(bit)
            /\ bit = "nhz" => HubLoaded
            /\ agps' = (agps \/ bit = "server") /\ odcpi' = (odcpi \/ bit = "wifi")
         \/ Disable(bit) /\ bit = "nhz" /\ UNCHANGED <<agps, odcpi>>
  PROVE  /\ Masked' /\ DOMAIN evtMask' = Adapters
         /\ Measures' <=> IF bit = "nhz" THEN Enable(bit) ELSE Measures
<1>1. "gnss" \in Adapters /\ "geofence" \in Adapters /\ "batching" \in Adapters
  BY DEF Adapters
<1>2. /\ DOMAIN evtMask' = Adapters /\ \A b \in Adapters : b # "gnss" => evtMask'[b] = evtMask[b]
      /\ \A x : x # bit => (x \in evtMask'["gnss"] <=> x \in evtMask["gnss"])
      /\ bit \in evtMask'["gnss"] <=> Enable(bit)
  <2>1. CASE Enable(bit)
    <3>1. evtMask' = [evtMask EXCEPT !["gnss"] = @ \cup {bit}]
      BY <2>1 DEF Enable
    <3> QED  BY <1>1, <2>1, <3>1 DEF Formed
  <2>2. CASE Disable(bit)
    <3>1. evtMask' = [evtMask EXCEPT !["gnss"] = @ \ {bit}]
      BY <2>2 DEF Disable
    <3>2. bit \notin evtMask'["gnss"]
      BY <1>1, <3>1 DEF Formed
    <3>3. ~Enable(bit)
      BY <1>1, <3>2 DEF Enable, Formed
    <3> QED  BY <1>1, <3>1, <3>2, <3>3 DEF Formed
  <2> QED  BY <2>1, <2>2
<1>3. /\ GeofenceMask(callbacks)' = GeofenceMask(callbacks)
      /\ BatchingMask(callbacks)' = BatchingMask(callbacks)
      /\ \A cb : Has("gnss", callbacks, cb)' <=> Has("gnss", callbacks, cb)
  BY DEF GeofenceMask, BatchingMask, Has
<1>4. evtMask'["gnss"] \ Housekeeping = GnssWants'
  <2> DEFINE old == evtMask["gnss"]
             new == evtMask'["gnss"]
             base == (IF Has("gnss", callbacks, "tracking") \/ Has("gnss", callbacks, "data")
                      THEN {"position"} ELSE {})
               \cup (IF Has("gnss", callbacks, "sv") THEN {"satellites"} ELSE {})
               \cup (IF Has("gnss", callbacks, "data") \/ (nmeaMask # {} /\ Has("gnss", callbacks, "nmea"))
                     THEN {"nmea"} ELSE {})
  <2>1. /\ GnssWants = base \cup (IF agps THEN {"server"} ELSE {}) \cup (IF odcpi THEN {"wifi"} ELSE {})
        /\ GnssWants' = base \cup (IF agps' THEN {"server"} ELSE {}) \cup (IF odcpi' THEN {"wifi"} ELSE {})
    BY <1>3 DEF GnssWants
  <2>2. old \ Housekeeping = GnssWants
    BY DEF Masked
  <2>3. "server" \notin base /\ "wifi" \notin base /\ "nhz" \notin base
    OBVIOUS
  <2> HIDE DEF base
  <2>4. "server" \notin Housekeeping /\ "wifi" \notin Housekeeping /\ "nhz" \in Housekeeping
    BY DEF Housekeeping, HubBits
  <2>5. \A x : x # bit => (x \in new <=> x \in old)
    BY <1>2
  <2>6. bit \in new <=> Enable(bit)
    BY <1>2
  <2> HIDE DEF old, new
  <2>7. CASE bit = "nhz"
    <3>1. agps' = agps /\ odcpi' = odcpi
      BY <2>7 DEF Formed
    <3> QED  BY <2>1, <2>2, <2>4, <2>5, <2>7, <3>1 DEF new
  <2>8. CASE bit = "server"
    <3>1. agps' /\ odcpi' = odcpi /\ Enable(bit)
      BY <2>8 DEF Formed
    <3> QED  BY <2>1, <2>2, <2>3, <2>4, <2>5, <2>6, <2>8, <3>1 DEF new
  <2>9. CASE bit = "wifi"
    <3>1. odcpi' /\ agps' = agps /\ Enable(bit)
      BY <2>9 DEF Formed
    <3> QED  BY <2>1, <2>2, <2>3, <2>4, <2>5, <2>6, <2>9, <3>1 DEF new
  <2> QED  BY <2>7, <2>8, <2>9
<1>5. "nhz" \in evtMask'["gnss"] => HubLoaded
  <2>1. Disable(bit) => bit \notin evtMask'["gnss"]
    BY <1>1 DEF Disable, Formed
  <2>2. CASE bit = "nhz"
    BY <1>2, <2>1, <2>2
  <2>3. CASE bit # "nhz"
    BY <1>2, <2>3 DEF Masked
  <2> QED  BY <2>2, <2>3
<1>6. /\ "info" \in evtMask'["gnss"] <=> "info" \in evtMask["gnss"]
      /\ "measurement" \in evtMask'["gnss"] <=> "measurement" \in evtMask["gnss"]
  BY <1>2
<1>7. \A b \in Adapters \ adapters : evtMask'[b] = {}
  BY <1>2 DEF Masked
<1>8. Masked'
  BY <1>1, <1>2, <1>3, <1>4, <1>5, <1>6, <1>7 DEF Masked
<1>9. CASE bit = "nhz"
  BY <1>2, <1>8, <1>9 DEF Measures
<1>10. CASE bit # "nhz"
  BY <1>2, <1>8, <1>10 DEF Measures
<1> QED  BY <1>9, <1>10

-----------------------------------------------------------------------------
(***************************************************************************)
(* The system information.                                                 *)
(***************************************************************************)
LEMMA InformedClient ==
  ASSUME Formed, Informed, NEW a \in adapters, NEW c \in Clients, NEW given,
         AddClient(a, c, given), UNCHANGED infoSent
  PROVE  Informed'
<1>1. /\ sysInfo' = sysInfo /\ callbacks' = [callbacks EXCEPT ![a][c] = given]
      /\ infoSeen' = IF a = "gnss" /\ "system" \in given /\ "system" \notin callbacks["gnss"][c]
                     THEN [infoSeen EXCEPT ![c] = Told(infoSeen[c], c, sysInfo)] ELSE infoSeen
  BY DEF AddClient
<1>2. /\ sysInfo \in [Pieces -> Nat] /\ infoSeen \in [Clients -> [Pieces -> Nat]]
      /\ \A d \in Clients, p \in Pieces : sysInfo[p] = 0 => infoSeen[d][p] = 0
  BY DEF Informed
<1>3. ASSUME NEW before \in [Pieces -> Nat], \A p \in Pieces : sysInfo[p] = 0 => before[p] = 0
      PROVE  Told(before, c, sysInfo) = sysInfo
  BY <1>2, <1>3 DEF Told
<1>4. /\ \A d \in Clients : infoSeen'[d] = infoSeen[d] \/ infoSeen'[d] = sysInfo
      /\ infoSeen' \in [Clients -> [Pieces -> Nat]]
      /\ a = "gnss" /\ "system" \in given /\ "system" \notin callbacks["gnss"][c]
           => infoSeen'[c] = sysInfo
  <2>1. Told(infoSeen[c], c, sysInfo) = sysInfo
    BY <1>2, <1>3
  <2> QED  BY <1>1, <1>2, <2>1
<1>5. ASSUME NEW d \in Clients, "system" \in callbacks'["gnss"][d]
      PROVE  infoSeen'[d] = sysInfo
  <2>0. "gnss" \in Adapters /\ "gnss" \in DOMAIN callbacks /\ d \in DOMAIN callbacks["gnss"]
    BY DEF Adapters, Formed
  <2>1. CASE a = "gnss" /\ d = c
    <3>1. callbacks'["gnss"][d] = given
      BY <1>1, <2>0, <2>1
    <3>2. CASE "system" \in callbacks["gnss"][c]
      <4>1. infoSeen[c] = sysInfo
        BY <1>2, <3>2 DEF Informed, InfoReaches
      <4> QED  BY <1>4, <2>1, <4>1
    <3> QED  BY <1>4, <1>5, <2>1, <3>1, <3>2
  <2>2. CASE ~(a = "gnss" /\ d = c)
    <3>1. callbacks'["gnss"][d] = callbacks["gnss"][d]
      BY <1>1, <2>0, <2>2
    <3>2. infoSeen[d] = sysInfo
      BY <1>2, <1>5, <3>1 DEF Informed, InfoReaches
    <3> QED  BY <1>4, <3>2
  <2> QED  BY <2>1, <2>2
<1>6. \A d \in Clients, p \in Pieces : sysInfo[p] = 0 => infoSeen'[d][p] = 0
  BY <1>2, <1>4
<1> QED  BY <1>1, <1>4, <1>5, <1>6 DEF Informed, InfoReaches

LEMMA InformedReport ==
  ASSUME Informed, NEW report \in [Pieces -> Nat], SystemInfo(report),
         UNCHANGED <<infoSent, callbacks>>
  PROVE  Informed'
<1>1. /\ sysInfo \in [Pieces -> Nat] /\ infoSeen \in [Clients -> [Pieces -> Nat]]
      /\ \A d \in Clients, p \in Pieces : sysInfo[p] = 0 => infoSeen[d][p] = 0
  BY DEF Informed
<1>2. /\ sysInfo' \in [Pieces -> Nat]
      /\ \A p \in Pieces : sysInfo'[p] = IF report[p] > 0 THEN report[p] ELSE sysInfo[p]
  BY <1>1 DEF SystemInfo, Told
<1>3. /\ infoSeen' \in [Clients -> [Pieces -> Nat]]
      /\ \A c \in Clients, p \in Pieces :
           infoSeen'[c][p] = IF "system" \in callbacks["gnss"][c] /\ report[p] > 0
                             THEN report[p] ELSE infoSeen[c][p]
  BY <1>1 DEF SystemInfo, Told
<1>4. \A c \in Clients, p \in Pieces : sysInfo'[p] = 0 => infoSeen'[c][p] = 0
  BY <1>1, <1>2, <1>3
<1>5. InfoReaches'
  BY <1>1, <1>2, <1>3 DEF Informed, InfoReaches
<1> QED  BY <1>2, <1>3, <1>4, <1>5 DEF Informed

-----------------------------------------------------------------------------
(***************************************************************************)
(* Steps of the queues.                                                    *)
(***************************************************************************)
LEMMA FormedTask ==
  ASSUME Formed, adapters \subseteq adapters',
         \/ Shifted(taskQ', taskQ)
         \/ \E M : Grown(taskQ', taskQ, M) /\ \A m \in M : TaskFormed(m)'
  PROVE  IsQueue(taskQ') /\ (\A k \in DOMAIN taskQ : TaskFormed(taskQ[k]))'
<1>1. \A k \in DOMAIN taskQ : TaskFormed(taskQ[k])
  BY DEF Formed
<1>3. CASE Shifted(taskQ', taskQ)
  BY <1>1, <1>3 DEF Shifted, TaskFormed
<1>4. ASSUME NEW M, Grown(taskQ', taskQ, M), \A m \in M : TaskFormed(m)'
      PROVE  IsQueue(taskQ') /\ (\A k \in DOMAIN taskQ : TaskFormed(taskQ[k]))'
  BY <1>1, <1>4 DEF Grown, TaskFormed
<1> QED  BY <1>3, <1>4

LEMMA FormedApi ==
  ASSUME Formed, adapters \subseteq adapters',
         \/ Shifted(apiQ', apiQ)
         \/ \E M : Grown(apiQ', apiQ, M) /\ \A m \in M : ApiFormed(m)'
  PROVE  IsQueue(apiQ') /\ (\A k \in DOMAIN apiQ : ApiFormed(apiQ[k]))'
<1>1. \A k \in DOMAIN apiQ : ApiFormed(apiQ[k])
  BY DEF Formed
<1>3. CASE Shifted(apiQ', apiQ)
  BY <1>1, <1>3 DEF Shifted, ApiFormed
<1>4. ASSUME NEW M, Grown(apiQ', apiQ, M), \A m \in M : ApiFormed(m)'
      PROVE  IsQueue(apiQ') /\ (\A k \in DOMAIN apiQ : ApiFormed(apiQ[k]))'
  BY <1>1, <1>4 DEF Grown, ApiFormed
<1> QED  BY <1>3, <1>4

\* A message other than that of an engine that is up is sent to the adapters.
LEMMA InvSent ==
  ASSUME MaskInv, NEW m, Grown(taskQ', taskQ, {m}), TaskFormed(m), m.op # "up",
         UNCHANGED <<adapterVars, apiQ, modem, restarts, upSince, infoSeen>>,
         nhzWish' \in BOOLEAN, infoSent' \in [Pieces -> Nat], ~HubRepeats => Wishes'
  PROVE  MaskInv'
<1>0. UNCHANGED <<adapters, callbacks, evtMask, nmeaMask, agps, odcpi, sysInfo>>
  BY DEF adapterVars
<1>1. Formed'
  <2>2. \A n \in {m} : TaskFormed(n)'
    BY <1>0 DEF TaskFormed
  <2>3. IsQueue(taskQ') /\ (\A k \in DOMAIN taskQ : TaskFormed(taskQ[k]))'
    BY <1>0, <2>2, FormedTask DEF MaskInv
  <2>4. (\A k \in DOMAIN apiQ : ApiFormed(apiQ[k]))'
    BY <1>0 DEF MaskInv, Formed, ApiFormed
  <2> QED  BY <1>0, <2>3, <2>4 DEF MaskInv, Formed
<1>2. Opened'
  BY <1>0 DEF MaskInv, Opened, OpenDue, RestartDue, IsOpen, Union
<1>3. Masked'
  BY <1>0 DEF MaskInv, Masked, GnssWants, Has, GeofenceMask, BatchingMask
<1>4. \A a : ApiDue(a)' <=> ApiDue(a)
  BY DEF ApiDue, OpensFor
<1>5. \A a : UpDue(a)' <=> UpDue(a)
  BY UpDueGrows DEF Up
<1>6. Restarted'
  <2> SUFFICES ASSUME NEW a \in adapters PROVE ApiDue(a)' \/ Knows(a)'
    BY <1>0 DEF Restarted
  <2>1. CASE ApiDue(a)
    BY <1>4, <2>1
  <2>2. CASE Knows(a)
    <3>1. ~\E n \in {m} : Up(n, a)
      BY DEF Up
    <3> QED  BY <2>2, <3>1, KnowsGrows
  <2> QED  BY <2>1, <2>2 DEF MaskInv, Restarted
<1>7. GnssDue' <=> GnssDue
  BY <1>4, <1>5 DEF GnssDue
<1>8. Configured' /\ ("debug" \in ConfTypes => TypesKept')
  BY <1>0, <1>7 DEF MaskInv, Configured, TypesKept, TypesSet, Typed
<1>9. Informed'
  BY <1>0 DEF MaskInv, Informed, InfoReaches
<1> QED  BY <1>1, <1>2, <1>3, <1>6, <1>8, <1>9 DEF MaskInv

\* What the handlers of the adapters' messages have in common: an open follows a mask that
\* changes, and the types that are sent are those of the configuration, as far as the
\* adapter knows them.
Learns(m, a) == upSince'[a] = IF Up(m, a) THEN m.since ELSE upSince[a]
SendsTypes(m, M) ==
  IF Up(m, "gnss")
  THEN /\ nmeaMask' = ConfTypes
       /\ \A n \in M : n.op = "types" => n.types = ConfTypes
       /\ ConfTypes # {} => \E n \in M : n.op = "types"
  ELSE /\ UNCHANGED nmeaMask
       /\ \A n \in M : n.op = "types" => n.types = nmeaMask \cup {"debug"} /\ "gnss" \in adapters

LEMMA InvTaskHandled ==
  ASSUME MaskInv, Shifted(taskQ', taskQ), NEW M, Grown(apiQ', apiQ, M),
         UNCHANGED <<adapters, modem, restarts, nhzWish, infoSent>>,
         \A n \in M : ApiFormed(n), UNCHANGED evtMask \/ (\E n \in M : IsOpen(n)),
         \A a \in Adapters : Learns(taskQ[1], a), DOMAIN upSince' = Adapters,
         SendsTypes(taskQ[1], M), DOMAIN evtMask' = Adapters,
         callbacks' \in [Adapters -> [Clients -> (UNION {Offers[a] : a \in Adapters}) \cup {{}}]],
         agps' \in BOOLEAN, odcpi' \in BOOLEAN, Masked', Informed',
         ~HubRepeats => IF Wish(1) THEN Needed(1) <=> Measures' ELSE Measures' <=> Measures
  PROVE  MaskInv'
<1>1. Formed'
  <2>1. IsQueue(taskQ') /\ (\A k \in DOMAIN taskQ : TaskFormed(taskQ[k]))'
    BY FormedTask DEF MaskInv
  <2>2. \A n \in M : ApiFormed(n)'
    BY DEF ApiFormed
  <2>3. IsQueue(apiQ') /\ (\A k \in DOMAIN apiQ : ApiFormed(apiQ[k]))'
    BY <2>2, FormedApi DEF MaskInv
  <2> QED  BY <2>1, <2>3 DEF MaskInv, Formed
<1>2. Opened'
  <2>1. ~OpenDue' => ~OpenDue /\ UNCHANGED evtMask
    BY ApiDueGrows
  <2>2. RestartDue => RestartDue'
    BY ApiDueGrows
  <2>3. Opened
    BY DEF MaskInv
  <2>4. UNCHANGED evtMask => Union' = Union
    BY DEF Union
  <2> QED  BY <2>1, <2>2, <2>3, <2>4 DEF Opened
<1>3. \A a : ApiDue(a) => ApiDue(a)'
  BY ApiDueGrows
<1>4. Restarted'
  <2> SUFFICES ASSUME NEW a \in adapters PROVE ApiDue(a)' \/ Knows(a)'
    BY DEF Restarted
  <2>1. CASE ApiDue(a)
    BY <1>3, <2>1
  <2>2. CASE Knows(a)
    <3>1. a \in Adapters
      BY DEF MaskInv, Formed
    <3> QED  BY <2>2, <3>1, KnowsShifts DEF Learns
  <2> QED  BY <2>1, <2>2 DEF MaskInv, Restarted
<1>5. GnssDue => GnssDue' \/ Up(taskQ[1], "gnss")
  BY <1>3, UpDueShifts DEF GnssDue
<1>6. Configured'
  BY <1>5 DEF MaskInv, Configured, SendsTypes
<1>7. ASSUME "debug" \in ConfTypes PROVE TypesKept'
  <2> SUFFICES ASSUME "gnss" \in adapters, ~GnssDue' PROVE TypesSet'
    BY DEF TypesKept
  <2>1. CASE Up(taskQ[1], "gnss")
    <3>1. /\ \A n \in M : n.op = "types" => n.types = ConfTypes
          /\ \E n \in M : n.op = "types"
      BY <1>7, <2>1 DEF SendsTypes
    <3> QED  BY <3>1, TypesGrow
  <2>2. CASE ~Up(taskQ[1], "gnss")
    <3>1. TypesSet /\ nmeaMask = ConfTypes
      BY <1>5, <1>7, <2>2 DEF MaskInv, TypesKept, Configured
    <3>2. nmeaMask \cup {"debug"} = ConfTypes
      BY <1>7, <3>1
    <3>3. \A n \in M : n.op = "types" => n.types = ConfTypes
      BY <2>2, <3>2 DEF SendsTypes
    <3> QED  BY <3>1, <3>3, TypesGrow
  <2> QED  BY <2>1, <2>2
<1>8. ASSUME ~HubRepeats PROVE Wishes'
  BY <1>8, WishesShift DEF MaskInv
<1> QED  BY <1>1, <1>2, <1>4, <1>6, <1>7, <1>8 DEF MaskInv

\* A message of the LocApi task is handled: the modem takes it, or it is down and will be
\* opened again.
LEMMA InvApiHandled ==
  ASSUME MaskInv, Shifted(apiQ', apiQ), NEW as,
         Grown(taskQ', taskQ, {UpMsg(a) : a \in as \cap Adapters}), as \cap Adapters \subseteq adapters,
         UNCHANGED <<adapterVars, restarts, upSince, nhzWish, infoSent, infoSeen>>,
         modem'.up = modem.up, DOMAIN modem' = DOMAIN modem,
         IF IsOpen(apiQ[1]) THEN modem'.mask = Union \/ ~modem.up ELSE modem'.mask = modem.mask,
         apiQ[1].op = "ssr" => modem.up,
         \A a \in adapters : OpensFor(apiQ[1], a) => a \in as \/ ~modem.up,
         \/ modem'.types = IF apiQ[1].op = "types" THEN apiQ[1].types ELSE modem.types
         \/ ~modem.up
  PROVE  MaskInv'
<1>0. UNCHANGED <<adapters, callbacks, evtMask, nmeaMask, agps, odcpi, sysInfo>>
  BY DEF adapterVars
<1> DEFINE M == {UpMsg(a) : a \in as \cap Adapters}
<1>1. /\ \A m \in M : /\ m.op = "up" /\ m.adapter \in as /\ m.adapter \in adapters
                       /\ m.since = restarts
      /\ \A a \in Adapters : a \in as => \E m \in M : Up(m, a)
  <2>1. \A a \in Adapters : a \in as => UpMsg(a) \in M /\ Up(UpMsg(a), a)
    BY DEF UpMsg, Up
  <2>2. ASSUME NEW m \in M
        PROVE  m.op = "up" /\ m.adapter \in as /\ m.adapter \in adapters /\ m.since = restarts
    <3>1. PICK a \in as \cap Adapters : m = UpMsg(a)
      OBVIOUS
    <3>2. m.op = "up" /\ m.adapter = a /\ m.since = restarts
      BY <3>1 DEF UpMsg
    <3> QED  BY <3>2
  <2> QED  BY <2>1, <2>2
<1> HIDE DEF M
<1>2. Formed'
  <2>1. \A m \in M : TaskFormed(m)'
    BY <1>0, <1>1 DEF TaskFormed
  <2>2. IsQueue(taskQ') /\ (\A k \in DOMAIN taskQ : TaskFormed(taskQ[k]))'
    BY <1>0, <2>1, FormedTask DEF MaskInv, M
  <2>3. IsQueue(apiQ') /\ (\A k \in DOMAIN apiQ : ApiFormed(apiQ[k]))'
    BY <1>0, FormedApi DEF MaskInv
  <2> QED  BY <1>0, <2>2, <2>3 DEF MaskInv, Formed
<1>3. ~modem.up => /\ RestartDue' /\ OpenDue' /\ \A a : ApiDue(a)'
  <2>1. ~modem.up => RestartDue
    BY DEF MaskInv, Opened
  <2>2. ~modem.up => RestartDue'
    BY <2>1, ApiDueShifts
  <2> QED  BY <2>2, ApiDueShifts
<1>4. Opened'
  <2>1. Union' = Union
    BY <1>0 DEF Union
  <2>2. ~OpenDue' => modem.up /\ (OpenDue => IsOpen(apiQ[1]))
    BY <1>3, ApiDueShifts
  <2>3. ~OpenDue => modem.mask = Union
    BY DEF MaskInv, Opened
  <2>4. OpenDue \/ ~IsOpen(apiQ[1])
    BY DEF OpenDue, Shifted
  <2>5. ~OpenDue' => modem'.mask = Union'
    BY <2>1, <2>2, <2>3, <2>4
  <2> QED  BY <1>3, <2>5 DEF Opened
<1>5. Masked'
  BY <1>0 DEF MaskInv, Masked, GnssWants, Has, GeofenceMask, BatchingMask
<1>6. ~HubRepeats => Wishes'
  <2>1. \A m \in M : m.op # "nhz"
    BY <1>1
  <2>2. Measures' <=> Measures
    BY <1>0 DEF Measures
  <2> QED  BY <2>1, <2>2, WishesGrow DEF MaskInv, M
<1>7. ASSUME NEW a \in adapters PROVE ApiDue(a)' \/ Knows(a)'
  <2>0. a \in Adapters
    BY DEF MaskInv, Formed
  <2>1. CASE ~modem.up
    BY <1>3, <2>1
  <2>2. CASE \E m \in M : Up(m, a)
    BY <1>1, <2>2, KnowsTold DEF M
  <2>3. CASE modem.up /\ ~\E m \in M : Up(m, a)
    <3>1. ~OpensFor(apiQ[1], a)
      BY <1>1, <2>0, <2>3
    <3>2. CASE ApiDue(a)
      BY <3>1, <3>2, ApiDueShifts
    <3>3. CASE Knows(a)
      BY <2>3, <3>3, KnowsGrows DEF M
    <3> QED  BY <3>2, <3>3 DEF MaskInv, Restarted
  <2> QED  BY <2>1, <2>2, <2>3 DEF MaskInv, Formed
<1>8. Restarted'
  BY <1>0, <1>7 DEF Restarted
<1>9. "gnss" \in adapters /\ GnssDue => GnssDue'
  <2>1. UpDue("gnss") => UpDue("gnss")'
    BY UpDueGrows DEF M
  <2>2. CASE ~modem.up
    BY <1>3, <2>2 DEF GnssDue
  <2>3. CASE "gnss" \in as /\ "gnss" \in adapters
    <3>1. UpDue("gnss")'
      BY <1>1, <2>3, UpDueGrows DEF M, MaskInv, Formed
    <3> QED  BY <3>1 DEF GnssDue
  <2>4. CASE modem.up /\ "gnss" \in adapters /\ "gnss" \notin as
    <3>1. ApiDue("gnss") => ApiDue("gnss")'
      BY <2>4, ApiDueShifts
    <3> QED  BY <2>1, <3>1 DEF GnssDue
  <2> QED  BY <2>2, <2>3, <2>4
<1>10. Configured'
  BY <1>0, <1>9 DEF MaskInv, Configured
<1>11. ASSUME "debug" \in ConfTypes PROVE TypesKept'
  <2> SUFFICES ASSUME "gnss" \in adapters, ~GnssDue' PROVE TypesSet'
    BY <1>0 DEF TypesKept
  <2>1. modem.up
    BY <1>3 DEF GnssDue
  <2>2. TypesSet
    BY <1>9, <1>11 DEF MaskInv, TypesKept
  <2> QED  BY <2>1, <2>2, TypesShift
<1>12. Informed'
  BY <1>0 DEF MaskInv, Informed, InfoReaches
<1> QED  BY <1>2, <1>4, <1>5, <1>6, <1>8, <1>10, <1>11, <1>12 DEF MaskInv

-----------------------------------------------------------------------------
(***************************************************************************)
(* The steps.                                                              *)
(***************************************************************************)
LEMMA ApiMessages ==
  ASSUME NEW types
  PROVE  /\ OpenMsg.op = "open" /\ OpenMsg.adapter = "none" /\ IsOpen(OpenMsg) /\ ApiFormed(OpenMsg)
         /\ TypesMsg(types).op = "types" /\ TypesMsg(types).types = types
         /\ ApiFormed(TypesMsg(types))
BY DEF OpenMsg, TypesMsg, IsOpen, ApiFormed

\* The messages that AddClient and SetConfig send: at most one, and then another.
LEMMA ApiSends ==
  ASSUME IsQueue(apiQ), NEW S, NEW T, NEW m, NEW n,
         apiQ' = apiQ \o S \o T, S = <<>> \/ S = <<m>>, T = <<>> \/ T = <<n>>
  PROVE  Grown(apiQ', apiQ, (IF S = <<>> THEN {} ELSE {m}) \cup (IF T = <<>> THEN {} ELSE {n}))
<1> DEFINE q == apiQ \o S
           MS == IF S = <<>> THEN {} ELSE {m}
           MT == IF T = <<>> THEN {} ELSE {n}
<1>1. IsQueue(S) /\ IsQueue(T) /\ Elems(S) = MS /\ Elems(T) = MT
  <2>1. <<m>> # <<>> /\ <<n>> # <<>>
    OBVIOUS
  <2>2. IsQueue(<<m>>) /\ Elems(<<m>>) = {m} /\ IsQueue(<<n>>) /\ Elems(<<n>>) = {n}
    BY OneMessage
  <2> QED  BY <2>1, <2>2, NoMessage
<1>2. Grown(q, apiQ, MS) /\ IsQueue(q)
  <2> HIDE DEF MS, q
  <2>1. Grown(q, apiQ, MS)
    BY <1>1, Grows DEF q
  <2> QED  BY <2>1 DEF Grown
<1> HIDE DEF q
<1>3. Grown(apiQ', q, MT)
  <2>1. apiQ' = q \o T
    BY DEF q
  <2> QED  BY <1>1, <1>2, <2>1, Grows
<1> HIDE DEF MS, MT
<1>4. Grown(apiQ', apiQ, MS \cup MT)
  BY <1>2, <1>3, GrowsTwice
<1> QED  BY <1>4 DEF MS, MT

LEMMA StepClient ==
  ASSUME MaskInv, HandleMessage, taskQ[1] = Head(taskQ), taskQ[1].op = "client",
         Shifted(taskQ', taskQ), TaskFormed(taskQ[1])
  PROVE  MaskInv'
<1> DEFINE a == taskQ[1].adapter
           c == taskQ[1].client
           given == taskQ[1].given
           msg == taskQ[1]
<1>1. /\ AddClient(a, c, given)
      /\ UNCHANGED <<agps, odcpi, upSince, adapters, modem, restarts, nhzWish, infoSent>>
  BY DEF HandleMessage
<1>2. a \in adapters /\ c \in Clients /\ given \in Offers[a] \cup {{}}
  BY DEF TaskFormed
<1> HIDE DEF a, c, given
<1>3. /\ Masked' /\ (Measures' <=> Measures) /\ DOMAIN evtMask' = Adapters
      /\ callbacks' \in [Adapters -> [Clients -> (UNION {Offers[b] : b \in Adapters}) \cup {{}}]]
  BY <1>1, <1>2, MaskedClient DEF MaskInv
<1>4. Informed'
  BY <1>1, <1>2, InformedClient DEF MaskInv
<1> DEFINE t == TypesMsg(nmeaMask \cup {"debug"})
           S == IF a = "gnss" /\ Has("gnss", callbacks', "data") THEN <<t>> ELSE <<>>
           T == <<OpenMsg>>
           M == (IF S = <<>> THEN {} ELSE {t}) \cup (IF T = <<>> THEN {} ELSE {OpenMsg})
<1>5. apiQ' = apiQ \o S \o T /\ (S = <<>> \/ S = <<t>>) /\ (T = <<>> \/ T = <<OpenMsg>>)
      /\ UNCHANGED nmeaMask
  BY <1>1 DEF AddClient
<1>6. T # <<>> /\ (S # <<>> => a = "gnss")
  OBVIOUS
<1> HIDE DEF S, T, t
<1>7. Grown(apiQ', apiQ, M)
  BY <1>5, ApiSends DEF MaskInv, Formed
<1>8. \A n \in M : n = OpenMsg \/ (n = t /\ a = "gnss")
  BY <1>6
<1>9. OpenMsg \in M
  BY <1>6
<1> HIDE DEF M
<1>10. t.op = "types" /\ t.types = nmeaMask \cup {"debug"} /\ ApiFormed(t)
  BY ApiMessages DEF t
<1>11. (\A n \in M : ApiFormed(n)) /\ (\E n \in M : IsOpen(n))
  BY <1>8, <1>9, <1>10, ApiMessages
<1>12. ~Up(taskQ[1], "gnss") /\ ~Wish(1) /\ \A b \in Adapters : Learns(taskQ[1], b)
  BY <1>1 DEF Up, Wish, Learns
<1>13. SendsTypes(taskQ[1], M)
  <2>1. ASSUME NEW n \in M, n.op = "types"
        PROVE  n.types = nmeaMask \cup {"debug"} /\ "gnss" \in adapters
    BY <1>2, <1>8, <1>10, <2>1, ApiMessages
  <2> QED  BY <1>5, <1>12, <2>1 DEF SendsTypes
<1> QED
  BY <1>1, <1>3, <1>4, <1>7, <1>11, <1>12, <1>13, InvTaskHandled DEF MaskInv, Formed

LEMMA StepUp ==
  ASSUME MaskInv, HandleMessage, taskQ[1] = Head(taskQ), taskQ[1].op = "up",
         Shifted(taskQ', taskQ), TaskFormed(taskQ[1])
  PROVE  MaskInv'
<1> DEFINE a == taskQ[1].adapter
           since == taskQ[1].since
<1>1. /\ EngineUp(a, since) /\ UNCHANGED <<callbacks, agps, odcpi, sysInfo, infoSeen>>
      /\ UNCHANGED <<adapters, modem, restarts, nhzWish, infoSent>>
  BY DEF HandleMessage
<1>2. a \in adapters /\ a \in Adapters
  BY DEF TaskFormed, MaskInv, Formed
<1>3. Informed'
  BY <1>1 DEF MaskInv, Informed, InfoReaches
<1>4. DOMAIN upSince' = Adapters /\ \A b \in Adapters : Learns(taskQ[1], b)
  BY <1>1, <1>2 DEF EngineUp, Learns, Up, MaskInv, Formed
<1>5. ~Wish(1)
  BY DEF Wish
<1>6. callbacks' \in [Adapters -> [Clients -> (UNION {Offers[b] : b \in Adapters}) \cup {{}}]]
      /\ agps' \in BOOLEAN /\ odcpi' \in BOOLEAN
  BY <1>1 DEF MaskInv, Formed
<1>7. CASE a = "gnss"
  <2>1. SetConfig /\ "gnss" \in adapters /\ Up(taskQ[1], "gnss")
    BY <1>1, <1>2, <1>7 DEF EngineUp, Up
  <2>2. Masked' /\ (Measures' <=> Measures) /\ DOMAIN evtMask' = Adapters
    BY <1>1, <2>1, MaskedConfig DEF MaskInv
  <2> DEFINE enable == nmeaMask # ConfTypes /\ ConfTypes # {} /\ Has("gnss", callbacks, "nmea")
             t == TypesMsg(ConfTypes)
             S == IF enable THEN <<OpenMsg>> ELSE <<>>
             T == IF ConfTypes # {} THEN <<t>> ELSE <<>>
             M == (IF S = <<>> THEN {} ELSE {OpenMsg}) \cup (IF T = <<>> THEN {} ELSE {t})
  <2>3. /\ apiQ' = apiQ \o S \o T /\ (S = <<>> \/ S = <<OpenMsg>>) /\ (T = <<>> \/ T = <<t>>)
        /\ nmeaMask' = ConfTypes
        /\ enable \/ UNCHANGED evtMask
    BY <2>1 DEF SetConfig
  <2>4. (enable => S # <<>>) /\ (ConfTypes # {} => T # <<>>)
    OBVIOUS
  <2> HIDE DEF S, T, t, enable
  <2>5. Grown(apiQ', apiQ, M)
    BY <2>3, ApiSends DEF MaskInv, Formed
  <2>6. /\ \A n \in M : n = OpenMsg \/ n = t
        /\ enable => OpenMsg \in M
        /\ ConfTypes # {} => t \in M
    BY <2>4
  <2> HIDE DEF M
  <2>7. t.op = "types" /\ t.types = ConfTypes /\ ApiFormed(t)
    BY ApiMessages DEF t
  <2>8. (\A n \in M : ApiFormed(n)) /\ (UNCHANGED evtMask \/ \E n \in M : IsOpen(n))
    BY <2>3, <2>6, <2>7, ApiMessages
  <2>9. SendsTypes(taskQ[1], M)
    BY <2>1, <2>3, <2>6, <2>7, ApiMessages DEF SendsTypes
  <2> QED
    BY <1>1, <1>3, <1>4, <1>5, <1>6, <2>2, <2>5, <2>8, <2>9, InvTaskHandled
<1>8. CASE a # "gnss"
  <2>1. UNCHANGED <<nmeaMask, evtMask, apiQ>> /\ ~Up(taskQ[1], "gnss")
    BY <1>1, <1>8 DEF EngineUp, Up
  <2>2. Grown(apiQ', apiQ, {})
    BY <2>1, GrowsNot DEF MaskInv, Formed
  <2>3. Masked' /\ (Measures' <=> Measures) /\ DOMAIN evtMask' = Adapters
    BY <1>1, <2>1 DEF MaskInv, Formed, Masked, GnssWants, Has, GeofenceMask, BatchingMask, Measures
  <2>4. SendsTypes(taskQ[1], {})
    BY <2>1 DEF SendsTypes
  <2> QED
    BY <1>1, <1>3, <1>4, <1>5, <1>6, <2>1, <2>2, <2>3, <2>4, InvTaskHandled
<1> QED  BY <1>7, <1>8

LEMMA StepInfo ==
  ASSUME MaskInv, HandleMessage, taskQ[1] = Head(taskQ), taskQ[1].op = "info",
         Shifted(taskQ', taskQ), TaskFormed(taskQ[1])
  PROVE  MaskInv'
<1> DEFINE report == taskQ[1].report
<1>1. /\ SystemInfo(report)
      /\ UNCHANGED <<callbacks, evtMask, nmeaMask, agps, odcpi, apiQ, upSince>>
      /\ UNCHANGED <<adapters, modem, restarts, nhzWish, infoSent>>
  BY DEF HandleMessage
<1>2. report \in [Pieces -> Nat]
  BY DEF TaskFormed
<1>3. Informed'
  BY <1>1, <1>2, InformedReport DEF MaskInv
<1>4. Grown(apiQ', apiQ, {})
  BY <1>1, GrowsNot DEF MaskInv, Formed
<1>5. Masked' /\ (Measures' <=> Measures) /\ DOMAIN evtMask' = Adapters
  BY <1>1 DEF MaskInv, Formed, Masked, GnssWants, Has, GeofenceMask, BatchingMask, Measures
<1>6. /\ SendsTypes(taskQ[1], {}) /\ ~Wish(1) /\ DOMAIN upSince' = Adapters
      /\ \A b \in Adapters : Learns(taskQ[1], b)
  BY <1>1 DEF SendsTypes, Wish, Learns, Up, MaskInv, Formed
<1>7. callbacks' \in [Adapters -> [Clients -> (UNION {Offers[b] : b \in Adapters}) \cup {{}}]]
      /\ agps' \in BOOLEAN /\ odcpi' \in BOOLEAN
  BY <1>1 DEF MaskInv, Formed
<1> QED
  BY <1>1, <1>3, <1>4, <1>5, <1>6, <1>7, InvTaskHandled

\* A handler that sets or takes back one bit.
LEMMA StepBit ==
  ASSUME MaskInv, "gnss" \in adapters, Shifted(taskQ', taskQ), taskQ[1].op \notin {"up", "client"},
         NEW bit \in {"server", "wifi", "nhz"},
         UNCHANGED <<adapters, callbacks, nmeaMask, sysInfo, infoSeen, upSince, modem, restarts>>,
         UNCHANGED <<nhzWish, infoSent>>,
         \/ /\ Enable(bit)
            /\ bit = "nhz" => HubLoaded
            /\ agps' = (agps \/ bit = "server") /\ odcpi' = (odcpi \/ bit = "wifi")
         \/ Disable(bit) /\ bit = "nhz" /\ UNCHANGED <<agps, odcpi>>,
         ~HubRepeats => IF Wish(1) THEN bit = "nhz" /\ (Needed(1) <=> Enable("nhz")) ELSE bit # "nhz"
  PROVE  MaskInv'
<1>1. /\ Masked' /\ DOMAIN evtMask' = Adapters
      /\ Measures' <=> IF bit = "nhz" THEN Enable(bit) ELSE Measures
  BY MaskedBit DEF MaskInv
<1>2. apiQ' = Append(apiQ, OpenMsg)
  BY DEF Enable, Disable
<1>3. Grown(apiQ', apiQ, {OpenMsg})
  BY <1>2, GrowsByOne DEF MaskInv, Formed
<1>4. (\A n \in {OpenMsg} : ApiFormed(n)) /\ \E n \in {OpenMsg} : IsOpen(n)
  BY ApiMessages
<1>5. /\ SendsTypes(taskQ[1], {OpenMsg}) /\ DOMAIN upSince' = Adapters
      /\ \A b \in Adapters : Learns(taskQ[1], b)
  BY ApiMessages DEF SendsTypes, Learns, Up, MaskInv, Formed
<1>6. Informed'
  BY DEF MaskInv, Informed, InfoReaches
<1>7. callbacks' \in [Adapters -> [Clients -> (UNION {Offers[b] : b \in Adapters}) \cup {{}}]]
      /\ agps' \in BOOLEAN /\ odcpi' \in BOOLEAN
  BY DEF MaskInv, Formed
<1>8. ~HubRepeats => IF Wish(1) THEN Needed(1) <=> Measures' ELSE Measures' <=> Measures
  <2>1. CASE HubRepeats
    BY <2>1
  <2>2. CASE ~HubRepeats /\ Wish(1)
    <3>1. bit = "nhz" /\ (Needed(1) <=> Enable("nhz"))
      BY <2>2
    <3> QED  BY <1>1, <2>2, <3>1
  <2>3. CASE ~HubRepeats /\ ~Wish(1)
    BY <1>1, <2>3
  <2> QED  BY <2>1, <2>2, <2>3
<1> QED
  BY <1>1, <1>3, <1>4, <1>5, <1>6, <1>7, <1>8, InvTaskHandled

LEMMA StepHandler ==
  ASSUME MaskInv, HandleMessage, taskQ[1] = Head(taskQ), taskQ[1].op \in {"agps", "odcpi"},
         Shifted(taskQ', taskQ), TaskFormed(taskQ[1])
  PROVE  MaskInv'
<1>0. "gnss" \in adapters /\ taskQ[1].op \notin {"up", "client"} /\ ~Wish(1)
  BY DEF TaskFormed, Wish
<1>1. CASE taskQ[1].op = "agps"
  <2>1. /\ agps' = TRUE /\ Enable("server") /\ odcpi' = odcpi
        /\ UNCHANGED <<adapters, callbacks, nmeaMask, sysInfo, infoSeen, upSince, modem, restarts>>
        /\ UNCHANGED <<nhzWish, infoSent>>
    BY <1>1 DEF HandleMessage
  <2>2. agps' = (agps \/ "server" = "server") /\ odcpi' = (odcpi \/ "server" = "wifi")
    BY <2>1 DEF MaskInv, Formed
  <2>3. "server" \in {"server", "wifi", "nhz"} /\ ("server" = "nhz" => HubLoaded) /\ "server" # "nhz"
    OBVIOUS
  <2> QED  BY <1>0, <2>1, <2>2, <2>3, StepBit
<1>2. CASE taskQ[1].op = "odcpi"
  <2>1. /\ odcpi' = TRUE /\ Enable("wifi") /\ agps' = agps
        /\ UNCHANGED <<adapters, callbacks, nmeaMask, sysInfo, infoSeen, upSince, modem, restarts>>
        /\ UNCHANGED <<nhzWish, infoSent>>
    BY <1>2 DEF HandleMessage
  <2>2. agps' = (agps \/ "wifi" = "server") /\ odcpi' = (odcpi \/ "wifi" = "wifi")
    BY <2>1 DEF MaskInv, Formed
  <2>3. "wifi" \in {"server", "wifi", "nhz"} /\ ("wifi" = "nhz" => HubLoaded) /\ "wifi" # "nhz"
    OBVIOUS
  <2> QED  BY <1>0, <2>1, <2>2, <2>3, StepBit
<1> QED  BY <1>1, <1>2

LEMMA StepWish ==
  ASSUME MaskInv, HandleMessage, taskQ[1] = Head(taskQ), taskQ[1].op = "nhz",
         Shifted(taskQ', taskQ), TaskFormed(taskQ[1])
  PROVE  MaskInv'
<1>1. /\ UpdateNHz(taskQ[1].needed)
      /\ UNCHANGED <<adapters, callbacks, nmeaMask, sysInfo, infoSeen, upSince, modem, restarts>>
      /\ UNCHANGED <<nhzWish, infoSent, agps, odcpi>>
  BY DEF HandleMessage
<1>2. "gnss" \in adapters /\ HubLoaded /\ Wish(1) /\ taskQ[1].needed \in BOOLEAN
      /\ Needed(1) = taskQ[1].needed /\ taskQ[1].op \notin {"up", "client"}
  BY DEF TaskFormed, Wish, Needed
<1>3. ~HubRepeats => (Needed(1) <=> ~Measures)
  <2>1. FirstWish(1) /\ 1 \in DOMAIN taskQ
    BY <1>2 DEF FirstWish, Shifted
  <2> QED  BY <2>1 DEF MaskInv, Wishes
<1>4. agps' = (agps \/ "nhz" = "server") /\ odcpi' = (odcpi \/ "nhz" = "wifi")
  BY <1>1 DEF MaskInv, Formed
<1>5. "nhz" \in {"server", "wifi", "nhz"} /\ "gnss" \in Adapters
  BY DEF Adapters
<1>6. CASE taskQ[1].needed /\ ~Measures
  <2>1. Enable("nhz")
    BY <1>1, <1>6 DEF UpdateNHz, Measures
  <2> QED  BY <1>1, <1>2, <1>4, <1>5, <1>6, <2>1, StepBit
<1>7. CASE Measures
  <2>1. Disable("nhz")
    BY <1>1, <1>7 DEF UpdateNHz, Measures
  <2>2. ~Enable("nhz")
    BY <1>5, <2>1 DEF Enable, Disable, MaskInv, Formed
  <2> QED  BY <1>1, <1>2, <1>3, <1>5, <1>7, <2>1, <2>2, StepBit
<1>8. CASE ~taskQ[1].needed /\ ~Measures
  <2>1. UNCHANGED <<evtMask, apiQ>>
    BY <1>1, <1>8 DEF UpdateNHz, Measures
  <2>2. HubRepeats
    BY <1>2, <1>3, <1>8
  <2>3. Grown(apiQ', apiQ, {})
    BY <2>1, GrowsNot DEF MaskInv, Formed
  <2>4. Masked' /\ DOMAIN evtMask' = Adapters
    BY <1>1, <2>1 DEF MaskInv, Formed, Masked, GnssWants, Has, GeofenceMask, BatchingMask
  <2>5. /\ SendsTypes(taskQ[1], {}) /\ DOMAIN upSince' = Adapters
        /\ \A b \in Adapters : Learns(taskQ[1], b)
    BY <1>1, <1>2 DEF SendsTypes, Learns, Up, MaskInv, Formed
  <2>6. Informed'
    BY <1>1 DEF MaskInv, Informed, InfoReaches
  <2>7. callbacks' \in [Adapters -> [Clients -> (UNION {Offers[b] : b \in Adapters}) \cup {{}}]]
        /\ agps' \in BOOLEAN /\ odcpi' \in BOOLEAN
    BY <1>1 DEF MaskInv, Formed
  <2> QED  BY <1>1, <2>1, <2>2, <2>3, <2>4, <2>5, <2>6, <2>7, InvTaskHandled
<1> QED  BY <1>2, <1>6, <1>7, <1>8

LEMMA StepTask ==
  ASSUME MaskInv, HandleMessage
  PROVE  MaskInv'
<1>1. Shifted(taskQ', taskQ)
  BY Shifts DEF HandleMessage, MaskInv, Formed
<1>2. taskQ[1] = Head(taskQ) /\ TaskFormed(taskQ[1])
  BY <1>1 DEF Shifted, MaskInv, Formed
<1>3. taskQ[1].op \in {"client", "up", "info", "agps", "odcpi", "nhz"}
  BY <1>2 DEF HandleMessage
<1> QED  BY <1>1, <1>2, <1>3, StepClient, StepUp, StepInfo, StepHandler, StepWish

LEMMA StepApi ==
  ASSUME MaskInv, HandleApi
  PROVE  MaskInv'
<1> DEFINE msg == apiQ[1]
<1>1. Shifted(apiQ', apiQ)
  BY Shifts DEF HandleApi, MaskInv, Formed
<1>2. msg = Head(apiQ) /\ ApiFormed(msg) /\ modem.up \in BOOLEAN
      /\ DOMAIN modem = {"up", "mask", "types"} /\ IsQueue(taskQ)
  BY <1>1 DEF Shifted, MaskInv, Formed
<1>3. UNCHANGED <<adapterVars, restarts, upSince, nhzWish, infoSent, infoSeen>>
  BY DEF HandleApi
<1>4. ASSUME NEW as PROVE Grown(taskQ \o UpMsgs(as), taskQ, {UpMsg(a) : a \in as \cap Adapters})
  <2> DEFINE u == UpMsgs(as)
  <2>1. IsQueue(u) /\ Elems(u) = {UpMsg(a) : a \in as \cap Adapters}
    BY UpMsgsElems
  <2> HIDE DEF u
  <2>2. Grown(taskQ \o u, taskQ, Elems(u))
    BY <1>2, <2>1, Grows
  <2> QED  BY <2>1, <2>2 DEF u
<1>5. Grown(taskQ, taskQ, {UpMsg(a) : a \in {} \cap Adapters})
  <2>1. {UpMsg(a) : a \in {} \cap Adapters} = {}
    OBVIOUS
  <2> QED  BY <1>2, <2>1, GrowsNot
<1>6. CASE msg.op = "open" /\ modem.up
  <2> DEFINE as == {msg.adapter}
  <2>1. modem' = [modem EXCEPT !.mask = Union] /\ taskQ' = taskQ \o UpMsgs(as)
    BY <1>2, <1>6 DEF HandleApi, Open
  <2>2. as \cap Adapters \subseteq adapters
    BY <1>2, <1>6 DEF ApiFormed, Adapters
  <2>3. \A a \in adapters : OpensFor(msg, a) => a \in as
    BY <1>6 DEF OpensFor
  <2>4. /\ modem'.up = modem.up /\ DOMAIN modem' = DOMAIN modem /\ modem'.mask = Union
        /\ modem'.types = modem.types
    BY <1>2, <2>1
  <2>5. Grown(taskQ', taskQ, {UpMsg(a) : a \in as \cap Adapters})
    BY <1>4, <2>1
  <2>6. IsOpen(msg)
    BY <1>6 DEF IsOpen
  <2> HIDE DEF as
  <2> QED  BY <1>1, <1>3, <1>6, <2>2, <2>3, <2>4, <2>5, <2>6, InvApiHandled
<1>7. CASE msg.op = "ssr"
  <2>1. modem.up /\ modem' = [modem EXCEPT !.mask = Union] /\ taskQ' = taskQ \o UpMsgs(adapters)
    BY <1>2, <1>7 DEF HandleApi, Reopen
  <2>2. /\ modem'.up = modem.up /\ DOMAIN modem' = DOMAIN modem /\ modem'.mask = Union
        /\ modem'.types = modem.types
    BY <1>2, <2>1
  <2>3. Grown(taskQ', taskQ, {UpMsg(a) : a \in adapters \cap Adapters})
    BY <1>4, <2>1
  <2>4. IsOpen(msg)
    BY <1>7 DEF IsOpen
  <2>5. adapters \cap Adapters \subseteq adapters
    OBVIOUS
  <2> QED  BY <1>1, <1>3, <1>7, <2>1, <2>2, <2>3, <2>4, <2>5, InvApiHandled
<1>8. CASE (msg.op = "open" /\ ~modem.up) \/ msg.op = "types"
  <2>1. taskQ' = taskQ
    BY <1>2, <1>8 DEF HandleApi, Open, SetTypes
  <2>2. Grown(taskQ', taskQ, {UpMsg(a) : a \in {} \cap Adapters})
    BY <1>5, <2>1
  <2>3. \A a \in adapters : OpensFor(msg, a) => a \in {} \/ ~modem.up
    BY <1>8 DEF OpensFor
  <2>4. /\ modem'.up = modem.up /\ DOMAIN modem' = DOMAIN modem /\ modem'.mask = modem.mask
        /\ modem'.types = (IF msg.op = "types" THEN msg.types ELSE modem.types) \/ ~modem.up
    BY <1>2, <1>8 DEF HandleApi, Open, SetTypes
  <2>5. IF IsOpen(msg) THEN modem'.mask = Union \/ ~modem.up ELSE modem'.mask = modem.mask
    BY <1>8, <2>4 DEF IsOpen
  <2>6. msg.op = "ssr" => modem.up
    BY <1>8
  <2>7. {} \cap Adapters \subseteq adapters
    OBVIOUS
  <2> HIDE DEF msg
  <2> QED  BY <1>1, <1>3, <2>2, <2>3, <2>4, <2>5, <2>6, <2>7, InvApiHandled DEF msg
<1> QED  BY <1>2, <1>6, <1>7, <1>8 DEF HandleApi

\* A message of the LocApi task is sent.
LEMMA StepAdd ==
  ASSUME MaskInv, NEW a \in Adapters, AddAdapter(a)
  PROVE  MaskInv'
<1> DEFINE m == [op |-> "open", adapter |-> a]
<1>1. /\ adapters' = adapters \cup {a} /\ apiQ' = Append(apiQ, m) /\ a \notin adapters
      /\ UNCHANGED <<callbacks, evtMask, nmeaMask, agps, odcpi, sysInfo, taskQ>>
      /\ UNCHANGED <<modem, restarts, upSince, nhzWish, infoSent, infoSeen>>
  BY DEF AddAdapter, worldVars
<1>2. m.op = "open" /\ m.adapter = a
  OBVIOUS
<1> HIDE DEF m
<1>3. Grown(apiQ', apiQ, {m})
  BY <1>1, GrowsByOne DEF MaskInv, Formed
<1>4. OpenDue' /\ ApiDue(a)' /\ (RestartDue => RestartDue') /\ \A b : ApiDue(b) => ApiDue(b)'
  <2>1. IsOpen(m) /\ OpensFor(m, a)
    BY <1>2 DEF IsOpen, OpensFor
  <2> QED  BY <1>3, <2>1, ApiDueGrows
<1>5. Formed'
  <2>1. \A n \in {m} : ApiFormed(n)'
    BY <1>1, <1>2 DEF ApiFormed
  <2>2. IsQueue(apiQ') /\ (\A k \in DOMAIN apiQ : ApiFormed(apiQ[k]))'
    BY <1>1, <1>3, <2>1, FormedApi DEF MaskInv
  <2>3. (\A k \in DOMAIN taskQ : TaskFormed(taskQ[k]))'
    BY <1>1 DEF MaskInv, Formed, TaskFormed
  <2> QED  BY <1>1, <2>2, <2>3 DEF MaskInv, Formed
<1>6. Opened'
  BY <1>1, <1>4 DEF MaskInv, Opened
<1>7. Masked'
  BY <1>1 DEF MaskInv, Masked, GnssWants, Has, GeofenceMask, BatchingMask
<1>8. Wishes <=> Wishes'
  BY <1>1 DEF Wishes, FirstWish, LastWish, NextWish, Wish, Needed, Measures
<1>9. \A b : (Knows(b)' <=> Knows(b)) /\ (UpDue(b)' <=> UpDue(b))
  BY <1>1 DEF Knows, Newest, UpDue, Up
<1>10. Restarted'
  BY <1>1, <1>4, <1>9 DEF MaskInv, Restarted
<1>11. (GnssDue => GnssDue') /\ (a = "gnss" => GnssDue')
  BY <1>4, <1>9 DEF GnssDue
<1>12. Configured'
  BY <1>1, <1>11 DEF MaskInv, Configured
<1>13. TypesSet => TypesSet'
  BY <1>1, <1>2, <1>3, TypesGrow
<1>14. "debug" \in ConfTypes => TypesKept'
  BY <1>1, <1>11, <1>13 DEF MaskInv, TypesKept
<1>15. Informed'
  BY <1>1 DEF MaskInv, Informed, InfoReaches
<1> QED  BY <1>5, <1>6, <1>7, <1>8, <1>10, <1>12, <1>14, <1>15 DEF MaskInv

LEMMA StepDie ==
  ASSUME MaskInv, Die
  PROVE  MaskInv'
<1> DEFINE m == [op |-> "ssr"]
<1>1. /\ modem' = Down /\ apiQ' = Append(apiQ, m)
      /\ UNCHANGED <<adapters, callbacks, evtMask, nmeaMask, agps, odcpi, sysInfo, taskQ>>
      /\ UNCHANGED <<upSince, nhzWish, infoSent, infoSeen>>
  BY DEF Die, adapterVars
<1>2. m.op = "ssr"
  OBVIOUS
<1> HIDE DEF m
<1>3. Grown(apiQ', apiQ, {m})
  BY <1>1, GrowsByOne DEF MaskInv, Formed
<1>4. OpenDue' /\ RestartDue' /\ \A b : ApiDue(b)'
  <2>1. IsOpen(m) /\ \A b : OpensFor(m, b)
    BY <1>2 DEF IsOpen, OpensFor
  <2> QED  BY <1>2, <1>3, <2>1, ApiDueGrows
<1>5. Formed'
  <2>1. \A n \in {m} : ApiFormed(n)'
    BY <1>1, <1>2 DEF ApiFormed
  <2>2. IsQueue(apiQ') /\ (\A k \in DOMAIN apiQ : ApiFormed(apiQ[k]))'
    BY <1>1, <1>3, <2>1, FormedApi DEF MaskInv
  <2>3. (\A k \in DOMAIN taskQ : TaskFormed(taskQ[k]))'
    BY <1>1 DEF MaskInv, Formed, TaskFormed
  <2>4. modem'.up \in BOOLEAN /\ DOMAIN modem' = {"up", "mask", "types"}
    BY <1>1 DEF Down
  <2> QED  BY <1>1, <2>2, <2>3, <2>4 DEF MaskInv, Formed
<1>6. Opened'
  BY <1>4 DEF Opened
<1>7. Masked'
  BY <1>1 DEF MaskInv, Masked, GnssWants, Has, GeofenceMask, BatchingMask
<1>8. Wishes <=> Wishes'
  BY <1>1 DEF Wishes, FirstWish, LastWish, NextWish, Wish, Needed, Measures
<1>9. Restarted' /\ Configured' /\ TypesKept'
  BY <1>4 DEF Restarted, Configured, TypesKept, GnssDue
<1>10. Informed'
  BY <1>1 DEF MaskInv, Informed, InfoReaches
<1> QED  BY <1>5, <1>6, <1>7, <1>8, <1>9, <1>10 DEF MaskInv

LEMMA StepReturn ==
  ASSUME MaskInv, Return \/ UNCHANGED maskVars
  PROVE  MaskInv'
<1>1. /\ UNCHANGED <<adapters, callbacks, evtMask, nmeaMask, agps, odcpi, sysInfo, taskQ, apiQ>>
      /\ UNCHANGED <<restarts, upSince, nhzWish, infoSent, infoSeen>>
      /\ modem' = [modem EXCEPT !.up = TRUE] \/ modem' = modem
  BY DEF Return, maskVars, adapterVars, queueVars, worldVars
<1>2. /\ modem'.up = modem.up \/ modem'.up
      /\ DOMAIN modem' = {"up", "mask", "types"} /\ modem'.up \in BOOLEAN
      /\ modem'.mask = modem.mask /\ modem'.types = modem.types
  BY <1>1 DEF MaskInv, Formed
<1>3. Formed'
  BY <1>1, <1>2 DEF MaskInv, Formed, TaskFormed, ApiFormed
<1>4. Opened'
  BY <1>1, <1>2 DEF MaskInv, Opened, OpenDue, RestartDue, IsOpen, Union
<1>5. Masked'
  BY <1>1 DEF MaskInv, Masked, GnssWants, Has, GeofenceMask, BatchingMask
<1>6. Wishes <=> Wishes'
  BY <1>1 DEF Wishes, FirstWish, LastWish, NextWish, Wish, Needed, Measures
<1>7. /\ \A b : (Knows(b)' <=> Knows(b)) /\ (UpDue(b)' <=> UpDue(b)) /\ (ApiDue(b)' <=> ApiDue(b))
      /\ GnssDue' <=> GnssDue
  BY <1>1 DEF Knows, Newest, UpDue, Up, ApiDue, OpensFor, GnssDue
<1>8. Restarted' /\ Configured'
  BY <1>1, <1>7 DEF MaskInv, Restarted, Configured
<1>9. "debug" \in ConfTypes => TypesKept'
  BY <1>1, <1>2, <1>7 DEF MaskInv, TypesKept, TypesSet, Typed
<1>10. Informed'
  BY <1>1 DEF MaskInv, Informed, InfoReaches
<1> QED  BY <1>3, <1>4, <1>5, <1>6, <1>8, <1>9, <1>10 DEF MaskInv

\* A message to the adapters is sent.
LEMMA StepSend ==
  ASSUME MaskInv,
         \/ \E a \in Adapters, c \in Clients : \E given \in Offers[a] \cup {{}} : GiveCallbacks(a, c, given)
         \/ \E which \in {"agps", "odcpi"} : GiveHandler(which)
         \/ \E needed \in BOOLEAN : HubWishes(needed)
         \/ \E pieces \in (SUBSET Pieces) \ {{}} : ReportInfo(pieces)
  PROVE  MaskInv'
<1>0. IsQueue(taskQ) /\ infoSent \in [Pieces -> Nat] /\ nhzWish \in BOOLEAN
  BY DEF MaskInv, Formed, Informed
<1>1. ASSUME NEW m, ToTask(m), m.op # "nhz", UNCHANGED <<nhzWish, evtMask>>
      PROVE  Grown(taskQ', taskQ, {m}) /\ (~HubRepeats => Wishes')
  <2>1. Grown(taskQ', taskQ, {m})
    BY <1>0, <1>1, GrowsByOne DEF ToTask
  <2>2. Measures' <=> Measures
    BY <1>1 DEF Measures
  <2>3. \A n \in {m} : n.op # "nhz"
    BY <1>1
  <2> QED  BY <1>1, <2>1, <2>2, <2>3, WishesGrow DEF MaskInv
<1>2. ASSUME NEW a \in Adapters, NEW c \in Clients, NEW given \in Offers[a] \cup {{}},
             GiveCallbacks(a, c, given)
      PROVE  MaskInv'
  <2> DEFINE m == [op |-> "client", adapter |-> a, client |-> c, given |-> given]
  <2>1. TaskFormed(m) /\ m.op = "client"
    BY <1>2 DEF GiveCallbacks, TaskFormed
  <2>2. ToTask(m) /\ UNCHANGED <<adapterVars, worldVars, apiQ>>
    BY <1>2 DEF GiveCallbacks, ToTask
  <2> HIDE DEF m
  <2>3. UNCHANGED <<evtMask, nhzWish, modem, restarts, upSince, infoSeen, infoSent>>
    BY <2>2 DEF adapterVars, worldVars
  <2>4. Grown(taskQ', taskQ, {m}) /\ (~HubRepeats => Wishes')
    BY <1>1, <2>1, <2>2, <2>3
  <2> QED  BY <1>0, <2>1, <2>2, <2>3, <2>4, InvSent
<1>3. ASSUME NEW which \in {"agps", "odcpi"}, GiveHandler(which)
      PROVE  MaskInv'
  <2> DEFINE m == [op |-> which]
  <2>1. TaskFormed(m) /\ m.op = which
    BY <1>3 DEF GiveHandler, TaskFormed
  <2>2. ToTask(m) /\ UNCHANGED <<adapterVars, worldVars, apiQ>>
    BY <1>3 DEF GiveHandler, ToTask
  <2> HIDE DEF m
  <2>3. UNCHANGED <<evtMask, nhzWish, modem, restarts, upSince, infoSeen, infoSent>>
    BY <2>2 DEF adapterVars, worldVars
  <2>4. Grown(taskQ', taskQ, {m}) /\ (~HubRepeats => Wishes')
    BY <1>1, <2>1, <2>2, <2>3
  <2> QED  BY <1>0, <2>1, <2>2, <2>3, <2>4, InvSent
<1>4. ASSUME NEW needed \in BOOLEAN, HubWishes(needed)
      PROVE  MaskInv'
  <2> DEFINE m == [op |-> "nhz", needed |-> needed]
  <2>1. m.op = "nhz" /\ m.needed = needed
    OBVIOUS
  <2>2. /\ ToTask(m) /\ HubLoaded /\ "info" \in evtMask["gnss"] /\ nhzWish' = needed
        /\ needed # nhzWish \/ HubRepeats
        /\ UNCHANGED <<adapterVars, modem, restarts, upSince, infoSent, infoSeen, apiQ>>
    BY <1>4 DEF HubWishes, ToTask
  <2> HIDE DEF m
  <2>3. "gnss" \in adapters
    BY <2>2 DEF MaskInv, Masked, Adapters
  <2>4. TaskFormed(m)
    BY <2>1, <2>2, <2>3 DEF TaskFormed
  <2>5. /\ Grown(taskQ', taskQ, {m})
        /\ \A k \in DOMAIN taskQ' : k \in DOMAIN taskQ \/ k = Len(taskQ) + 1
    BY <1>0, <2>2, GrowsByOne DEF ToTask
  <2>6. Measures' <=> Measures
    BY <2>2 DEF Measures, adapterVars
  <2>7. ~HubRepeats => Wishes'
    BY <1>0, <2>1, <2>2, <2>5, <2>6, WishesSaid DEF MaskInv
  <2> QED  BY <1>0, <2>1, <2>2, <2>4, <2>5, <2>7, InvSent
<1>5. ASSUME NEW pieces \in (SUBSET Pieces) \ {{}}, ReportInfo(pieces)
      PROVE  MaskInv'
  <2> DEFINE m == [op |-> "info",
                   report |-> [p \in Pieces |-> IF p \in pieces THEN infoSent'[p] ELSE 0]]
  <2>1. infoSent' \in [Pieces -> Nat]
    BY <1>0, <1>5 DEF ReportInfo
  <2>2. TaskFormed(m) /\ m.op = "info"
    BY <2>1 DEF TaskFormed
  <2>3. ToTask(m) /\ UNCHANGED <<adapterVars, modem, restarts, upSince, nhzWish, infoSeen, apiQ>>
    BY <1>5 DEF ReportInfo, ToTask
  <2> HIDE DEF m
  <2>4. UNCHANGED <<evtMask, nhzWish>>
    BY <2>3 DEF adapterVars
  <2>5. Grown(taskQ', taskQ, {m}) /\ (~HubRepeats => Wishes')
    BY <1>1, <2>2, <2>3, <2>4
  <2> QED  BY <1>0, <2>1, <2>2, <2>3, <2>4, <2>5, InvSent
<1> QED  BY <1>2, <1>3, <1>4, <1>5

LEMMA MaskStep ==
  ASSUME MaskInv, [MaskNext]_maskVars
  PROVE  MaskInv'
BY StepTask, StepApi, StepAdd, StepDie, StepReturn, StepSend DEF MaskNext

LEMMA MaskStart ==
  ASSUME MaskInit
  PROVE  MaskInv
<1>1. /\ adapters = {} /\ callbacks = [a \in Adapters |-> [c \in Clients |-> {}]]
      /\ evtMask = [a \in Adapters |-> {}] /\ nmeaMask = {}
      /\ agps = FALSE /\ odcpi = FALSE /\ sysInfo = NoInfo
      /\ taskQ = <<>> /\ apiQ = <<>>
      /\ modem = [up |-> TRUE, mask |-> {}, types |-> {}]
      /\ DOMAIN upSince = Adapters /\ nhzWish = FALSE
      /\ infoSent = NoInfo /\ infoSeen = [c \in Clients |-> NoInfo]
  BY DEF MaskInit, Down
<1>2. IsQueue(taskQ) /\ IsQueue(apiQ) /\ DOMAIN taskQ = {} /\ DOMAIN apiQ = {}
  BY <1>1, NoMessage
<1>3. Formed
  BY <1>1, <1>2 DEF Formed
<1>4. Opened
  BY <1>1, <1>2 DEF Opened, Union
<1>5. Masked
  <2>1. \A a \in Adapters : \A cb : ~Has(a, callbacks, cb)
    BY <1>1 DEF Has
  <2>2. "gnss" \in Adapters /\ "geofence" \in Adapters /\ "batching" \in Adapters
    BY DEF Adapters
  <2>3. GeofenceMask(callbacks) = {} /\ BatchingMask(callbacks) = {} /\ GnssWants = {}
    BY <1>1, <2>1, <2>2 DEF GeofenceMask, BatchingMask, GnssWants
  <2> QED  BY <1>1, <2>1, <2>2, <2>3 DEF Masked
<1>6. Wishes
  BY <1>1, <1>2 DEF Wishes, Measures, Adapters
<1>7. Restarted /\ Configured /\ TypesKept
  BY <1>1 DEF Restarted, Configured, TypesKept
<1>8. Informed
  <2>1. NoInfo \in [Pieces -> Nat] /\ \A p \in Pieces : NoInfo[p] = 0
    BY DEF NoInfo
  <2> HIDE DEF NoInfo
  <2> QED  BY <1>1, <2>1 DEF Informed, InfoReaches, Adapters
<1> QED  BY <1>3, <1>4, <1>5, <1>6, <1>7, <1>8 DEF MaskInv

LEMMA MaskInvariant == MaskSpec => []MaskInv
<1>1. MaskInit => MaskInv
  BY MaskStart
<1>2. MaskInv /\ [MaskNext]_maskVars => MaskInv'
  BY MaskStep
<1> QED  BY <1>1, <1>2, PTL DEF MaskSpec

\* What the masks of the adapters come to.
LEMMA UnionOfAll ==
  ASSUME Formed, Masked
  PROVE  \A x : x \in Union <=> /\ x \notin Excluded
                               /\ \/ x \in evtMask["gnss"] \/ x \in GeofenceMask(callbacks)
                                  \/ x \in BatchingMask(callbacks)
<1>1. \A a \in Adapters : a \in adapters \/ evtMask[a] = {}
  BY DEF Masked
<1>2. adapters \subseteq Adapters
  BY DEF Formed
<1>3. evtMask["geofence"] = GeofenceMask(callbacks) /\ evtMask["batching"] = BatchingMask(callbacks)
  BY DEF Masked
<1>4. Adapters = {"gnss", "geofence", "batching"}
  BY DEF Adapters
<1>5. \A x : x \in Union <=> x \notin Excluded /\ \E a \in adapters : x \in evtMask[a]
  BY DEF Union
<1>6. \A x : (\E a \in adapters : x \in evtMask[a]) <=> \E a \in Adapters : x \in evtMask[a]
  BY <1>1, <1>2
<1>7. \A x : (\E a \in Adapters : x \in evtMask[a])
              <=> x \in evtMask["gnss"] \/ x \in evtMask["geofence"] \/ x \in evtMask["batching"]
  BY <1>4
<1> QED  BY <1>3, <1>5, <1>6, <1>7

LEMMA SettledFollows ==
  ASSUME MaskInv, Wishes, Settled
  PROVE  MaskFollows
<1> DEFINE E == evtMask["gnss"]
           GF == GeofenceMask(callbacks)
           BT == BatchingMask(callbacks)
<1>1. ~OpenDue /\ ~GnssDue /\ DOMAIN taskQ = {}
  BY DEF Settled, OpenDue, GnssDue, UpDue, ApiDue
<1>2. modem.mask = Union
  BY <1>1 DEF MaskInv, Opened
<1>3. \A x : x \in modem.mask <=> x \notin Excluded /\ (x \in E \/ x \in GF \/ x \in BT)
  BY <1>2, UnionOfAll DEF MaskInv
<1>4. "nhz" \in E <=> nhzWish
  BY <1>1 DEF Wishes, Measures
<1>5. nmeaMask = ConfTypes \/ \A cb : ~Has("gnss", callbacks, cb)
  <2>1. CASE "gnss" \in adapters
    BY <1>1, <2>1 DEF MaskInv, Configured
  <2>2. CASE "gnss" \notin adapters
    BY <2>2, Unmasked DEF MaskInv, Masked, Adapters
  <2> QED  BY <2>1, <2>2
<1>6. GF \subseteq {"breach", "dwell", "alert"} /\ BT \subseteq {"batchStatus"}
  BY DEF GeofenceMask, BatchingMask
<1>7. E \ Housekeeping = GnssWants
  BY DEF MaskInv, Masked
<1> DEFINE B == {"position", "satellites", "nmea", "server", "wifi"}
           meas == Has("gnss", callbacks, "measurement")
<1>8. Wanted = GnssWants \cup (IF meas THEN {"measurement"} ELSE {})
               \cup (IF nhzWish THEN {"nhz"} ELSE {}) \cup GF \cup BT
  <2>1. (ConfTypes # {} /\ Has("gnss", callbacks, "nmea"))
          <=> (nmeaMask # {} /\ Has("gnss", callbacks, "nmea"))
    BY <1>5
  <2>2. (\E cb \in {"tracking", "data"} : Has("gnss", callbacks, cb))
          <=> (Has("gnss", callbacks, "tracking") \/ Has("gnss", callbacks, "data"))
    OBVIOUS
  <2> HIDE DEF GF, BT
  <2>3. Wanted = (IF Has("gnss", callbacks, "tracking") \/ Has("gnss", callbacks, "data") THEN {"position"} ELSE {})
          \cup (IF Has("gnss", callbacks, "sv") THEN {"satellites"} ELSE {})
          \cup (IF Has("gnss", callbacks, "data") \/ (nmeaMask # {} /\ Has("gnss", callbacks, "nmea"))
                THEN {"nmea"} ELSE {})
          \cup (IF meas THEN {"measurement"} ELSE {})
          \cup (IF agps THEN {"server"} ELSE {}) \cup (IF odcpi THEN {"wifi"} ELSE {})
          \cup (IF nhzWish THEN {"nhz"} ELSE {})
          \cup GF \cup BT
    BY <2>1, <2>2, Zenon DEF Wanted, GF, BT
  <2> HIDE DEF meas
  <2> QED  BY <2>3 DEF GnssWants
<1>9. GnssWants \subseteq B
  BY DEF GnssWants
<1>10. /\ Housekeeping = HubBits \cup {"info", "nhz"}
       /\ HubBits = {"measurement", "polynomial", "unpropagated", "ephemeris"}
  BY DEF Housekeeping, HubBits
<1>11. (meas => "measurement" \in E) /\ ((\E c \in Clients : callbacks["gnss"][c] # {}) => "info" \in E)
  BY DEF MaskInv, Masked
<1> DEFINE W == Wanted
           G == GnssWants
           M == modem.mask
<1> HIDE DEF E, GF, BT, W, G, M, meas
<1>12. \A x : x \in W <=> \/ x \in G \/ (meas /\ x = "measurement") \/ (nhzWish /\ x = "nhz")
                         \/ x \in GF \/ x \in BT
  BY <1>8 DEF W, G
<1>13. /\ \A x : x \in G <=> x \in E /\ x \notin Housekeeping
       /\ \A x \in G : x \in B
       /\ \A x : x \in M <=> x \notin Excluded /\ (x \in E \/ x \in GF \/ x \in BT)
  BY <1>3, <1>7, <1>9 DEF G, M
<1>14. ASSUME NEW x PROVE x \in M \ (HubBits \cup {"info"}) <=> x \in W \ (Excluded \cup HubBits)
  <2>1. x \in GF \/ x \in BT => x \notin Housekeeping
    BY <1>6, <1>10
  <2>2. x \in G => x \notin Housekeeping
    BY <1>13
  <2>3. CASE x \in Housekeeping
    <3>1. CASE x = "nhz"
      BY <1>4, <1>10, <1>12, <1>13, <2>1, <2>2, <2>3, <3>1
    <3>2. CASE x # "nhz"
      BY <1>10, <1>12, <1>13, <2>1, <2>2, <2>3, <3>2
    <3> QED  BY <3>1, <3>2
  <2>4. CASE x \notin Housekeeping
    BY <1>10, <1>12, <1>13, <2>4
  <2> QED  BY <2>3, <2>4
<1>15. (W \cap HubBits) \ Excluded \subseteq M
  <2> SUFFICES ASSUME NEW x \in W, x \in HubBits, x \notin Excluded PROVE x \in M
    OBVIOUS
  <2>1. x \in Housekeeping /\ x # "nhz"
    BY <1>10
  <2>2. x = "measurement" /\ meas
    BY <1>6, <1>10, <1>12, <1>13, <2>1
  <2> QED  BY <1>11, <1>13, <2>2
<1>16. (\E c \in Clients : callbacks["gnss"][c] # {}) => "info" \in M \cup Excluded
  BY <1>11, <1>13
<1>17. M \ (HubBits \cup {"info"}) = W \ (Excluded \cup HubBits)
  BY <1>14
<1> QED  BY <1>15, <1>16, <1>17 DEF MaskFollows, W, M

\* Whatever the order in which the adapters come up, clients give and take
\* callbacks, the AGPS and ODCPI handlers register, the hub changes its mind
\* and the modem restarts: once the messages are handled, the modem reports
\* what they want.  As long as the hub does not say the same thing twice,
\* which the adapter would take for its opposite.
THEOREM MasksFollow ==
  ASSUME ~HubRepeats
  PROVE  MaskSpec => []MaskFollows
<1>1. MaskInv => MaskFollows
  <2> SUFFICES ASSUME MaskInv, Settled PROVE MaskFollows
    BY DEF MaskFollows
  <2> QED  BY SettledFollows DEF MaskInv
<1> QED  BY <1>1, MaskInvariant, PTL

\* Once the messages are handled, the modem has the NMEA types that the
\* configuration and the clients ask for, also after a restart.  If the
\* configuration asks for the debug sentences: otherwise a client of the raw
\* data loses them when the engine comes up.
THEOREM TypesFollowConfig ==
  ASSUME "debug" \in ConfTypes
  PROVE  MaskSpec => []TypesFollow
<1>1. MaskInv => TypesFollow
  <2> SUFFICES ASSUME MaskInv, Settled, "gnss" \in adapters
               PROVE  modem.types = ConfTypes \cup (IF Has("gnss", callbacks, "data") THEN {"debug"} ELSE {})
    BY DEF TypesFollow
  <2>1. ~GnssDue /\ DOMAIN apiQ = {}
    BY DEF Settled, GnssDue, UpDue, ApiDue
  <2>2. modem.types = ConfTypes
    BY <2>1 DEF MaskInv, TypesKept, TypesSet
  <2> QED  BY <2>2
<1> QED  BY <1>1, MaskInvariant, PTL

\* No adapter misses a restart of the modem: once the messages are handled,
\* each was told that the engine is up after the last one.
THEOREM RestartsReachAll == MaskSpec => []RestartsReach
<1>1. MaskInv => RestartsReach
  <2> SUFFICES ASSUME MaskInv, Settled, NEW a \in adapters PROVE upSince[a] = restarts
    BY DEF RestartsReach
  <2>1. ~ApiDue(a) /\ ~UpDue(a)
    BY DEF Settled, ApiDue, UpDue
  <2> QED  BY <2>1 DEF MaskInv, Restarted, Knows
<1> QED  BY <1>1, MaskInvariant, PTL

\* A client that has the callback was told the last of every piece of the
\* system information that the adapter knows, whenever it came.
THEOREM InfoReachesAll == MaskSpec => []InfoReaches
<1>1. MaskInv => InfoReaches
  BY DEF MaskInv, Informed
<1> QED  BY <1>1, MaskInvariant, PTL

\* Both together: the modem obeys when the engine hub says once that it needs N Hz
\* measurements, and once that it does not, and debug messages are configured.
THEOREM ModemAlwaysObeys ==
  ASSUME ~HubRepeats, "debug" \in ConfTypes
  PROVE  MaskSpec => []ModemObeys
<1>1. MaskFollows /\ TypesFollow => ModemObeys
  BY DEF ModemObeys
<1> QED  BY <1>1, MasksFollow, TypesFollowConfig, PTL

\* Every adapter hears of every restart and every client of the newest information, with
\* any configuration.
THEOREM EveryoneIsTold == MaskSpec => []EveryoneTold
<1>1. RestartsReach /\ InfoReaches => EveryoneTold
  BY DEF EveryoneTold
<1> QED  BY <1>1, RestartsReachAll, InfoReachesAll, PTL

-----------------------------------------------------------------------------
(***************************************************************************)
(* The configuration of the location engine.                               *)
(***************************************************************************)
\* What the order of the queues depends on: commands that configure the blacklist, those
\* for satellites and constellations, and calls for the tunc have labels of their own.
Label(m) ==
  IF m.kind = "config" THEN IF "ids" \in m.flags THEN "ids" ELSE "config"
  ELSE IF m.kind \in {"svTypes", "svConfig"} THEN "svs"
  ELSE IF m.kind = "call" THEN IF m.item = "tunc" THEN "tuncCall" ELSE "call"
  ELSE m.kind

Holds(q, x) == \E k \in DOMAIN q : Label(q[k]) = x
Ordered(q, x, y) ==
  \A j, k \in DOMAIN q : Label(q[j]) = x /\ Label(q[k]) = y => j < k
Once(q, x) == \A j, k \in DOMAIN q : Label(q[j]) = x /\ Label(q[k]) = x => j = k
Leads(q, x) == Holds(q, x) => Label(Head(q)) = x /\ Once(q, x)

\* The calls of LocApi that give the modem an item, and the values they give.
Restored == {"lock", "supl", "server", "ids"}
Sets(j, i) ==
  \/ j.kind = "call" /\ j.item = i
  \/ j.kind = "inject" /\ i \in Passed(Restored)
  \/ j.kind = "config" /\ i \in Passed(j.flags) \cap (j.update \cup {"ids", "elevation"})
Gives(j, i) ==
  IF j.kind = "inject" THEN IF i = "ids" THEN IdsAlone(j.ids) ELSE j[i]
  ELSE IF j.kind = "config" /\ i = "lock" THEN j.lock
  ELSE IF j.kind = "config" /\ i = "server" THEN j.server
  ELSE IF j.kind = "config" /\ i = "ids" THEN IdsAlone(j.v)
  ELSE j.v
Setter(q, i) == \E k \in DOMAIN q : Sets(q[k], i)
SettledOn(q, i, w) ==
  \A k \in DOMAIN q :
    Sets(q[k], i) => Gives(q[k], i) = w \/ \E n \in DOMAIN q : k < n /\ Sets(q[n], i)

\* With these calls before it, a modem that has mem of i has the value w of it at last.
HeldIn(q, mem, i, w) ==
  /\ SettledOn(q, i, w)
  /\ ~Setter(q, i) => mem \in {Refused, w}
Gets(i, w) == HeldIn(locApiQ, nvram[i], i, w)

-----------------------------------------------------------------------------
MessageOK(m) ==
  /\ m.kind \in {"engineUp", "config", "svTypes", "svConfig", "tunc", "enable", "disable",
                 "nfw", "answer"}
  /\ m.kind = "config" => m.flags \in FlagSets /\ m.v \in ConfValues
  /\ m.kind = "svTypes" => m.v \in SvType \cup {Default}
  /\ m.kind = "svConfig" => /\ m.v \in ConfValues /\ m.w \in SvType \cup {Default}
                            /\ m.w = Default \/ SetsTypes
  /\ m.kind = "tunc" => m.v \in ConfValues
JobOK(j) ==
  /\ j.kind \in {"open", "call", "config", "inject", "loadTunc"}
  /\ j.kind = "call" => j.item \in ModemItems /\ j.v \in SettingsOf(j.item)
  /\ j.kind = "config" => /\ j.flags \in FlagSets /\ j.lock \in Locks
                          /\ {j.v, j.server} \subseteq ConfValues
  /\ j.kind = "inject" => /\ j.flags = Restored /\ j.lock \in Locks
                          /\ {j.supl, j.server, j.ids} \subseteq ConfValues
Reopens == Holds(locApiQ, "open") \/ Holds(adapterQ, "engineUp")

QueuesOK ==
  /\ IsSequence(adapterQ) /\ \A m \in Range(adapterQ) : MessageOK(m)
  /\ IsSequence(heldConfigs)
  /\ \A m \in Range(heldConfigs) : MessageOK(m) /\ m.kind \in {"config", "svTypes"}
  /\ IsSequence(locApiQ) /\ \A j \in Range(locApiQ) : JobOK(j)

UpInv ==
  /\ modemOn = ~Holds(locApiQ, "open")
  /\ Once(locApiQ, "open")
  /\ engineKnown \/ Reopens
  /\ modemOn \/ \A i \in ModemItems : nvram[i] = Default
ConfigTyped ==
  /\ conf \in [lock : Locks, supl : ConfValues, server : ConfValues, es : ConfValues]
  /\ svIds \in ConfValues /\ tunc \in ConfValues \cup {Default}
  /\ svTypes \in SvType \cup {Default}
  /\ {qLock, afw, engineKnown, modemOn} \subseteq BOOLEAN
  /\ \A i \in ModemItems : nvram[i] \in SettingsOf(i)
  /\ xtraLock \in Locks /\ reopens \in 0 .. MaxReopens
BaseInv ==
  /\ ConfigTyped
  /\ QueuesOK
  /\ UpInv

\* The queue r is q with a behind it.
Joined(r, q, a) ==
  /\ IsSequence(r)
  /\ Len(q) \in Nat /\ Len(a) \in Nat
  /\ DOMAIN q = 1 .. Len(q) /\ DOMAIN a = 1 .. Len(a)
  /\ DOMAIN r = 1 .. Len(q) + Len(a)
  /\ \A k \in 1 .. Len(q) : r[k] = q[k]
  /\ \A k \in 1 .. Len(a) : r[Len(q) + k] = a[k]
  /\ \A k \in DOMAIN r : k \in DOMAIN q \/ k - Len(q) \in DOMAIN a

LEMMA QJoins ==
  ASSUME NEW q, IsSequence(q), NEW a, IsSequence(a), NEW r, r = q \o a
  PROVE  Joined(r, q, a)
<1> DEFINE S == Range(q) \cup Range(a)
<1>1. q \in Seq(S) /\ a \in Seq(S)
  BY SeqMonotonic DEF IsSequence
<1> HIDE DEF S
<1>2. /\ r \in Seq(S) /\ Len(r) = Len(q) + Len(a)
      /\ \A k \in 1 .. Len(q) : r[k] = q[k]
      /\ \A k \in 1 .. Len(a) : r[Len(q) + k] = a[k]
  BY <1>1, ConcatProperties
<1>3. IsSequence(r)
  BY <1>2, QueueOf
<1>4. Len(q) \in Nat /\ Len(a) \in Nat /\ DOMAIN q = 1 .. Len(q) /\ DOMAIN a = 1 .. Len(a)
  BY <1>1
<1>5. DOMAIN r = 1 .. Len(r)
  BY <1>2
<1>6. \A k \in 1 .. Len(q) + Len(a) : k \in 1 .. Len(q) \/ k - Len(q) \in 1 .. Len(a)
  BY <1>4
<1> QED  BY <1>2, <1>3, <1>4, <1>5, <1>6 DEF Joined

LEMMA JoinHas ==
  ASSUME NEW q, IsSequence(q), NEW a, IsSequence(a), NEW r, r = q \o a
  PROVE  /\ IsSequence(r)
         /\ Range(r) = Range(q) \cup Range(a)
         /\ \A x : Holds(r, x) <=> Holds(q, x) \/ Holds(a, x)
         /\ \A i : Setter(r, i) <=> Setter(q, i) \/ Setter(a, i)
<1> DEFINE n == Len(q)
<1>a. Joined(r, q, a)
  BY QJoins
<1>1. /\ IsSequence(r) /\ n \in Nat /\ Len(a) \in Nat
      /\ DOMAIN q = 1 .. n /\ DOMAIN a = 1 .. Len(a) /\ DOMAIN r = 1 .. n + Len(a)
      /\ \A k \in 1 .. n : r[k] = q[k]
      /\ \A k \in 1 .. Len(a) : r[n + k] = a[k]
      /\ \A k \in DOMAIN r : k \in DOMAIN q \/ k - n \in DOMAIN a
  BY <1>a DEF Joined
<1> HIDE DEF n
<1>2. \A k \in DOMAIN q : k \in DOMAIN r /\ r[k] = q[k]
  BY <1>1
<1>3. \A k \in DOMAIN a : n + k \in DOMAIN r /\ r[n + k] = a[k]
  BY <1>1
<1>4. ASSUME NEW k \in DOMAIN r
      PROVE  \/ k \in DOMAIN q /\ r[k] = q[k]
             \/ k - n \in DOMAIN a /\ r[k] = a[k - n]
  <2>1. k \in Nat
    BY <1>1
  <2>2. CASE k \in DOMAIN q
    BY <1>2, <2>2
  <2>3. CASE k - n \in DOMAIN a
    <3>1. n + (k - n) = k
      BY <1>1, <2>1
    <3> QED  BY <1>3, <2>3, <3>1
  <2> QED  BY <1>1, <2>2, <2>3
<1>5. Range(r) = Range(q) \cup Range(a)
  <2>1. Range(q) \subseteq Range(r)
    BY <1>2 DEF Range
  <2>2. Range(a) \subseteq Range(r)
    BY <1>3 DEF Range
  <2>3. Range(r) \subseteq Range(q) \cup Range(a)
    BY <1>4 DEF Range
  <2> QED  BY <2>1, <2>2, <2>3
<1>6. ASSUME NEW x PROVE Holds(r, x) <=> Holds(q, x) \/ Holds(a, x)
  <2>1. Holds(q, x) => Holds(r, x)
    BY <1>2 DEF Holds
  <2>2. Holds(a, x) => Holds(r, x)
    BY <1>3 DEF Holds
  <2>3. Holds(r, x) => Holds(q, x) \/ Holds(a, x)
    BY <1>4 DEF Holds
  <2> QED  BY <2>1, <2>2, <2>3
<1>7. ASSUME NEW i PROVE Setter(r, i) <=> Setter(q, i) \/ Setter(a, i)
  <2>1. Setter(q, i) => Setter(r, i)
    BY <1>2 DEF Setter
  <2>2. Setter(a, i) => Setter(r, i)
    BY <1>3 DEF Setter
  <2>3. Setter(r, i) => Setter(q, i) \/ Setter(a, i)
    BY <1>4 DEF Setter
  <2> QED  BY <2>1, <2>2, <2>3
<1> QED  BY <1>1, <1>5, <1>6, <1>7

LEMMA JoinOrder ==
  ASSUME NEW q, IsSequence(q), NEW a, IsSequence(a), NEW r, r = q \o a
  PROVE  /\ \A x, y : Ordered(q, x, y) /\ Ordered(a, x, y) /\ ~(Holds(q, y) /\ Holds(a, x))
                        => Ordered(r, x, y)
         /\ \A x : Once(q, x) /\ Once(a, x) /\ ~(Holds(q, x) /\ Holds(a, x)) => Once(r, x)
         /\ q # <<>> => r # <<>> /\ Head(r) = Head(q)
<1> DEFINE n == Len(q)
<1>a. Joined(r, q, a)
  BY QJoins
<1>1. /\ IsSequence(r) /\ n \in Nat /\ Len(a) \in Nat
      /\ DOMAIN q = 1 .. n /\ DOMAIN a = 1 .. Len(a) /\ DOMAIN r = 1 .. n + Len(a)
      /\ \A k \in 1 .. n : r[k] = q[k]
      /\ \A k \in 1 .. Len(a) : r[n + k] = a[k]
      /\ \A k \in DOMAIN r : k \in DOMAIN q \/ k - n \in DOMAIN a
  BY <1>a DEF Joined
<1>0. q # <<>> => n > 0 /\ Head(q) = q[1]
  <2>1. q \in Seq(Range(q))
    BY DEF IsSequence
  <2> QED  BY <2>1
<1> HIDE DEF n
<1>4. ASSUME NEW k \in DOMAIN r
      PROVE  \/ k \in DOMAIN q /\ r[k] = q[k] /\ k <= n
             \/ k - n \in DOMAIN a /\ r[k] = a[k - n] /\ k > n
  <2>1. k \in Nat
    BY <1>1
  <2>2. CASE k \in DOMAIN q
    BY <1>1, <2>2
  <2>3. CASE k - n \in DOMAIN a
    <3>1. n + (k - n) = k
      BY <1>1, <2>1
    <3>2. r[k] = a[k - n]
      BY <1>1, <2>3, <3>1
    <3>3. k > n
      BY <1>1, <2>1, <2>3
    <3> QED  BY <2>3, <3>2, <3>3
  <2> QED  BY <1>1, <2>2, <2>3
<1>5. DOMAIN r \subseteq Nat
  BY <1>1
<1>6. ASSUME NEW x, NEW y, Ordered(q, x, y), Ordered(a, x, y), ~(Holds(q, y) /\ Holds(a, x)),
             NEW j \in DOMAIN r, NEW k \in DOMAIN r, Label(r[j]) = x, Label(r[k]) = y
      PROVE  j < k
  <2>1. CASE k \in DOMAIN q /\ r[k] = q[k] /\ k <= n
    <3>1. Holds(q, y)
      BY <1>6, <2>1 DEF Holds
    <3>2. ~(j - n \in DOMAIN a /\ r[j] = a[j - n])
      BY <1>6, <3>1 DEF Holds
    <3>3. j \in DOMAIN q /\ r[j] = q[j]
      BY <1>4, <3>2
    <3> QED  BY <1>6, <2>1, <3>3 DEF Ordered
  <2>2. CASE k - n \in DOMAIN a /\ r[k] = a[k - n] /\ k > n
    <3>1. CASE j <= n
      BY <1>1, <1>5, <2>2, <3>1
    <3>2. CASE j - n \in DOMAIN a /\ r[j] = a[j - n]
      <4>1. j - n < k - n
        BY <1>6, <2>2, <3>2 DEF Ordered
      <4> QED  BY <1>1, <1>5, <4>1
    <3> QED  BY <1>4, <3>1, <3>2
  <2> QED  BY <1>4, <2>1, <2>2
<1>7. ASSUME NEW x, Once(q, x), Once(a, x), ~(Holds(q, x) /\ Holds(a, x)),
             NEW j \in DOMAIN r, NEW k \in DOMAIN r, Label(r[j]) = x, Label(r[k]) = x
      PROVE  j = k
  <2>1. CASE k \in DOMAIN q /\ r[k] = q[k]
    <3>1. Holds(q, x)
      BY <1>7, <2>1 DEF Holds
    <3>2. ~(j - n \in DOMAIN a /\ r[j] = a[j - n])
      BY <1>7, <3>1 DEF Holds
    <3>3. j \in DOMAIN q /\ r[j] = q[j]
      BY <1>4, <3>2
    <3> QED  BY <1>7, <2>1, <3>3 DEF Once
  <2>2. CASE k - n \in DOMAIN a /\ r[k] = a[k - n]
    <3>1. Holds(a, x)
      BY <1>7, <2>2 DEF Holds
    <3>2. ~(j \in DOMAIN q /\ r[j] = q[j])
      BY <1>7, <3>1 DEF Holds
    <3>3. j - n \in DOMAIN a /\ r[j] = a[j - n]
      BY <1>4, <3>2
    <3>4. j - n = k - n
      BY <1>7, <2>2, <3>3 DEF Once
    <3> QED  BY <1>1, <1>5, <3>4
  <2> QED  BY <1>4, <2>1, <2>2
<1>8. q # <<>> => r # <<>> /\ Head(r) = Head(q)
  <2>1. r \in Seq(Range(r))
    BY <1>1 DEF IsSequence
  <2>2. SUFFICES ASSUME q # <<>> PROVE r # <<>> /\ Head(r) = Head(q)
    OBVIOUS
  <2>3. 1 \in DOMAIN r /\ r[1] = q[1]
    BY <1>0, <1>1, <2>2
  <2> QED  BY <1>0, <2>1, <2>2, <2>3
<1> QED  BY <1>6, <1>7, <1>8 DEF Ordered, Once

LEMMA JoinSettled ==
  ASSUME NEW q, IsSequence(q), NEW a, IsSequence(a), NEW r, r = q \o a, NEW i, NEW w
  PROVE  /\ Setter(a, i) /\ SettledOn(a, i, w) => SettledOn(r, i, w)
         /\ ~Setter(a, i) /\ SettledOn(q, i, w) => SettledOn(r, i, w)
<1> DEFINE n == Len(q)
<1>a. Joined(r, q, a)
  BY QJoins
<1>1. /\ IsSequence(r) /\ n \in Nat /\ Len(a) \in Nat
      /\ DOMAIN q = 1 .. n /\ DOMAIN a = 1 .. Len(a) /\ DOMAIN r = 1 .. n + Len(a)
      /\ \A k \in 1 .. n : r[k] = q[k]
      /\ \A k \in 1 .. Len(a) : r[n + k] = a[k]
      /\ \A k \in DOMAIN r : k \in DOMAIN q \/ k - n \in DOMAIN a
  BY <1>a DEF Joined
<1> HIDE DEF n
<1>2. \A k \in DOMAIN q : k \in DOMAIN r /\ r[k] = q[k]
  BY <1>1
<1>3. \A k \in DOMAIN a : n + k \in DOMAIN r /\ r[n + k] = a[k]
  BY <1>1
<1>4. ASSUME NEW k \in DOMAIN r
      PROVE  \/ k \in DOMAIN q /\ r[k] = q[k] /\ k <= n
             \/ k - n \in DOMAIN a /\ r[k] = a[k - n] /\ k > n
  <2>1. k \in Nat
    BY <1>1
  <2>2. CASE k \in DOMAIN q
    BY <1>1, <2>2
  <2>3. CASE k - n \in DOMAIN a
    <3>1. n + (k - n) = k
      BY <1>1, <2>1
    <3>2. r[k] = a[k - n]
      BY <1>1, <2>3, <3>1
    <3>3. k > n
      BY <1>1, <2>1, <2>3
    <3> QED  BY <2>3, <3>2, <3>3
  <2> QED  BY <1>1, <2>2, <2>3
<1>5. DOMAIN r \subseteq Nat /\ DOMAIN a \subseteq Nat /\ DOMAIN q \subseteq Nat
  BY <1>1
<1>6. ASSUME Setter(a, i), SettledOn(a, i, w), NEW k \in DOMAIN r, Sets(r[k], i)
      PROVE  Gives(r[k], i) = w \/ \E m \in DOMAIN r : k < m /\ Sets(r[m], i)
  <2>1. CASE k <= n
    <3>1. PICK j \in DOMAIN a : Sets(a[j], i)
      BY <1>6 DEF Setter
    <3>2. n + j \in DOMAIN r /\ Sets(r[n + j], i)
      BY <1>3, <3>1
    <3>3. k < n + j
      BY <1>1, <1>5, <2>1
    <3> QED  BY <3>2, <3>3
  <2>2. CASE k - n \in DOMAIN a /\ r[k] = a[k - n]
    <3>1. CASE Gives(a[k - n], i) = w
      BY <2>2, <3>1
    <3>2. CASE \E m \in DOMAIN a : k - n < m /\ Sets(a[m], i)
      <4>1. PICK m \in DOMAIN a : k - n < m /\ Sets(a[m], i)
        BY <3>2
      <4>2. n + m \in DOMAIN r /\ Sets(r[n + m], i)
        BY <1>3, <4>1
      <4>3. k < n + m
        BY <1>1, <1>5, <4>1
      <4> QED  BY <4>2, <4>3
    <3> QED  BY <1>6, <2>2, <3>1, <3>2 DEF SettledOn
  <2> QED  BY <1>4, <2>1, <2>2
<1>7. ASSUME ~Setter(a, i), SettledOn(q, i, w), NEW k \in DOMAIN r, Sets(r[k], i)
      PROVE  Gives(r[k], i) = w \/ \E m \in DOMAIN r : k < m /\ Sets(r[m], i)
  <2>1. k \in DOMAIN q /\ r[k] = q[k]
    BY <1>4, <1>7 DEF Setter
  <2> QED  BY <1>2, <1>7, <2>1 DEF SettledOn
<1> QED  BY <1>6, <1>7 DEF SettledOn

LEMMA TailHas ==
  ASSUME NEW q, IsSequence(q), q # <<>>, NEW r, r = Tail(q)
  PROVE  /\ IsSequence(r)
         /\ Range(r) \subseteq Range(q) /\ Head(q) \in Range(q)
         /\ Len(q) \in Nat /\ Len(r) = Len(q) - 1
         /\ DOMAIN q = 1 .. Len(q) /\ DOMAIN r = 1 .. Len(r)
         /\ Head(q) = q[1] /\ 1 \in DOMAIN q
         /\ \A k \in DOMAIN r : k \in Nat /\ k + 1 \in DOMAIN q /\ r[k] = q[k + 1]
         /\ \A k \in DOMAIN q : k = 1 \/ (k \in Nat /\ k - 1 \in DOMAIN r /\ q[k] = r[k - 1])
<1>1. q \in Seq(Range(q))
  BY DEF IsSequence
<1>2. /\ r \in Seq(Range(q)) /\ Len(q) \in Nat /\ Len(q) > 0 /\ Len(r) = Len(q) - 1
      /\ DOMAIN q = 1 .. Len(q) /\ DOMAIN r = 1 .. Len(r)
      /\ Head(q) = q[1] /\ \A k \in 1 .. Len(q) - 1 : r[k] = q[k + 1]
  BY <1>1
<1>3. IsSequence(r)
  BY <1>2, QueueOf
<1>4. \A k \in DOMAIN r : k \in Nat /\ k + 1 \in DOMAIN q /\ r[k] = q[k + 1]
  BY <1>2
<1>5. ASSUME NEW k \in DOMAIN q
      PROVE  k = 1 \/ (k \in Nat /\ k - 1 \in DOMAIN r /\ q[k] = r[k - 1])
  <2>1. k = 1 \/ (k \in Nat /\ k - 1 \in DOMAIN r /\ (k - 1) + 1 = k)
    BY <1>2
  <2> QED  BY <1>4, <2>1
<1>6. 1 \in DOMAIN q
  BY <1>2
<1>8. \A k \in DOMAIN q : k = 1 \/ (k \in Nat /\ k - 1 \in DOMAIN r /\ q[k] = r[k - 1])
  BY <1>5
<1>7. Range(r) \subseteq Range(q) /\ Head(q) \in Range(q)
  <2>1. Range(r) \subseteq Range(q)
    BY <1>4 DEF Range
  <2>2. q[1] \in Range(q)
    BY <1>6 DEF Range
  <2> QED  BY <1>2, <2>1, <2>2
<1> HIDE DEF IsSequence
<1> QED  BY <1>2, <1>3, <1>4, <1>6, <1>7, <1>8, Zenon

LEMMA TailOrder ==
  ASSUME NEW q, IsSequence(q), q # <<>>, NEW r, r = Tail(q)
  PROVE  /\ \A x : Holds(q, x) <=> Label(Head(q)) = x \/ Holds(r, x)
         /\ \A x, y : Ordered(q, x, y) =>
                        Ordered(r, x, y) /\ (Label(Head(q)) = y => ~Holds(q, x))
         /\ \A x : Once(q, x) => Once(r, x) /\ (Label(Head(q)) = x => ~Holds(r, x))
<1>1. /\ Head(q) = q[1] /\ 1 \in DOMAIN q
      /\ \A k \in DOMAIN r : k \in Nat /\ k + 1 \in DOMAIN q /\ r[k] = q[k + 1]
      /\ \A k \in DOMAIN q : k = 1 \/ (k \in Nat /\ k - 1 \in DOMAIN r /\ q[k] = r[k - 1])
      /\ DOMAIN q = 1 .. Len(q) /\ Len(q) \in Nat /\ DOMAIN r = 1 .. Len(r)
  BY TailHas
<1>2. ASSUME NEW x PROVE Holds(q, x) <=> Label(Head(q)) = x \/ Holds(r, x)
  <2>1. Label(Head(q)) = x \/ Holds(r, x) => Holds(q, x)
    BY <1>1 DEF Holds
  <2>2. \A k \in DOMAIN q : q[k] = Head(q) \/ \E j \in DOMAIN r : q[k] = r[j]
    BY <1>1
  <2>3. Holds(q, x) => Label(Head(q)) = x \/ Holds(r, x)
    BY <2>2 DEF Holds
  <2> QED  BY <2>1, <2>3
<1>3. ASSUME NEW x, NEW y, Ordered(q, x, y)
      PROVE  Ordered(r, x, y) /\ (Label(Head(q)) = y => ~Holds(q, x))
  <2>1. ASSUME NEW j \in DOMAIN r, NEW k \in DOMAIN r, Label(r[j]) = x, Label(r[k]) = y
        PROVE  j < k
    <3>1. j + 1 < k + 1
      BY <1>1, <1>3, <2>1 DEF Ordered
    <3> QED  BY <1>1, <3>1
  <2>2. ASSUME Label(Head(q)) = y, NEW k \in DOMAIN q, Label(q[k]) = x
        PROVE  FALSE
    <3>1. k < 1
      BY <1>1, <1>3, <2>2 DEF Ordered
    <3> QED  BY <1>1, <3>1
  <2> QED  BY <2>1, <2>2 DEF Ordered, Holds
<1>4. ASSUME NEW x, Once(q, x)
      PROVE  Once(r, x) /\ (Label(Head(q)) = x => ~Holds(r, x))
  <2>1. ASSUME NEW j \in DOMAIN r, NEW k \in DOMAIN r, Label(r[j]) = x, Label(r[k]) = x
        PROVE  j = k
    <3>1. j + 1 = k + 1
      BY <1>1, <1>4, <2>1 DEF Once
    <3> QED  BY <1>1, <3>1
  <2>2. ASSUME Label(Head(q)) = x, NEW k \in DOMAIN r, Label(r[k]) = x
        PROVE  FALSE
    <3>1. k + 1 = 1
      BY <1>1, <1>4, <2>2 DEF Once
    <3> QED  BY <1>1, <3>1
  <2> QED  BY <2>1, <2>2 DEF Once, Holds
<1> QED  BY <1>2, <1>3, <1>4

LEMMA TailSettled ==
  ASSUME NEW q, IsSequence(q), q # <<>>, NEW r, r = Tail(q), NEW i, NEW w
  PROVE  /\ Setter(q, i) <=> Sets(Head(q), i) \/ Setter(r, i)
         /\ SettledOn(q, i, w) => SettledOn(r, i, w)
         /\ SettledOn(q, i, w) /\ Sets(Head(q), i) /\ ~Setter(r, i) => Gives(Head(q), i) = w
<1>1. /\ Head(q) = q[1] /\ 1 \in DOMAIN q
      /\ \A k \in DOMAIN r : k \in Nat /\ k + 1 \in DOMAIN q /\ r[k] = q[k + 1]
      /\ \A k \in DOMAIN q : k = 1 \/ (k \in Nat /\ k - 1 \in DOMAIN r /\ q[k] = r[k - 1])
      /\ DOMAIN q = 1 .. Len(q) /\ Len(q) \in Nat /\ DOMAIN r = 1 .. Len(r)
  BY TailHas
<1>2. Setter(q, i) <=> Sets(Head(q), i) \/ Setter(r, i)
  BY <1>1 DEF Setter
<1>3. ASSUME SettledOn(q, i, w), NEW k \in DOMAIN r, Sets(r[k], i)
      PROVE  Gives(r[k], i) = w \/ \E m \in DOMAIN r : k < m /\ Sets(r[m], i)
  <2>1. CASE Gives(q[k + 1], i) = w
    BY <1>1, <2>1
  <2>2. CASE \E m \in DOMAIN q : k + 1 < m /\ Sets(q[m], i)
    <3>1. PICK m \in DOMAIN q : k + 1 < m /\ Sets(q[m], i)
      BY <2>2
    <3>2. m # 1
      BY <1>1, <3>1
    <3>3. m - 1 \in DOMAIN r /\ Sets(r[m - 1], i)
      BY <1>1, <3>1, <3>2
    <3>4. k < m - 1
      BY <1>1, <3>1
    <3> QED  BY <3>3, <3>4
  <2> QED  BY <1>1, <1>3, <2>1, <2>2 DEF SettledOn
<1>4. ASSUME SettledOn(q, i, w), Sets(Head(q), i)
      PROVE  Gives(Head(q), i) = w \/ Setter(r, i)
  <2>1. CASE \E m \in DOMAIN q : 1 < m /\ Sets(q[m], i)
    <3>1. PICK m \in DOMAIN q : 1 < m /\ Sets(q[m], i)
      BY <2>1
    <3>2. m - 1 \in DOMAIN r /\ Sets(r[m - 1], i)
      BY <1>1, <3>1
    <3> QED  BY <3>2 DEF Setter
  <2> QED  BY <1>1, <1>4, <2>1 DEF SettledOn
<1> QED  BY <1>2, <1>3, <1>4 DEF SettledOn

LEMMA OneJob ==
  ASSUME NEW t
  PROVE  /\ IsSequence(<<t>>) /\ <<t>> # <<>> /\ Head(<<t>>) = t
         /\ Range(<<t>>) = {t}
         /\ \A x : Holds(<<t>>, x) <=> Label(t) = x
         /\ \A x, y : Ordered(<<t>>, x, y) <=> ~(Label(t) = x /\ Label(t) = y)
         /\ \A x : Once(<<t>>, x)
         /\ \A i : Setter(<<t>>, i) <=> Sets(t, i)
         /\ \A i, w : SettledOn(<<t>>, i, w) <=> (Sets(t, i) => Gives(t, i) = w)
<1> DEFINE q == <<t>>
<1>1. q \in Seq({t}) /\ DOMAIN q = {1} /\ q[1] = t /\ q # <<>> /\ Head(q) = t
  OBVIOUS
<1> HIDE DEF q
<1>2. IsSequence(q) /\ Range(q) = {t}
  BY <1>1, QueueOf DEF Range
<1>3. \A x : Holds(q, x) <=> Label(t) = x
  BY <1>1 DEF Holds
<1>4. \A x, y : Ordered(q, x, y) <=> ~(Label(t) = x /\ Label(t) = y)
  BY <1>1 DEF Ordered
<1>5. \A x : Once(q, x)
  BY <1>1 DEF Once
<1>6. \A i : Setter(q, i) <=> Sets(t, i)
  BY <1>1 DEF Setter
<1>7. \A i, w : SettledOn(q, i, w) <=> (Sets(t, i) => Gives(t, i) = w)
  BY <1>1 DEF SettledOn
<1> QED  BY <1>1, <1>2, <1>3, <1>4, <1>5, <1>6, <1>7 DEF q

\* The queue r is q with a behind it; r is q without its head.
Pushed(r, q, a) ==
  /\ IsSequence(r) /\ Range(r) = Range(q) \cup Range(a)
  /\ \A x : Holds(r, x) <=> Holds(q, x) \/ Holds(a, x)
  /\ \A x, y : Ordered(q, x, y) /\ ~Holds(a, x) => Ordered(r, x, y)
  /\ \A x, y : Ordered(a, x, y) /\ ~Holds(q, y) => Ordered(r, x, y)
  /\ \A x : Once(q, x) /\ ~Holds(a, x) => Once(r, x)
  /\ \A x : Once(a, x) /\ ~Holds(q, x) => Once(r, x)
  /\ \A x : Leads(q, x) /\ ~Holds(a, x) => Leads(r, x)
  /\ \A i, w : Setter(a, i) /\ SettledOn(a, i, w) => SettledOn(r, i, w) /\ Setter(r, i)
  /\ \A i, w : ~Setter(a, i) /\ SettledOn(q, i, w) => SettledOn(r, i, w)
  /\ \A i : Setter(r, i) <=> Setter(q, i) \/ Setter(a, i)
Popped(r, q) ==
  /\ IsSequence(r) /\ Range(r) \subseteq Range(q) /\ Head(q) \in Range(q)
  /\ \A x : Holds(q, x) <=> Label(Head(q)) = x \/ Holds(r, x)
  /\ \A x, y : Ordered(q, x, y) => Ordered(r, x, y)
  /\ \A x, y : Ordered(q, x, y) /\ Label(Head(q)) = y => ~Holds(q, x)
  /\ \A x : Once(q, x) => Once(r, x)
  /\ \A x : Once(q, x) /\ Label(Head(q)) = x => ~Holds(r, x)
  /\ \A x : Leads(q, x) => ~Holds(r, x)

LEMMA NoneOrdered ==
  ASSUME NEW q, NEW x, ~Holds(q, x)
  PROVE  /\ Once(q, x)
         /\ \A y : Ordered(q, x, y) /\ Ordered(q, y, x)
         /\ Leads(q, x)
BY DEF Holds, Once, Ordered, Leads

LEMMA Pushes ==
  ASSUME NEW q, IsSequence(q), NEW a, IsSequence(a), NEW r, r = q \o a
  PROVE  Pushed(r, q, a)
<1>1. /\ IsSequence(r)
      /\ Range(r) = Range(q) \cup Range(a)
      /\ \A x : Holds(r, x) <=> Holds(q, x) \/ Holds(a, x)
      /\ \A i : Setter(r, i) <=> Setter(q, i) \/ Setter(a, i)
  BY JoinHas
<1>2. /\ \A x, y : Ordered(q, x, y) /\ Ordered(a, x, y) /\ ~(Holds(q, y) /\ Holds(a, x))
                        => Ordered(r, x, y)
      /\ \A x : Once(q, x) /\ Once(a, x) /\ ~(Holds(q, x) /\ Holds(a, x)) => Once(r, x)
      /\ q # <<>> => r # <<>> /\ Head(r) = Head(q)
  BY JoinOrder
<1>3. \A i, w : /\ Setter(a, i) /\ SettledOn(a, i, w) => SettledOn(r, i, w)
                /\ ~Setter(a, i) /\ SettledOn(q, i, w) => SettledOn(r, i, w)
  BY JoinSettled
<1>4. ASSUME NEW x, Leads(q, x), ~Holds(a, x) PROVE Leads(r, x)
  <2>1. SUFFICES ASSUME Holds(r, x) PROVE Label(Head(r)) = x /\ Once(r, x)
    BY DEF Leads
  <2>2. Holds(q, x)
    BY <1>1, <1>4, <2>1
  <2>3. q # <<>>
    <3>1. PICK k \in DOMAIN q : TRUE
      BY <2>2 DEF Holds
    <3>2. q \in Seq(Range(q))
      BY DEF IsSequence
    <3> QED  BY <3>1, <3>2
  <2> QED  BY <1>2, <1>4, <2>2, <2>3, NoneOrdered DEF Leads
<1>5. \A x, y : Ordered(q, x, y) /\ ~Holds(a, x) => Ordered(r, x, y)
  BY <1>2, NoneOrdered
<1>6. \A x, y : Ordered(a, x, y) /\ ~Holds(q, y) => Ordered(r, x, y)
  BY <1>2, NoneOrdered
<1>7. \A x : Once(q, x) /\ ~Holds(a, x) => Once(r, x)
  BY <1>2, NoneOrdered
<1>8. \A x : Once(a, x) /\ ~Holds(q, x) => Once(r, x)
  BY <1>2, NoneOrdered
<1> QED  BY <1>1, <1>3, <1>4, <1>5, <1>6, <1>7, <1>8 DEF Pushed

LEMMA Appends ==
  ASSUME NEW q, IsSequence(q), NEW t, NEW r, r = Append(q, t)
  PROVE  Pushed(r, q, <<t>>)
<1> DEFINE S == Range(q) \cup {t}
<1>1. q \in Seq(S) /\ t \in S
  BY SeqMonotonic DEF IsSequence
<1> HIDE DEF S
<1>2. r = q \o <<t>>
  BY <1>1
<1> QED  BY <1>2, Pushes, OneJob

LEMMA Pops ==
  ASSUME NEW q, IsSequence(q), q # <<>>, NEW r, r = Tail(q)
  PROVE  Popped(r, q)
<1>1. IsSequence(r) /\ Range(r) \subseteq Range(q) /\ Head(q) \in Range(q)
  BY TailHas
<1>2. /\ \A x : Holds(q, x) <=> Label(Head(q)) = x \/ Holds(r, x)
      /\ \A x, y : Ordered(q, x, y) =>
                     Ordered(r, x, y) /\ (Label(Head(q)) = y => ~Holds(q, x))
      /\ \A x : Once(q, x) => Once(r, x) /\ (Label(Head(q)) = x => ~Holds(r, x))
  BY TailOrder
<1>3. ASSUME NEW x, Leads(q, x) PROVE ~Holds(r, x)
  BY <1>2, <1>3 DEF Leads
<1> QED  BY <1>1, <1>2, <1>3 DEF Popped

LEMMA HeldAsk ==
  ASSUME NEW q, NEW a, NEW r, Pushed(r, q, a), NEW i, NEW w, NEW mem,
         HeldIn(q, mem, i, w), ~Setter(a, i)
  PROVE  HeldIn(r, mem, i, w)
BY DEF Pushed, HeldIn

LEMMA HeldSet ==
  ASSUME NEW q, NEW a, NEW r, Pushed(r, q, a), NEW i, NEW w, NEW mem,
         SettledOn(a, i, w), Setter(a, i)
  PROVE  HeldIn(r, mem, i, w)
BY DEF Pushed, HeldIn

LEMMA HeldTail ==
  ASSUME NEW q, IsSequence(q), q # <<>>, NEW r, r = Tail(q), NEW i, NEW w, NEW mem, NEW new,
         HeldIn(q, mem, i, w),
         IF Sets(Head(q), i) THEN new \in {Refused, Gives(Head(q), i)} ELSE new = mem
  PROVE  HeldIn(r, new, i, w)
<1>1. Setter(q, i) <=> Sets(Head(q), i) \/ Setter(r, i)
  BY TailSettled
<1>2. /\ SettledOn(q, i, w) => SettledOn(r, i, w)
      /\ SettledOn(q, i, w) /\ Sets(Head(q), i) /\ ~Setter(r, i) => Gives(Head(q), i) = w
  BY TailSettled
<1> QED  BY <1>1, <1>2 DEF HeldIn

LEMMA TwoJobs ==
  ASSUME NEW s, NEW t, NEW a, a = <<s, t>>
  PROVE  /\ Pushed(a, <<s>>, <<t>>)
         /\ IsSequence(a) /\ Range(a) = {s, t}
         /\ \A x : Holds(a, x) <=> Label(s) = x \/ Label(t) = x
         /\ \A i : Setter(a, i) <=> Sets(s, i) \/ Sets(t, i)
         /\ \A i, w : (Sets(t, i) => Gives(t, i) = w)
                      /\ (Sets(s, i) /\ ~Sets(t, i) => Gives(s, i) = w) => SettledOn(a, i, w)
<1>1. a = <<s>> \o <<t>>
  <2> DEFINE S == {s, t}
  <2>1. <<s>> \in Seq(S) /\ <<t>> \in Seq(S) /\ a \in Seq(S)
    OBVIOUS
  <2>2. Len(<<s>>) = 1 /\ Len(<<t>>) = 1 /\ Len(a) = 2
    OBVIOUS
  <2>3. <<s>> \o <<t>> \in Seq(S) /\ Len(<<s>> \o <<t>>) = 2
    BY <2>1, <2>2, ConcatProperties
  <2>4. \A k \in 1 .. 2 : (<<s>> \o <<t>>)[k] = a[k]
    BY <2>1
  <2> QED  BY <2>1, <2>2, <2>3, <2>4, SeqEqual
<1>2. Pushed(a, <<s>>, <<t>>)
  BY <1>1, Pushes, OneJob
<1>3. \A i, w : (Sets(t, i) => Gives(t, i) = w)
                      /\ (Sets(s, i) /\ ~Sets(t, i) => Gives(s, i) = w) => SettledOn(a, i, w)
  BY <1>2, OneJob DEF Pushed
<1>4. IsSequence(a) /\ Range(a) = Range(<<s>>) \cup Range(<<t>>)
  BY <1>2 DEF Pushed
<1>5. Range(<<s>>) = {s} /\ Range(<<t>>) = {t}
  BY OneJob
<1>6. Range(a) = {s, t}
  BY <1>4, <1>5
<1>7. \A x : Holds(a, x) <=> Label(s) = x \/ Label(t) = x
  BY <1>2, OneJob DEF Pushed
<1>8. \A i : Setter(a, i) <=> Sets(s, i) \/ Sets(t, i)
  BY <1>2, OneJob DEF Pushed
<1> QED  BY <1>2, <1>3, <1>4, <1>6, <1>7, <1>8

LEMMA NoJobs ==
  /\ IsSequence(<<>>) /\ Range(<<>>) = {}
  /\ \A x : ~Holds(<<>>, x)
  /\ \A i : ~Setter(<<>>, i)
<1>1. <<>> \in Seq({}) /\ DOMAIN <<>> = {}
  OBVIOUS
<1> QED  BY <1>1, QueueOf DEF Range, Holds, Setter

LEMMA CallSets ==
  ASSUME NEW i, NEW v, NEW b, NEW j, j = ModemCall(i, v, b)
  PROVE  /\ j.kind = "call" /\ j.item = i /\ j.v = v
         /\ Label(j) = IF i = "tunc" THEN "tuncCall" ELSE "call"
         /\ \A k : Sets(j, k) <=> k = i
         /\ \A k : Gives(j, k) = v
BY DEF ModemCall, Label, Sets, Gives
ConfigurationAssumption ==
  /\ ConfValues # {}
  /\ FlagSets \subseteq SUBSET {"lock", "supl", "server", "es", "ids", "elevation"}
  /\ MaxReopens \in Nat

JobsOK(a) == \A j \in Range(a) : JobOK(j)

LEMMA InitialValue ==
  ASSUME ConfigurationAssumption
  PROVE  Initially \in ConfValues
BY DEF ConfigurationAssumption, Initially

\* The jobs in a give the modem w of i.
Supplies(a, i, w) == Setter(a, i) /\ SettledOn(a, i, w)

\* What is asked of the modem that came back.
UpAsks(a) ==
  /\ JobsOK(a)
  /\ \A x : Holds(a, x) <=> x \in {"inject", "call"}
  /\ \A j \in Range(a) : Label(j) = "inject" => j.ids = svIds
  /\ Supplies(a, "lock", ModemLock)
  /\ Supplies(a, "ids", IdsMerged(svIds, svTypes))
  /\ Inject => Supplies(a, "supl", conf.supl)
  /\ Inject => Supplies(a, "server", conf.server)
  /\ IF EnabledIn(svTypes) = {} THEN ~Setter(a, "types")
     ELSE Supplies(a, "types", TypesSent(svTypes))

\* The job j calls for the value v of i.
CallsFor(j, i, v) ==
  /\ JobOK(j)
  /\ Label(j) = IF i = "tunc" THEN "tuncCall" ELSE "call"
  /\ \A k : Sets(j, k) <=> k = i
  /\ \A k : Gives(j, k) = v

LEMMA CallOK ==
  ASSUME NEW i \in ModemItems, NEW v \in SettingsOf(i), NEW b, NEW j, j = ModemCall(i, v, b)
  PROVE  CallsFor(j, i, v)
BY CallSets DEF JobOK, ModemCall, CallsFor

LEMMA LocksFit ==
  /\ \A l \in Locks : l \in SettingsOf("lock")
  /\ \A i \in ModemItems : /\ Default \in SettingsOf(i) /\ Refused \in SettingsOf(i)
                           /\ i \notin {"lock", "ids", "types"} =>
                                ConfValues \subseteq SettingsOf(i)
  /\ {"ids", "types", "tunc", "lock", "supl", "server", "elevation"} = ModemItems
<1>1. /\ \A l \in Locks : l \in SettingsOf("lock")
      /\ \A i : Default \in SettingsOf(i) /\ Refused \in SettingsOf(i)
      /\ \A i : i \notin {"lock", "ids", "types"} => ConfValues \subseteq SettingsOf(i)
  BY DEF SettingsOf
<1> QED  BY <1>1 DEF ModemItems

LEMMA SvTypesFit ==
  /\ \A v \in ConfValues : IdsAlone(v) \in SettingsOf("ids")
  /\ \A v \in ConfValues, t \in SvType \cup {Default} : IdsMerged(v, t) \in SettingsOf("ids")
  /\ \A t \in SvType \cup {Default} : TypesSent(t) \in SettingsOf("types")
  /\ SvType \subseteq SettingsOf("types") /\ NoTypes \in SvType
  /\ \A v : IdsMerged(v, Default) = IdsAlone(v) /\ IdsMerged(v, NoTypes) = IdsAlone(v)
  /\ EnabledIn(Default) = {} /\ EnabledIn(NoTypes) = {}
  /\ \A t : EnabledIn(t) = {} => TypesSent(t) = Default
<1>1. SettingsOf("ids") = {Default, Refused} \cup [ids : ConfValues, off : SUBSET Constellations]
  BY DEF SettingsOf
<1>2. SettingsOf("types") = {Default, Refused} \cup SvType
  BY DEF SettingsOf
<1>3. ASSUME NEW t \in SvType \cup {Default}
      PROVE  EnabledIn(t) \in SUBSET Constellations /\ DisabledIn(t) \in SUBSET Constellations
  BY DEF EnabledIn, DisabledIn, SvType
<1>4. \A v \in ConfValues : IdsAlone(v) \in SettingsOf("ids")
  BY <1>1 DEF IdsAlone
<1>5. \A v \in ConfValues, t \in SvType \cup {Default} : IdsMerged(v, t) \in SettingsOf("ids")
  BY <1>1, <1>3 DEF IdsMerged
<1>6. ASSUME NEW t \in SvType \cup {Default} PROVE TypesSent(t) \in SettingsOf("types")
  BY <1>2, <1>3 DEF TypesSent, SvType
<1>7. EnabledIn(Default) = {} /\ EnabledIn(NoTypes) = {} /\ DisabledIn(Default) = {} /\ DisabledIn(NoTypes) = {}
  BY DEF EnabledIn, DisabledIn, NoTypes
<1>8. \A v : IdsMerged(v, Default) = IdsAlone(v) /\ IdsMerged(v, NoTypes) = IdsAlone(v)
  BY <1>7 DEF IdsMerged, IdsAlone
<1>9. \A t : EnabledIn(t) = {} => TypesSent(t) = Default
  BY DEF TypesSent
<1>10. SvType \subseteq SettingsOf("types") /\ NoTypes \in SvType
  BY <1>2 DEF NoTypes, SvType
<1> QED  BY <1>4, <1>5, <1>6, <1>7, <1>8, <1>9, <1>10

\* Calls that only concern satellites and constellations.
CallsOnly(a) ==
  /\ IsSequence(a) /\ JobsOK(a)
  /\ \A x : Holds(a, x) => x = "call"
  /\ \A i : Setter(a, i) => i \in {"ids", "types"}

LEMMA NoCalls == CallsOnly(<<>>) /\ \A i : ~Setter(<<>>, i)
BY NoJobs DEF CallsOnly, JobsOK

LEMMA OneCall ==
  ASSUME NEW i \in {"ids", "types"}, NEW v \in SettingsOf(i), NEW b, NEW a,
         a = <<ModemCall(i, v, b)>>
  PROVE  CallsOnly(a) /\ (\A k : Setter(a, k) <=> k = i) /\ Supplies(a, i, v)
<1> DEFINE j == ModemCall(i, v, b)
<1>1. CallsFor(j, i, v)
  BY CallOK DEF ModemItems
<1>2. a = <<j>>
  OBVIOUS
<1> HIDE DEF j
<1>3. /\ IsSequence(<<j>>) /\ Range(<<j>>) = {j}
      /\ \A x : Holds(<<j>>, x) <=> Label(j) = x
      /\ \A k : Setter(<<j>>, k) <=> Sets(j, k)
      /\ SettledOn(<<j>>, i, v) <=> (Sets(j, i) => Gives(j, i) = v)
  BY OneJob
<1>4. i # "tunc"
  OBVIOUS
<1> QED  BY <1>1, <1>2, <1>3, <1>4 DEF CallsOnly, CallsFor, JobsOK, Supplies

LEMMA CallsJoin ==
  ASSUME NEW p, CallsOnly(p), NEW q, CallsOnly(q), NEW r, r = p \o q
  PROVE  /\ CallsOnly(r)
         /\ \A i : Setter(r, i) <=> Setter(p, i) \/ Setter(q, i)
         /\ \A i, w : Supplies(q, i, w) => Supplies(r, i, w)
         /\ \A i, w : ~Setter(q, i) /\ Supplies(p, i, w) => Supplies(r, i, w)
<1>1. IsSequence(p) /\ IsSequence(q)
  BY DEF CallsOnly
<1>2. Pushed(r, p, q)
  BY <1>1, Pushes
<1>3. CallsOnly(r)
  BY <1>2 DEF CallsOnly, Pushed, JobsOK
<1> QED  BY <1>2, <1>3 DEF Pushed, Supplies

\* What gnssSvTypeConfigUpdate asks for a config that has a size.
LEMMA SvCalls ==
  ASSUME ConfigTyped, NEW t \in SvType, t # Default, NEW reset \in BOOLEAN,
         NEW a, a = SvTypeCalls(t, reset)
  PROVE  /\ CallsOnly(a) /\ Supplies(a, "ids", IdsMerged(svIds, t))
         /\ EnabledIn(t) # {} => Supplies(a, "types", TypesSent(t))
         /\ EnabledIn(t) = {} /\ reset => Supplies(a, "types", Default)
         /\ EnabledIn(t) = {} /\ ~reset => ~Setter(a, "types")
<1> DEFINE p == IF reset THEN ResetTypes ELSE <<>>
           m == <<ModemCall("ids", IdsMerged(svIds, t), FALSE)>>
           e == IF EnabledIn(t) # {} THEN <<ModemCall("types", TypesSent(t), FALSE)>> ELSE <<>>
<1>1. a = (p \o m) \o e
  BY DEF SvTypeCalls
<1>2. /\ CallsOnly(p) /\ (\A k : Setter(p, k) <=> reset /\ k = "types")
      /\ reset => Supplies(p, "types", Default)
  <2>1. CASE reset
    <3>1. p = <<ModemCall("types", Default, FALSE)>>
      BY <2>1 DEF ResetTypes
    <3>2. Default \in SettingsOf("types")
      BY LocksFit
    <3> HIDE DEF p
    <3> QED  BY <2>1, <3>1, <3>2, OneCall
  <2>2. CASE ~reset
    BY <2>2, NoCalls
  <2> QED  BY <2>1, <2>2
<1>3. /\ CallsOnly(m) /\ (\A k : Setter(m, k) <=> k = "ids")
      /\ Supplies(m, "ids", IdsMerged(svIds, t))
  <2>1. IdsMerged(svIds, t) \in SettingsOf("ids")
    BY SvTypesFit DEF ConfigTyped
  <2>2. m = <<ModemCall("ids", IdsMerged(svIds, t), FALSE)>>
    OBVIOUS
  <2> HIDE DEF m
  <2> QED  BY <2>1, <2>2, OneCall
<1>4. /\ CallsOnly(e) /\ (\A k : Setter(e, k) <=> EnabledIn(t) # {} /\ k = "types")
      /\ EnabledIn(t) # {} => Supplies(e, "types", TypesSent(t))
  <2>1. CASE EnabledIn(t) # {}
    <3>1. TypesSent(t) \in SettingsOf("types")
      BY SvTypesFit
    <3>2. e = <<ModemCall("types", TypesSent(t), FALSE)>>
      BY <2>1
    <3> HIDE DEF e
    <3> QED  BY <2>1, <3>1, <3>2, OneCall
  <2>2. CASE EnabledIn(t) = {}
    BY <2>2, NoCalls
  <2> QED  BY <2>1, <2>2
<1> HIDE DEF p, m, e
<1> DEFINE pm == p \o m
<1>5. /\ CallsOnly(pm) /\ Supplies(pm, "ids", IdsMerged(svIds, t))
      /\ \A i : Setter(pm, i) <=> Setter(p, i) \/ Setter(m, i)
      /\ reset => Supplies(pm, "types", Default)
  BY <1>2, <1>3, CallsJoin
<1> HIDE DEF pm
<1>6. /\ CallsOnly(a)
      /\ \A i : Setter(a, i) <=> Setter(pm, i) \/ Setter(e, i)
      /\ \A i, w : Supplies(e, i, w) => Supplies(a, i, w)
      /\ \A i, w : ~Setter(e, i) /\ Supplies(pm, i, w) => Supplies(a, i, w)
  BY <1>1, <1>4, <1>5, CallsJoin DEF pm
<1> QED  BY <1>2, <1>3, <1>4, <1>5, <1>6

LEMMA ModemLockFits ==
  ASSUME ConfigTyped
  PROVE  ModemLock \in Locks /\ conf.lock \in Locks
BY DEF ConfigTyped, ModemLock, Locks

LEMMA UpAsked ==
  ASSUME BaseInv, HandleUp
  PROVE  \E a : IsSequence(a) /\ UpAsks(a) /\ locApiQ' = locApiQ \o a
<1> DEFINE n == [kind |-> "inject", flags |-> {"lock", "supl", "server", "ids"},
                 lock |-> ModemLock, supl |-> conf.supl, server |-> conf.server,
                 ids |-> svIds]
           c == ModemCall("ids", IdsAlone(svIds), FALSE)
           b == SvTypeCalls(svTypes, FALSE)
           d == <<n, c>>
           a == d \o b
<1>0. ConfigTyped
  BY DEF BaseInv
<1>1. locApiQ' = locApiQ \o a
  BY DEF HandleUp, Ask
<1>2. /\ Label(n) = "inject" /\ JobOK(n)
      /\ \A i : Sets(n, i) <=> i \in Passed(Restored)
      /\ Gives(n, "lock") = ModemLock /\ Gives(n, "supl") = conf.supl
      /\ Gives(n, "server") = conf.server /\ n.ids = svIds
  <2>1. ModemLock \in Locks
    BY ModemLockFits DEF BaseInv
  <2>2. {conf.supl, conf.server, svIds} \subseteq ConfValues
    BY DEF BaseInv, ConfigTyped
  <2>3. JobOK(n)
    BY <2>1, <2>2 DEF JobOK, Restored
  <2>4. \A i : Sets(n, i) <=> i \in Passed(Restored)
    BY DEF Sets
  <2> QED  BY <2>3, <2>4 DEF Label, Gives
<1>3. /\ Label(c) = "call" /\ JobOK(c) /\ (\A i : Sets(c, i) <=> i = "ids")
      /\ \A i : Gives(c, i) = IdsAlone(svIds)
  <2>1. "ids" \in ModemItems /\ IdsAlone(svIds) \in SettingsOf("ids")
    BY <1>0, SvTypesFit DEF ConfigTyped, ModemItems
  <2>2. c = ModemCall("ids", IdsAlone(svIds), FALSE)
    OBVIOUS
  <2> HIDE DEF n, c
  <2>3. CallsFor(c, "ids", IdsAlone(svIds))
    BY <2>1, <2>2, CallOK
  <2> QED  BY ONLY <2>3 DEF CallsFor
<1>4. /\ CallsOnly(b)
      /\ Setter(b, "ids") => Supplies(b, "ids", IdsMerged(svIds, svTypes))
      /\ ~Setter(b, "ids") => IdsMerged(svIds, svTypes) = IdsAlone(svIds)
      /\ IF EnabledIn(svTypes) = {} THEN ~Setter(b, "types")
         ELSE Supplies(b, "types", TypesSent(svTypes))
  <2>1. CASE svTypes = Default
    <3>1. b = <<>>
      BY <2>1 DEF SvTypeCalls
    <3> HIDE DEF b
    <3>2. EnabledIn(svTypes) = {} /\ IdsMerged(svIds, svTypes) = IdsAlone(svIds)
      BY <2>1, SvTypesFit
    <3> QED  BY <3>1, <3>2, NoCalls
  <2>2. CASE svTypes # Default
    <3>1. svTypes \in SvType
      BY <1>0, <2>2 DEF ConfigTyped
    <3>2. b = SvTypeCalls(svTypes, FALSE)
      OBVIOUS
    <3> HIDE DEF b
    <3>3. /\ CallsOnly(b) /\ Supplies(b, "ids", IdsMerged(svIds, svTypes))
          /\ EnabledIn(svTypes) # {} => Supplies(b, "types", TypesSent(svTypes))
          /\ EnabledIn(svTypes) = {} => ~Setter(b, "types")
      BY <1>0, <2>2, <3>1, <3>2, SvCalls
    <3> QED  BY <3>3 DEF Supplies
  <2> QED  BY <2>1, <2>2
<1> HIDE DEF n, c, b
<1>5. /\ IsSequence(d) /\ Range(d) = {n, c}
      /\ \A x : Holds(d, x) <=> Label(n) = x \/ Label(c) = x
      /\ \A i : Setter(d, i) <=> Sets(n, i) \/ Sets(c, i)
      /\ \A i, w : (Sets(c, i) => Gives(c, i) = w)
                   /\ (Sets(n, i) /\ ~Sets(c, i) => Gives(n, i) = w) => SettledOn(d, i, w)
  BY TwoJobs
<1>6. /\ IsSequence(b) /\ JobsOK(b)
      /\ \A x : Holds(b, x) => x = "call"
      /\ \A i : Setter(b, i) => i \in {"ids", "types"}
  BY <1>4 DEF CallsOnly
<1> HIDE DEF d
<1>7. Pushed(a, d, b)
  BY <1>5, <1>6, Pushes
<1> HIDE DEF a
<1>8. IsSequence(a) /\ Range(a) = {n, c} \cup Range(b)
  BY <1>5, <1>7 DEF Pushed
<1>9. JobsOK(a) /\ \A j \in Range(a) : Label(j) = "inject" => j.ids = svIds
  <2>1. \A j \in Range(b) : JobOK(j) /\ Label(j) # "inject"
    BY <1>6 DEF JobsOK, Holds, Range
  <2> QED  BY <1>2, <1>3, <1>8, <2>1 DEF JobsOK
<1>10. \A x : Holds(a, x) <=> x \in {"inject", "call"}
  BY <1>2, <1>3, <1>5, <1>6, <1>7 DEF Pushed
<1>11. /\ {"lock", "ids"} \subseteq Passed(Restored)
       /\ Inject => {"supl", "server"} \subseteq Passed(Restored)
       /\ "types" \notin Passed(Restored)
  BY DEF Passed, Restored
<1>12. /\ Supplies(a, "lock", ModemLock)
       /\ Inject => Supplies(a, "supl", conf.supl)
       /\ Inject => Supplies(a, "server", conf.server)
  <2>1. /\ Setter(d, "lock") /\ SettledOn(d, "lock", ModemLock)
        /\ Inject => Setter(d, "supl") /\ SettledOn(d, "supl", conf.supl)
        /\ Inject => Setter(d, "server") /\ SettledOn(d, "server", conf.server)
    BY <1>2, <1>3, <1>5, <1>11
  <2>2. ~Setter(b, "lock") /\ ~Setter(b, "supl") /\ ~Setter(b, "server")
    BY <1>6
  <2> QED  BY <1>7, <2>1, <2>2 DEF Pushed, Supplies
<1>13. Supplies(a, "ids", IdsMerged(svIds, svTypes))
  <2>1. Setter(d, "ids") /\ SettledOn(d, "ids", IdsAlone(svIds))
    BY <1>3, <1>5
  <2> QED  BY <1>4, <1>7, <2>1 DEF Pushed, Supplies
<1>14. IF EnabledIn(svTypes) = {} THEN ~Setter(a, "types")
       ELSE Supplies(a, "types", TypesSent(svTypes))
  <2>1. ~Setter(d, "types")
    BY <1>2, <1>3, <1>5, <1>11
  <2> QED  BY <1>4, <1>7, <2>1 DEF Pushed, Supplies
<1>15. UpAsks(a)
  BY <1>9, <1>10, <1>12, <1>13, <1>14 DEF UpAsks, Supplies
<1> QED  BY <1>1, <1>8, <1>15

\* What the other messages of the adapter ask.
Asks(a) ==
  /\ IsSequence(a) /\ JobsOK(a)
  /\ \A x : Holds(a, x) => x \in {"ids", "config", "call", "tuncCall"}

LEMMA NothingAsked ==
  ASSUME IsSequence(locApiQ), UNCHANGED locApiQ
  PROVE  Asks(<<>>) /\ locApiQ' = locApiQ \o <<>>
<1>1. locApiQ' = locApiQ \o <<>>
  <2>1. locApiQ \in Seq(Range(locApiQ))
    BY DEF IsSequence
  <2> QED  BY <2>1, ConcatEmptySeq
<1> QED  BY <1>1, NoJobs DEF Asks, JobsOK

LEMMA OneIs ==
  ASSUME NEW t, NEW a, a = <<t>>
  PROVE  /\ IsSequence(a) /\ Range(a) = {t}
         /\ \A x : Holds(a, x) <=> Label(t) = x
         /\ \A i : Setter(a, i) <=> Sets(t, i)
         /\ \A i, w : SettledOn(a, i, w) <=> (Sets(t, i) => Gives(t, i) = w)
BY OneJob

LEMMA OneAsked ==
  ASSUME NEW i, NEW v, NEW j, CallsFor(j, i, v), NEW a, a = <<j>>
  PROVE  /\ Asks(a)
         /\ \A x : Holds(a, x) <=> x = IF i = "tunc" THEN "tuncCall" ELSE "call"
         /\ \A k : Setter(a, k) <=> k = i
         /\ Supplies(a, i, v)
<1>1. /\ IsSequence(a) /\ Range(a) = {j}
      /\ \A x : Holds(a, x) <=> Label(j) = x
      /\ \A k : Setter(a, k) <=> Sets(j, k)
      /\ \A k, w : SettledOn(a, k, w) <=> (Sets(j, k) => Gives(j, k) = w)
  BY OneIs
<1> QED  BY <1>1 DEF Asks, JobsOK, Supplies, CallsFor

LEMMA RequestOK ==
  ASSUME QueuesOK, adapterQ # <<>>
  PROVE  MessageOK(Request)
<1>1. Head(adapterQ) \in Range(adapterQ)
  BY TailHas DEF QueuesOK
<1> QED  BY <1>1 DEF QueuesOK, Request

\* The command that sets items: the modem gets those that are passed on.
ConfigAsks(a) ==
  /\ Asks(a) /\ locApiQ' = locApiQ \o a
  /\ \A x : Holds(a, x) <=> x = IF "ids" \in Request.flags THEN "ids" ELSE "config"
  /\ ~Setter(a, "types") /\ ~Setter(a, "tunc")
  /\ IF Setter(a, "lock") THEN SettledOn(a, "lock", ModemLock') ELSE ModemLock' = ModemLock
  /\ Inject => \A i \in {"supl", "server"} :
                 IF Setter(a, i) THEN SettledOn(a, i, conf'[i]) ELSE conf'[i] = conf[i]
  /\ IF "ids" \in Request.flags
     THEN /\ Supplies(a, "ids", IdsAlone(Request.v))
          /\ \A j \in Range(a) : j.v = Request.v /\ Label(j) = "ids"
     ELSE /\ ~Setter(a, "ids")
          /\ \A j \in Range(a) : Label(j) = "config"
  /\ Once(a, "ids")

LEMMA ConfigConf ==
  ASSUME ConfigurationAssumption, ConfigTyped, MessageOK(Request), HandleConfig
  PROVE  /\ Request.flags \in FlagSets /\ Request.v \in ConfValues
         /\ Request.flags \subseteq {"lock", "supl", "server", "es", "ids", "elevation"}
         /\ conf' \in [lock : Locks, supl : ConfValues, server : ConfValues, es : ConfValues]
         /\ conf'.lock = IF "lock" \in Request.flags THEN LockOf(Request.v) ELSE conf.lock
         /\ "MO" \in LockOf(Request.v)
         /\ conf'.supl = IF "supl" \in Request.flags THEN Request.v ELSE conf.supl
         /\ Inject => conf'.server = IF "server" \in Request.flags THEN Request.v ELSE conf.server
<1>1. Request.flags \in FlagSets /\ Request.v \in ConfValues
  BY DEF HandleConfig, MessageOK
<1>2. Request.flags \subseteq {"lock", "supl", "server", "es", "ids", "elevation"}
  BY <1>1 DEF ConfigurationAssumption
<1>3. LockOf(Request.v) \in Locks /\ "MO" \in LockOf(Request.v)
  BY DEF LockOf, Locks
<1>4. conf \in [lock : Locks, supl : ConfValues, server : ConfValues, es : ConfValues]
  BY DEF ConfigTyped
<1> QED  BY <1>1, <1>2, <1>3, <1>4 DEF HandleConfig

LEMMA ConfigAsked ==
  ASSUME ConfigurationAssumption, BaseInv, MessageOK(Request), HandleConfig
  PROVE  \E a : ConfigAsks(a)
<1> DEFINE flags == Request.flags
           up == IF afw /\ ~qLock THEN flags \ {"lock"} ELSE flags
           mask == IF "lock" \in flags THEN LockOf(Request.v) ELSE conf.lock
           n == [kind |-> "config", flags |-> flags, update |-> up,
                 lock |-> IF afw THEN {} ELSE mask, v |-> Request.v,
                 server |-> conf'.server]
           a == <<n>>
<1>1. locApiQ' = locApiQ \o a
  BY DEF HandleConfig, Ask
<1>2. ConfigTyped
  BY DEF BaseInv
<1>3. /\ flags \in FlagSets /\ Request.v \in ConfValues
      /\ flags \subseteq {"lock", "supl", "server", "es", "ids", "elevation"}
      /\ conf' \in [lock : Locks, supl : ConfValues, server : ConfValues, es : ConfValues]
      /\ conf'.lock = mask
      /\ conf'.supl = IF "supl" \in flags THEN Request.v ELSE conf.supl
      /\ Inject => conf'.server = IF "server" \in flags THEN Request.v ELSE conf.server
  BY <1>2, ConfigConf
<1>4. mask \in Locks /\ {} \in Locks
  BY <1>3 DEF Locks
<1>5. /\ n.kind = "config" /\ n.flags = flags /\ n.update = up /\ n.v = Request.v
      /\ n.lock = (IF afw THEN {} ELSE mask) /\ n.server = conf'.server
  OBVIOUS
<1> HIDE DEF n
<1>6. JobOK(n)
  <2>1. n.lock \in Locks
    BY <1>4, <1>5
  <2>2. {n.v, n.server} \subseteq ConfValues
    BY <1>3, <1>5
  <2> QED  BY <1>3, <1>5, <2>1, <2>2 DEF JobOK
<1>7. Label(n) = IF "ids" \in flags THEN "ids" ELSE "config"
  BY <1>5 DEF Label
<1>8. \A i : Sets(n, i) <=> i \in Passed(flags) \cap (up \cup {"ids", "elevation"})
  BY <1>5 DEF Sets
<1>9. /\ Gives(n, "lock") = n.lock /\ Gives(n, "server") = n.server
      /\ Gives(n, "supl") = Request.v /\ Gives(n, "ids") = IdsAlone(Request.v)
  BY <1>5 DEF Gives
<1>10. /\ IsSequence(a) /\ Range(a) = {n}
       /\ \A x : Holds(a, x) <=> Label(n) = x
       /\ \A i : Setter(a, i) <=> Sets(n, i)
       /\ \A i, w : SettledOn(a, i, w) <=> (Sets(n, i) => Gives(n, i) = w)
       /\ Once(a, "ids")
  BY OneJob
<1> HIDE DEF a
<1>11. Asks(a)
  BY <1>6, <1>7, <1>10 DEF Asks, JobsOK
<1>12. ~Setter(a, "types") /\ ~Setter(a, "tunc")
  BY <1>3, <1>8, <1>10 DEF Passed
<1>13. IF Setter(a, "lock") THEN SettledOn(a, "lock", ModemLock') ELSE ModemLock' = ModemLock
  <2>1. Setter(a, "lock") <=> "lock" \in flags /\ ~(afw /\ ~qLock)
    BY <1>8, <1>10 DEF Passed
  <2>2. qLock' = (qLock /\ "lock" \notin flags) /\ afw' = afw
    BY DEF HandleConfig
  <2>3. CASE Setter(a, "lock")
    <3>1. ModemLock' = n.lock
      BY <1>3, <1>5, <2>1, <2>2, <2>3 DEF ModemLock
    <3> QED  BY <1>9, <1>10, <2>3, <3>1
  <2>4. CASE ~Setter(a, "lock")
    BY <1>3, <2>1, <2>2, <2>4 DEF ModemLock
  <2> QED  BY <2>3, <2>4
<1>14. ASSUME Inject, NEW i \in {"supl", "server"}
       PROVE  IF Setter(a, i) THEN SettledOn(a, i, conf'[i]) ELSE conf'[i] = conf[i]
  <2>1. Setter(a, i) <=> i \in flags
    BY <1>8, <1>10, <1>14 DEF Passed
  <2>2. CASE i = "supl"
    <3>1. conf'[i] = conf'.supl /\ conf[i] = conf.supl
      BY <2>2
    <3> QED  BY <1>3, <1>9, <1>10, <2>1, <2>2, <3>1
  <2>3. CASE i = "server"
    <3>1. conf'[i] = conf'.server /\ conf[i] = conf.server
      BY <2>3
    <3> QED  BY <1>3, <1>5, <1>9, <1>10, <1>14, <2>1, <2>3, <3>1
  <2> QED  BY <2>2, <2>3
<1>15. IF "ids" \in flags
       THEN /\ Supplies(a, "ids", IdsAlone(Request.v))
            /\ \A j \in Range(a) : j.v = Request.v /\ Label(j) = "ids"
       ELSE /\ ~Setter(a, "ids")
            /\ \A j \in Range(a) : Label(j) = "config"
  <2>1. Setter(a, "ids") <=> "ids" \in flags
    BY <1>8, <1>10 DEF Passed
  <2> QED  BY <1>5, <1>7, <1>9, <1>10, <2>1 DEF Supplies
<1>16. \A x : Holds(a, x) <=> x = IF "ids" \in flags THEN "ids" ELSE "config"
  BY <1>7, <1>10
<1> QED  BY <1>1, <1>10, <1>11, <1>12, <1>13, <1>14, <1>15, <1>16 DEF ConfigAsks

\* What the two commands for satellites ask.
SvTypesAsks(a) ==
  /\ CallsOnly(a) /\ Supplies(a, "ids", IdsMerged(svIds, svTypes'))
  /\ IF Setter(a, "types") THEN SettledOn(a, "types", TypesSent(svTypes'))
     ELSE TypesSent(svTypes') = TypesSent(svTypes)
SvConfigAsks(a) ==
  /\ CallsOnly(a) /\ Supplies(a, "ids", IdsAlone(Request.v))
  /\ Request.w = Default => Supplies(a, "types", Default)

LEMMA SvTypesAsked ==
  ASSUME BaseInv, MessageOK(Request), HandleSvTypes
  PROVE  \E a : SvTypesAsks(a) /\ locApiQ' = locApiQ \o a
<1>0. ConfigTyped /\ Request.v \in SvType \cup {Default}
  BY DEF BaseInv, MessageOK, HandleSvTypes
<1>1. CASE Request.v = Default
  <2> DEFINE p == <<ModemCall("ids", IdsAlone(svIds), FALSE)>>
             q == ResetTypes
             a == p \o q
  <2>1. locApiQ' = locApiQ \o a /\ svTypes' = NoTypes
    BY <1>1 DEF HandleSvTypes, Ask
  <2>2. /\ CallsOnly(p) /\ (\A k : Setter(p, k) <=> k = "ids")
        /\ Supplies(p, "ids", IdsAlone(svIds))
    <3>1. IdsAlone(svIds) \in SettingsOf("ids")
      BY <1>0, SvTypesFit DEF ConfigTyped
    <3>2. p = <<ModemCall("ids", IdsAlone(svIds), FALSE)>>
      OBVIOUS
    <3> HIDE DEF p
    <3> QED  BY <3>1, <3>2, OneCall
  <2>3. /\ CallsOnly(q) /\ (\A k : Setter(q, k) <=> k = "types")
        /\ Supplies(q, "types", Default)
    <3>1. Default \in SettingsOf("types")
      BY LocksFit
    <3>2. q = <<ModemCall("types", Default, FALSE)>>
      BY DEF ResetTypes
    <3> HIDE DEF q
    <3> QED  BY <3>1, <3>2, OneCall
  <2> HIDE DEF p, q
  <2>4. CallsOnly(a) /\ Supplies(a, "ids", IdsAlone(svIds)) /\ Supplies(a, "types", Default)
    BY <2>2, <2>3, CallsJoin
  <2>5. SvTypesAsks(a)
    BY <2>1, <2>4, SvTypesFit DEF SvTypesAsks, Supplies
  <2> QED  BY <2>1, <2>5
<1>2. CASE Request.v # Default
  <2> DEFINE a == SvTypeCalls(Request.v, Removes(Request.v))
  <2>1. locApiQ' = locApiQ \o a /\ svTypes' = Request.v /\ Request.v \in SvType
    BY <1>0, <1>2 DEF HandleSvTypes, Ask
  <2>2. a = SvTypeCalls(Request.v, Removes(Request.v)) /\ Removes(Request.v) \in BOOLEAN
    BY DEF Removes
  <2> HIDE DEF a
  <2>3. /\ CallsOnly(a) /\ Supplies(a, "ids", IdsMerged(svIds, Request.v))
        /\ EnabledIn(Request.v) # {} => Supplies(a, "types", TypesSent(Request.v))
        /\ EnabledIn(Request.v) = {} /\ Removes(Request.v) => Supplies(a, "types", Default)
        /\ EnabledIn(Request.v) = {} /\ ~Removes(Request.v) => ~Setter(a, "types")
    BY <1>0, <1>2, <2>1, <2>2, SvCalls
  <2>4. EnabledIn(Request.v) = {} => TypesSent(Request.v) = Default
    BY SvTypesFit
  <2>5. EnabledIn(Request.v) = {} /\ ~Removes(Request.v) => TypesSent(svTypes) = Default
    BY SvTypesFit DEF Removes
  <2>6. SvTypesAsks(a)
    BY <2>1, <2>3, <2>4, <2>5 DEF SvTypesAsks, Supplies
  <2> QED  BY <2>1, <2>6
<1> QED  BY <1>1, <1>2

LEMMA SvConfigAsked ==
  ASSUME BaseInv, MessageOK(Request), HandleSvConfig
  PROVE  \E a : SvConfigAsks(a) /\ locApiQ' = locApiQ \o a
<1> DEFINE old == IF svTypes = Default THEN NoTypes ELSE svTypes
           p == IF Request.w = Default \/ Removes(Request.w) THEN ResetTypes ELSE <<>>
           m == IF Request.w = Default THEN <<>> ELSE <<ModemCall("types", old, FALSE)>>
           e == <<ModemCall("ids", IdsAlone(Request.v), TRUE)>>
           pm == p \o m
           a == pm \o e
<1>0. ConfigTyped /\ Request.v \in ConfValues
  BY DEF BaseInv, MessageOK, HandleSvConfig
<1>1. locApiQ' = locApiQ \o a
  BY DEF HandleSvConfig, Ask
<1>2. CallsOnly(p) /\ (Request.w = Default => Supplies(p, "types", Default))
  <2>1. CASE Request.w = Default \/ Removes(Request.w)
    <3>1. p = <<ModemCall("types", Default, FALSE)>>
      BY <2>1 DEF ResetTypes
    <3>2. Default \in SettingsOf("types")
      BY LocksFit
    <3> HIDE DEF p
    <3> QED  BY <3>1, <3>2, OneCall
  <2>2. CASE ~(Request.w = Default \/ Removes(Request.w))
    BY <2>2, NoCalls
  <2> QED  BY <2>1, <2>2
<1>3. CallsOnly(m) /\ (Request.w = Default => \A i : ~Setter(m, i))
  <2>1. CASE Request.w = Default
    BY <2>1, NoCalls
  <2>2. CASE Request.w # Default
    <3>1. old \in SettingsOf("types")
      BY <1>0, SvTypesFit DEF ConfigTyped
    <3>2. m = <<ModemCall("types", old, FALSE)>>
      BY <2>2
    <3> HIDE DEF m, old
    <3> QED  BY <2>2, <3>1, <3>2, OneCall
  <2> QED  BY <2>1, <2>2
<1>4. /\ CallsOnly(e) /\ (\A k : Setter(e, k) <=> k = "ids")
      /\ Supplies(e, "ids", IdsAlone(Request.v))
  <2>1. IdsAlone(Request.v) \in SettingsOf("ids")
    BY <1>0, SvTypesFit
  <2>2. e = <<ModemCall("ids", IdsAlone(Request.v), TRUE)>>
    OBVIOUS
  <2> HIDE DEF e
  <2> QED  BY <2>1, <2>2, OneCall
<1> HIDE DEF p, m, e
<1>5. CallsOnly(pm) /\ (Request.w = Default => Supplies(pm, "types", Default))
  BY <1>2, <1>3, CallsJoin
<1> HIDE DEF pm
<1>6. /\ CallsOnly(a) /\ Supplies(a, "ids", IdsAlone(Request.v))
      /\ Request.w = Default => Supplies(a, "types", Default)
  BY <1>4, <1>5, CallsJoin
<1>7. SvConfigAsks(a)
  BY <1>6 DEF SvConfigAsks
<1> HIDE DEF a
<1> QED  BY <1>1, <1>7

LEMMA TuncAsked ==
  ASSUME BaseInv, MessageOK(Request), HandleTunc
  PROVE  \E a : /\ Asks(a) /\ locApiQ' = locApiQ \o a
                /\ \A x : Holds(a, x) <=> x = "tuncCall"
                /\ \A i : Setter(a, i) <=> i = "tunc"
                /\ Supplies(a, "tunc", Request.v)
<1> DEFINE j == ModemCall("tunc", Request.v, TRUE)
           a == <<j>>
<1>1. locApiQ' = locApiQ \o a
  BY DEF HandleTunc, Ask
<1>2. "tunc" \in ModemItems /\ Request.v \in SettingsOf("tunc")
  BY LocksFit DEF MessageOK, HandleTunc
<1>3. CallsFor(j, "tunc", Request.v)
  BY <1>2, CallOK
<1> HIDE DEF j
<1>4. /\ Asks(a)
      /\ \A x : Holds(a, x) <=> x = IF "tunc" = "tunc" THEN "tuncCall" ELSE "call"
      /\ \A k : Setter(a, k) <=> k = "tunc"
      /\ Supplies(a, "tunc", Request.v)
  BY <1>3, OneAsked
<1> QED  BY <1>1, <1>4

\* A change of the lock that the modem is told.
LockAsked ==
  \E a :
    /\ Asks(a) /\ locApiQ' = locApiQ \o a
    /\ \A x : Holds(a, x) => x = "call"
    /\ \A i : Setter(a, i) => i = "lock"
    /\ (Request.kind = "nfw" => qLock) =>
         IF Setter(a, "lock") THEN SettledOn(a, "lock", ModemLock') ELSE ModemLock' = ModemLock

LEMMA LockCalled ==
  ASSUME NEW lock \in Locks, locApiQ' = locApiQ \o <<ModemCall("lock", lock, FALSE)>>,
         (Request.kind = "nfw" => qLock) => ModemLock' = lock
  PROVE  LockAsked
<1> DEFINE j == ModemCall("lock", lock, FALSE)
           a == <<j>>
<1>1. CallsFor(j, "lock", lock)
  BY LocksFit, CallOK
<1>2. locApiQ' = locApiQ \o a
  OBVIOUS
<1> HIDE DEF j
<1>3. /\ Asks(a)
      /\ \A x : Holds(a, x) <=> x = IF "lock" = "tunc" THEN "tuncCall" ELSE "call"
      /\ \A k : Setter(a, k) <=> k = "lock"
      /\ Supplies(a, "lock", lock)
  BY <1>1, OneAsked
<1> QED  BY <1>2, <1>3 DEF LockAsked, Supplies

\* The lock that enabling and disabling give.
LockFor(on) ==
  IF ~qLock THEN conf.lock
  ELSE IF on THEN conf.lock \cap {"NI"} ELSE conf.lock \cup {"MO"}

LEMMA EnableLocks ==
  ASSUME ConfigTyped, HandleEnable, NEW on, on = (Request.kind = "enable"), afw # on
  PROVE  /\ afw' = on
         /\ conf' = [conf EXCEPT !.lock = conf'.lock] /\ conf'.lock \in Locks
         /\ conf'.lock = LockFor(on)
         /\ xtraLock' = ModemLock' /\ ModemLock' \in Locks
         /\ locApiQ' = locApiQ \o <<ModemCall("lock", ModemLock', FALSE)>>
<1> DEFINE state == IF ~qLock THEN conf.lock
                    ELSE IF on THEN conf.lock \cap {"NI"} ELSE conf.lock \cup {"MO"}
           lock == IF on /\ ~qLock THEN {} ELSE state
<1>1. conf \in [lock : Locks, supl : ConfValues, server : ConfValues, es : ConfValues]
  BY DEF ConfigTyped
<1>2. /\ afw' = on /\ qLock' = qLock
      /\ conf' = [conf EXCEPT !.lock = state]
      /\ locApiQ' = locApiQ \o <<ModemCall("lock", lock, FALSE)>>
      /\ xtraLock' = lock
  BY DEF HandleEnable, Ask
<1>3. conf.lock \in Locks /\ state \in Locks /\ lock \in Locks
  BY <1>1 DEF Locks
<1>4. conf'.lock = state
  BY <1>1, <1>2
<1>5. on \in BOOLEAN
  OBVIOUS
<1>6. ModemLock' = lock
  BY <1>2, <1>4, <1>5 DEF ModemLock
<1>7. state = LockFor(on)
  BY DEF LockFor
<1> HIDE DEF lock, state
<1> QED  BY <1>1, <1>2, <1>3, <1>4, <1>6, <1>7
LEMMA TookRequest ==
  ASSUME QueuesOK, adapterQ # <<>>, NEW t, t = Tail(adapterQ)
  PROVE  Popped(t, adapterQ) /\ MessageOK(Request)
BY Pops, RequestOK DEF QueuesOK

LEMMA LabelsOf ==
  ASSUME NEW m, MessageOK(m)
  PROVE  /\ Label(m) = "engineUp" <=> m.kind = "engineUp"
         /\ Label(m) = "nfw" <=> m.kind = "nfw"
         /\ Label(m) = "tunc" <=> m.kind = "tunc"
         /\ Label(m) = "svs" <=> m.kind \in {"svTypes", "svConfig"}
         /\ Label(m) = "ids" <=> m.kind = "config" /\ "ids" \in m.flags
BY DEF MessageOK, Label

LEMMA UpKept ==
  ASSUME UpInv, NEW a, Pushed(locApiQ', locApiQ, a), ~Holds(a, "open"),
         Holds(adapterQ, "engineUp") => Holds(adapterQ', "engineUp"),
         UNCHANGED <<modemOn, engineKnown, nvram>>
  PROVE  UpInv'
<1>1. Holds(locApiQ', "open") <=> Holds(locApiQ, "open")
  BY DEF Pushed
<1>2. Once(locApiQ', "open")
  BY DEF Pushed, UpInv
<1> QED  BY <1>1, <1>2 DEF UpInv, Reopens

LEMMA QueuesKept ==
  ASSUME QueuesOK, NEW a, Pushed(locApiQ', locApiQ, a), JobsOK(a),
         Popped(adapterQ', adapterQ), UNCHANGED heldConfigs
  PROVE  QueuesOK'
<1>1. IsSequence(locApiQ') /\ \A j \in Range(locApiQ') : JobOK(j)
  BY DEF QueuesOK, Pushed, JobsOK
<1>2. IsSequence(adapterQ') /\ \A m \in Range(adapterQ') : MessageOK(m)
  BY DEF QueuesOK, Popped
<1> QED  BY <1>1, <1>2 DEF QueuesOK

\* A handler that asks for a and keeps the types.
LEMMA BaseKept ==
  ASSUME BaseInv, adapterQ # <<>>, Request.kind # "engineUp", adapterQ' = Tail(adapterQ),
         NEW a, Asks(a), locApiQ' = locApiQ \o a, ConfigTyped',
         UNCHANGED <<modemOn, engineKnown, nvram, heldConfigs>>
  PROVE  /\ BaseInv'
         /\ Popped(adapterQ', adapterQ) /\ Pushed(locApiQ', locApiQ, a)
<1>1. Popped(adapterQ', adapterQ) /\ MessageOK(Request)
  BY TookRequest DEF BaseInv
<1>2. Pushed(locApiQ', locApiQ, a)
  BY Pushes DEF BaseInv, QueuesOK, Asks
<1>3. QueuesOK'
  BY <1>1, <1>2, QueuesKept DEF BaseInv, Asks
<1>4. Holds(adapterQ, "engineUp") => Holds(adapterQ', "engineUp")
  BY <1>1, LabelsOf DEF Popped, Request
<1>5. UpInv'
  BY <1>2, <1>4, UpKept DEF BaseInv, Asks
<1> QED  BY <1>1, <1>2, <1>3, <1>5 DEF BaseInv

\* The messages of the adapter, one by one.
LEMMA BaseUp ==
  ASSUME BaseInv, adapterQ # <<>>, HandleUp, UNCHANGED <<nvram, modemOn, reopens>>
  PROVE  /\ BaseInv'
         /\ \E t : Popped(t, adapterQ) /\ Pushed(adapterQ', t, heldConfigs)
         /\ \E a : UpAsks(a) /\ Pushed(locApiQ', locApiQ, a)
<1> DEFINE t == Tail(adapterQ)
<1>1. Popped(t, adapterQ)
  BY TookRequest DEF BaseInv
<1>2. adapterQ' = t \o heldConfigs
  BY DEF HandleUp
<1> HIDE DEF t
<1>3. Pushed(adapterQ', t, heldConfigs)
  BY <1>1, <1>2, Pushes DEF BaseInv, QueuesOK, Popped
<1>4. PICK a : IsSequence(a) /\ UpAsks(a) /\ locApiQ' = locApiQ \o a
  BY UpAsked
<1>5. Pushed(locApiQ', locApiQ, a)
  BY <1>4, Pushes DEF BaseInv, QueuesOK
<1>6. IsSequence(adapterQ') /\ \A m \in Range(adapterQ') : MessageOK(m)
  BY <1>1, <1>3 DEF BaseInv, QueuesOK, Popped, Pushed
<1>7. IsSequence(locApiQ') /\ \A j \in Range(locApiQ') : JobOK(j)
  BY <1>4, <1>5 DEF BaseInv, QueuesOK, Pushed, UpAsks, JobsOK
<1>8. IsSequence(heldConfigs') /\ Range(heldConfigs') = {}
  BY NoJobs DEF HandleUp
<1>9. QueuesOK'
  BY <1>6, <1>7, <1>8 DEF QueuesOK
<1>10. UpInv'
  <2>1. ~Holds(a, "open")
    BY <1>4 DEF UpAsks
  <2>2. Holds(locApiQ', "open") <=> Holds(locApiQ, "open")
    BY <1>5, <2>1 DEF Pushed
  <2>3. Once(locApiQ', "open")
    BY <1>5, <2>1 DEF Pushed, BaseInv, UpInv
  <2> QED  BY <2>2, <2>3 DEF UpInv, BaseInv, HandleUp
<1>11. ConfigTyped'
  BY DEF ConfigTyped, BaseInv, HandleUp
<1> QED  BY <1>1, <1>3, <1>4, <1>5, <1>9, <1>10, <1>11 DEF BaseInv

LEMMA BaseHold ==
  ASSUME BaseInv, adapterQ # <<>>, Hold, UNCHANGED <<nvram, modemOn, reopens>>
  PROVE  /\ BaseInv'
         /\ Popped(adapterQ', adapterQ) /\ Pushed(heldConfigs', heldConfigs, <<Request>>)
<1>1. Popped(adapterQ', adapterQ) /\ MessageOK(Request)
  BY TookRequest DEF BaseInv, Hold
<1>2. Pushed(heldConfigs', heldConfigs, <<Request>>)
  BY Appends DEF BaseInv, QueuesOK, Hold
<1>3. Range(<<Request>>) = {Request}
  BY OneJob
<1>4. QueuesOK'
  <2>1. \A m \in Range(heldConfigs') : MessageOK(m) /\ m.kind \in {"config", "svTypes"}
    BY <1>1, <1>2, <1>3 DEF BaseInv, QueuesOK, Pushed, Hold
  <2>2. IsSequence(adapterQ') /\ \A m \in Range(adapterQ') : MessageOK(m)
    BY <1>1 DEF BaseInv, QueuesOK, Popped
  <2> QED  BY <1>2, <2>1, <2>2 DEF BaseInv, QueuesOK, Pushed, Hold
<1>5. UpInv'
  <2>1. Holds(adapterQ, "engineUp") => Holds(adapterQ', "engineUp")
    BY <1>1, LabelsOf DEF Popped, Request, Hold
  <2>2. Holds(locApiQ, "open") <=> Holds(locApiQ', "open")
    BY DEF Hold
  <2> QED  BY <2>1, <2>2 DEF BaseInv, UpInv, Reopens, Hold
<1>6. ConfigTyped'
  BY DEF ConfigTyped, BaseInv, Hold
<1> QED  BY <1>1, <1>2, <1>4, <1>5, <1>6 DEF BaseInv

LEMMA BaseConfig ==
  ASSUME ConfigurationAssumption, BaseInv, adapterQ # <<>>, HandleConfig,
         UNCHANGED <<nvram, modemOn, reopens>>
  PROVE  /\ BaseInv' /\ Popped(adapterQ', adapterQ)
         /\ \E a : ConfigAsks(a) /\ Pushed(locApiQ', locApiQ, a)
<1>1. MessageOK(Request)
  BY TookRequest DEF BaseInv
<1>2. PICK a : ConfigAsks(a)
  BY <1>1, ConfigAsked
<1>3. conf' \in [lock : Locks, supl : ConfValues, server : ConfValues, es : ConfValues]
  BY <1>1, ConfigConf DEF BaseInv
<1>4. ConfigTyped'
  BY <1>3 DEF ConfigTyped, BaseInv, HandleConfig
<1>5. /\ Request.kind # "engineUp" /\ adapterQ' = Tail(adapterQ)
      /\ UNCHANGED <<engineKnown, heldConfigs>>
  BY DEF HandleConfig
<1> QED  BY <1>2, <1>4, <1>5, BaseKept DEF ConfigAsks

LEMMA CallsAsk ==
  ASSUME NEW a, CallsOnly(a)
  PROVE  Asks(a)
BY DEF CallsOnly, Asks

LEMMA BaseSvTypes ==
  ASSUME BaseInv, adapterQ # <<>>, HandleSvTypes, UNCHANGED <<nvram, modemOn, reopens>>
  PROVE  /\ BaseInv' /\ Popped(adapterQ', adapterQ)
         /\ \E a : Pushed(locApiQ', locApiQ, a) /\ SvTypesAsks(a)
<1>1. MessageOK(Request)
  BY TookRequest DEF BaseInv
<1>2. PICK a : SvTypesAsks(a) /\ locApiQ' = locApiQ \o a
  BY <1>1, SvTypesAsked
<1>3. ConfigTyped'
  <2>1. svTypes' \in SvType \cup {Default}
    BY <1>1, SvTypesFit DEF HandleSvTypes, MessageOK
  <2> QED  BY <2>1 DEF ConfigTyped, BaseInv, HandleSvTypes
<1>4. /\ Request.kind # "engineUp" /\ adapterQ' = Tail(adapterQ)
      /\ UNCHANGED <<engineKnown, heldConfigs>>
  BY DEF HandleSvTypes
<1>5. Asks(a)
  BY <1>2, CallsAsk DEF SvTypesAsks
<1> QED  BY <1>2, <1>3, <1>4, <1>5, BaseKept

LEMMA BaseSvConfig ==
  ASSUME BaseInv, adapterQ # <<>>, HandleSvConfig, UNCHANGED <<nvram, modemOn, reopens>>
  PROVE  /\ BaseInv' /\ Popped(adapterQ', adapterQ)
         /\ \E a : Pushed(locApiQ', locApiQ, a) /\ SvConfigAsks(a)
<1>1. MessageOK(Request)
  BY TookRequest DEF BaseInv
<1>2. PICK a : SvConfigAsks(a) /\ locApiQ' = locApiQ \o a
  BY <1>1, SvConfigAsked
<1>3. ConfigTyped'
  BY <1>1 DEF ConfigTyped, BaseInv, HandleSvConfig, MessageOK
<1>4. /\ Request.kind # "engineUp" /\ adapterQ' = Tail(adapterQ)
      /\ UNCHANGED <<engineKnown, heldConfigs>>
  BY DEF HandleSvConfig
<1>5. Asks(a)
  BY <1>2, CallsAsk DEF SvConfigAsks
<1> QED  BY <1>2, <1>3, <1>4, <1>5, BaseKept

LEMMA BaseTunc ==
  ASSUME BaseInv, adapterQ # <<>>, HandleTunc, UNCHANGED <<nvram, modemOn, reopens>>
  PROVE  /\ BaseInv' /\ Popped(adapterQ', adapterQ)
         /\ \E a : /\ Pushed(locApiQ', locApiQ, a)
                   /\ Asks(a)
                   /\ \A x : Holds(a, x) <=> x = "tuncCall"
                   /\ \A i : Setter(a, i) <=> i = "tunc"
                   /\ Supplies(a, "tunc", Request.v)
<1>1. MessageOK(Request)
  BY TookRequest DEF BaseInv
<1>2. PICK a : /\ Asks(a) /\ locApiQ' = locApiQ \o a
               /\ \A x : Holds(a, x) <=> x = "tuncCall"
               /\ \A i : Setter(a, i) <=> i = "tunc"
               /\ Supplies(a, "tunc", Request.v)
  BY <1>1, TuncAsked
<1>3. ConfigTyped'
  BY <1>1 DEF ConfigTyped, BaseInv, HandleTunc, MessageOK
<1>4. /\ Request.kind # "engineUp" /\ adapterQ' = Tail(adapterQ)
      /\ UNCHANGED <<engineKnown, heldConfigs>>
  BY DEF HandleTunc
<1> QED  BY <1>2, <1>3, <1>4, BaseKept

\* The messages that only concern the lock, and the answers.
LEMMA BaseLock ==
  ASSUME BaseInv, adapterQ # <<>>, HandleEnable \/ HandleNfw \/ HandleAnswered,
         UNCHANGED <<nvram, modemOn, reopens>>
  PROVE  /\ BaseInv' /\ Popped(adapterQ', adapterQ)
         /\ \E a : /\ Pushed(locApiQ', locApiQ, a) /\ Asks(a)
                   /\ \A x : Holds(a, x) => x = "call"
                   /\ \A i : Setter(a, i) => i = "lock"
                   /\ (Request.kind = "nfw" => qLock) =>
                        IF Setter(a, "lock") THEN SettledOn(a, "lock", ModemLock')
                        ELSE ModemLock' = ModemLock
<1>1. /\ Request.kind # "engineUp" /\ adapterQ' = Tail(adapterQ)
      /\ UNCHANGED <<engineKnown, heldConfigs, svIds, svTypes, tunc, qLock>>
  BY DEF HandleEnable, HandleNfw, HandleAnswered
<1>2. conf \in [lock : Locks, supl : ConfValues, server : ConfValues, es : ConfValues]
  BY DEF BaseInv, ConfigTyped
<1>3. ConfigTyped' /\ LockAsked
  <2>1. CASE UNCHANGED <<conf, afw, locApiQ, xtraLock>>
    <3>1. ConfigTyped'
      BY <1>1, <2>1 DEF BaseInv, ConfigTyped
    <3>2. Asks(<<>>) /\ locApiQ' = locApiQ \o <<>>
      BY <2>1, NothingAsked DEF BaseInv, QueuesOK
    <3>3. ModemLock' = ModemLock
      BY <1>1, <2>1 DEF ModemLock
    <3> QED  BY <3>1, <3>2, <3>3, NoJobs DEF LockAsked
  <2>2. CASE HandleEnable /\ afw # (Request.kind = "enable")
    <3> DEFINE on == Request.kind = "enable"
    <3>0. on \in BOOLEAN
      OBVIOUS
    <3>1. /\ afw' = on
          /\ conf' = [conf EXCEPT !.lock = conf'.lock] /\ conf'.lock \in Locks
          /\ xtraLock' = ModemLock' /\ ModemLock' \in Locks
          /\ locApiQ' = locApiQ \o <<ModemCall("lock", ModemLock', FALSE)>>
      BY <2>2, EnableLocks DEF BaseInv
    <3> HIDE DEF on
    <3>2. conf' \in [lock : Locks, supl : ConfValues, server : ConfValues, es : ConfValues]
      BY <1>2, <3>1
    <3>3. ConfigTyped'
      BY <1>1, <3>0, <3>1, <3>2 DEF BaseInv, ConfigTyped
    <3> QED  BY <3>1, <3>3, LockCalled
  <2>3. CASE HandleNfw
    <3> DEFINE lock == IF Request.on THEN conf.lock \ {"NI"} ELSE conf.lock \cup {"NI"}
    <3>1. /\ conf' = [conf EXCEPT !.lock = lock]
          /\ locApiQ' = locApiQ \o <<ModemCall("lock", lock, FALSE)>>
          /\ UNCHANGED <<afw, xtraLock>> /\ Request.kind = "nfw"
      BY <2>3 DEF HandleNfw, Ask
    <3>2. lock \in Locks
      BY <1>2 DEF Locks
    <3> HIDE DEF lock
    <3>3. conf' \in [lock : Locks, supl : ConfValues, server : ConfValues, es : ConfValues]
      BY <1>2, <3>1, <3>2
    <3>4. qLock => ModemLock' = lock
      BY <1>1, <1>2, <3>1 DEF ModemLock
    <3>5. ConfigTyped'
      BY <1>1, <3>1, <3>3 DEF BaseInv, ConfigTyped
    <3> QED  BY <3>1, <3>2, <3>4, <3>5, LockCalled
  <2>4. CASE HandleAnswered
    BY <2>1, <2>4 DEF HandleAnswered
  <2>5. CASE HandleEnable /\ afw = (Request.kind = "enable")
    BY <2>1, <2>5 DEF HandleEnable
  <2> QED  BY <2>2, <2>3, <2>4, <2>5
<1>4. PICK a : /\ Asks(a) /\ locApiQ' = locApiQ \o a
               /\ \A x : Holds(a, x) => x = "call"
               /\ \A i : Setter(a, i) => i = "lock"
               /\ (Request.kind = "nfw" => qLock) =>
                    IF Setter(a, "lock") THEN SettledOn(a, "lock", ModemLock')
                    ELSE ModemLock' = ModemLock
  BY <1>3 DEF LockAsked
<1> QED  BY <1>1, <1>3, <1>4, BaseKept

\* Commands and their conditions.
LEMMA BaseCommand ==
  ASSUME BaseInv, NEW m, MessageOK(m), Command(m)
  PROVE  BaseInv' /\ Pushed(adapterQ', adapterQ, <<m>>)
<1>1. Pushed(adapterQ', adapterQ, <<m>>)
  BY Appends DEF BaseInv, QueuesOK, Command
<1>2. IsSequence(adapterQ') /\ \A n \in Range(adapterQ') : MessageOK(n)
  <2>1. Range(<<m>>) = {m}
    BY OneJob
  <2> QED  BY <1>1, <2>1 DEF Pushed, BaseInv, QueuesOK
<1>3. QueuesOK'
  BY <1>2 DEF BaseInv, QueuesOK, Command
<1>4. UpInv'
  <2>1. Holds(adapterQ, "engineUp") => Holds(adapterQ', "engineUp")
    BY <1>1 DEF Pushed
  <2>2. Holds(locApiQ, "open") <=> Holds(locApiQ', "open")
    BY DEF Command
  <2> QED  BY <2>1, <2>2 DEF BaseInv, UpInv, Reopens, Command
<1>5. ConfigTyped'
  BY DEF ConfigTyped, BaseInv, Command
<1> QED  BY <1>1, <1>3, <1>4, <1>5 DEF BaseInv

Commanded(m) ==
  /\ MessageOK(m) /\ Command(m)
  /\ Label(m) \in {"ids", "svs"} => Calm("ids")
  /\ Label(m) = "tunc" => Calm("tunc")
  /\ Label(m) = "nfw" => qLock /\ ("nfw" \in Overlap \/ adapterQ \o heldConfigs = <<>>)
  /\ Label(m) # "engineUp"

LEMMA CommandsAre ==
  ASSUME Commands
  PROVE  \E m : Commanded(m)
<1>1. ASSUME NEW flags \in FlagSets, NEW v \in ConfValues, UpdateConfig(flags, v)
      PROVE  \E m : Commanded(m)
  <2> DEFINE m == [kind |-> "config", flags |-> flags, v |-> v]
  <2>1. Command(m) /\ ("ids" \in flags => Calm("ids"))
    BY <1>1 DEF UpdateConfig
  <2>2. MessageOK(m)
    BY DEF MessageOK
  <2>3. Label(m) = IF "ids" \in flags THEN "ids" ELSE "config"
    BY DEF Label
  <2> HIDE DEF m
  <2> QED  BY <2>1, <2>2, <2>3 DEF Commanded
<1>2. ASSUME NEW w \in SvType \cup {Default}, UpdateSvTypes(w)
      PROVE  \E m : Commanded(m)
  <2> DEFINE m == [kind |-> "svTypes", v |-> w]
  <2>1. Command(m) /\ Calm("ids")
    BY <1>2 DEF UpdateSvTypes
  <2>2. MessageOK(m)
    BY DEF MessageOK
  <2>3. Label(m) = "svs"
    BY DEF Label
  <2> HIDE DEF m
  <2> QED  BY <2>1, <2>2, <2>3 DEF Commanded
<1>3. ASSUME NEW v \in ConfValues, NEW w \in SvType \cup {Default}, UpdateSvConfig(v, w)
      PROVE  \E m : Commanded(m)
  <2> DEFINE m == [kind |-> "svConfig", v |-> v, w |-> w]
  <2>1. Command(m) /\ Calm("ids") /\ (w = Default \/ SetsTypes)
    BY <1>3 DEF UpdateSvConfig
  <2>2. MessageOK(m)
    BY <2>1 DEF MessageOK
  <2>3. Label(m) = "svs"
    BY DEF Label
  <2> HIDE DEF m
  <2> QED  BY <2>1, <2>2, <2>3 DEF Commanded
<1>4. ASSUME NEW v \in ConfValues, SetTunc(v)
      PROVE  \E m : Commanded(m)
  <2> DEFINE m == [kind |-> "tunc", v |-> v]
  <2>1. Command(m) /\ Calm("tunc")
    BY <1>4 DEF SetTunc
  <2>2. MessageOK(m)
    BY DEF MessageOK
  <2>3. Label(m) = "tunc"
    BY DEF Label
  <2> HIDE DEF m
  <2> QED  BY <2>1, <2>2, <2>3 DEF Commanded
<1>5. ASSUME NEW on \in BOOLEAN, EnableCommand(on)
      PROVE  \E m : Commanded(m)
  <2> DEFINE m == [kind |-> IF on THEN "enable" ELSE "disable"]
  <2>1. Command(m)
    BY <1>5 DEF EnableCommand
  <2>2. MessageOK(m)
    BY DEF MessageOK
  <2>3. Label(m) \in {"enable", "disable"}
    BY DEF Label
  <2> HIDE DEF m
  <2> QED  BY <2>1, <2>2, <2>3 DEF Commanded
<1>6. ASSUME NEW on \in BOOLEAN, NfwControl(on)
      PROVE  \E m : Commanded(m)
  <2> DEFINE m == [kind |-> "nfw", on |-> on]
  <2>1. Command(m) /\ qLock /\ ("nfw" \in Overlap \/ adapterQ \o heldConfigs = <<>>)
    BY <1>6 DEF NfwControl
  <2>2. MessageOK(m)
    BY DEF MessageOK
  <2>3. Label(m) = "nfw"
    BY DEF Label
  <2> HIDE DEF m
  <2> QED  BY <2>1, <2>2, <2>3 DEF Commanded
<1> QED  BY <1>1, <1>2, <1>3, <1>4, <1>5, <1>6 DEF Commands

\* What being calm says of the queues.
LEMMA CalmIs ==
  ASSUME QueuesOK, UpInv, NEW what, Calm(what), what \notin Overlap
  PROVE  /\ ~Reopens /\ modemOn /\ engineKnown
         /\ what = "ids" => ~Holds(locApiQ, "ids") /\ ~Holds(locApiQ, "inject")
                            /\ ~Holds(adapterQ, "ids")
         /\ what = "tunc" => ~Holds(locApiQ, "inject") /\ ~Holds(locApiQ, "loadTunc")
<1>1. ~Reopening
  BY DEF Calm
<1>2. ASSUME Holds(adapterQ, "engineUp") PROVE FALSE
  <2>1. PICK k \in DOMAIN adapterQ : Label(adapterQ[k]) = "engineUp"
    BY <1>2 DEF Holds
  <2>2. adapterQ[k].kind = "engineUp"
    <3>1. adapterQ[k] \in Range(adapterQ)
      BY DEF Range
    <3> QED  BY <2>1, <3>1, LabelsOf DEF QueuesOK
  <2> QED  BY <1>1, <2>2 DEF Reopening, KindsOf
<1>3. modemOn /\ ~Reopens /\ engineKnown
  BY <1>1, <1>2 DEF Reopening, UpInv, Reopens
<1>4. ASSUME what = "ids"
      PROVE  ~Holds(locApiQ, "ids") /\ ~Holds(locApiQ, "inject") /\ ~Holds(adapterQ, "ids")
  <2>1. ~ConfiguresIds(locApiQ) /\ ~ConfiguresIds(adapterQ)
    BY <1>4 DEF Calm
  <2>2. ASSUME NEW k \in DOMAIN locApiQ, Label(locApiQ[k]) \in {"ids", "inject"}
        PROVE  FALSE
    <3>1. JobOK(locApiQ[k])
      BY DEF QueuesOK, Range
    <3>2. locApiQ[k].kind \in {"config", "inject"} /\ "ids" \in locApiQ[k].flags
      BY <2>2, <3>1 DEF Label, JobOK, Restored
    <3> QED  BY <2>1, <3>2 DEF ConfiguresIds
  <2>3. ASSUME NEW k \in DOMAIN adapterQ, Label(adapterQ[k]) = "ids"
        PROVE  FALSE
    <3>1. MessageOK(adapterQ[k])
      BY DEF QueuesOK, Range
    <3>2. adapterQ[k].kind = "config" /\ "ids" \in adapterQ[k].flags
      BY <2>3, <3>1, LabelsOf
    <3> QED  BY <2>1, <3>2 DEF ConfiguresIds
  <2> QED  BY <2>2, <2>3 DEF Holds
<1>5. ASSUME what = "tunc"
      PROVE  ~Holds(locApiQ, "inject") /\ ~Holds(locApiQ, "loadTunc")
  <2>1. {"inject", "loadTunc"} \cap KindsOf(locApiQ) = {}
    BY <1>5 DEF Calm
  <2>2. ASSUME NEW k \in DOMAIN locApiQ, Label(locApiQ[k]) \in {"loadTunc", "inject"}
        PROVE  FALSE
    <3>1. JobOK(locApiQ[k])
      BY DEF QueuesOK, Range
    <3>2. locApiQ[k].kind \in {"loadTunc", "inject"}
      BY <2>2, <3>1 DEF Label, JobOK
    <3> QED  BY <2>1, <3>2 DEF KindsOf
  <2> QED  BY <2>2 DEF Holds
<1> QED  BY <1>3, <1>4, <1>5

\* The modem restarts.
LEMMA BaseRestarts ==
  ASSUME ConfigurationAssumption, BaseInv, ModemRestarts
  PROVE  /\ BaseInv'
         /\ Pushed(locApiQ', locApiQ, <<[kind |-> "open"]>>)
         /\ \A x : Holds(<<[kind |-> "open"]>>, x) <=> x = "open"
         /\ Range(<<[kind |-> "open"]>>) = {[kind |-> "open"]}
         /\ \A i : ~Setter(<<[kind |-> "open"]>>, i)
         /\ Holds(locApiQ', "open")
         /\ "ids" \in Overlap \/ ~Holds(adapterQ, "ids")
<1> DEFINE o == [kind |-> "open"]
           a == <<o>>
<1>1. Label(o) = "open" /\ JobOK(o) /\ \A i : ~Sets(o, i)
  BY DEF Label, JobOK, Sets
<1>2. locApiQ' = Append(locApiQ, o)
  BY DEF ModemRestarts
<1> HIDE DEF o
<1>3. /\ Range(a) = {o}
      /\ \A x : Holds(a, x) <=> Label(o) = x
      /\ \A i : Setter(a, i) <=> Sets(o, i)
      /\ \A x : Once(a, x)
  BY OneJob
<1>4. Pushed(locApiQ', locApiQ, a)
  BY <1>2, Appends DEF BaseInv, QueuesOK
<1> HIDE DEF a
<1>5. ~Holds(locApiQ, "open")
  BY DEF ModemRestarts, BaseInv, UpInv
<1>6. Holds(locApiQ', "open") /\ Once(locApiQ', "open")
  BY <1>1, <1>3, <1>4, <1>5 DEF Pushed
<1>7. UpInv'
  BY <1>6 DEF UpInv, ModemRestarts, Reopens
<1>8. IsSequence(locApiQ') /\ \A j \in Range(locApiQ') : JobOK(j)
  BY <1>1, <1>3, <1>4 DEF Pushed, BaseInv, QueuesOK
<1>9. QueuesOK'
  BY <1>8 DEF BaseInv, QueuesOK, ModemRestarts
<1>10. ConfigTyped'
  <2>1. \A i \in ModemItems : nvram'[i] \in SettingsOf(i)
    BY LocksFit DEF ModemRestarts
  <2>2. reopens' \in 0 .. MaxReopens
    BY DEF ModemRestarts, BaseInv, ConfigTyped, ConfigurationAssumption
  <2> QED  BY <2>1, <2>2 DEF ModemRestarts, BaseInv, ConfigTyped
<1>11. "ids" \in Overlap \/ ~Holds(adapterQ, "ids")
  <2>1. ASSUME "ids" \notin Overlap, NEW k \in DOMAIN adapterQ, Label(adapterQ[k]) = "ids"
        PROVE  FALSE
    <3>1. MessageOK(adapterQ[k])
      BY DEF BaseInv, QueuesOK, Range
    <3>2. adapterQ[k].kind = "config" /\ "ids" \in adapterQ[k].flags
      BY <2>1, <3>1, LabelsOf
    <3> QED  BY <2>1, <3>2 DEF ConfiguresIds, ModemRestarts
  <2> QED  BY <2>1 DEF Holds
<1> QED  BY <1>1, <1>3, <1>4, <1>6, <1>7, <1>9, <1>10, <1>11 DEF BaseInv, a, o

\* The messages of LocApi.
LEMMA GivesFit ==
  ASSUME ConfigurationAssumption, NEW j, JobOK(j), NEW i \in ModemItems, Sets(j, i)
  PROVE  Gives(j, i) \in SettingsOf(i)
<1>1. CASE j.kind = "call"
  BY <1>1 DEF JobOK, Sets, Gives
<1>2. CASE j.kind = "inject"
  <2>1. i \in Restored
    BY <1>2 DEF Sets, Passed
  <2>2. /\ i = "lock" => j[i] \in Locks
        /\ i # "lock" => j[i] \in ConfValues
        /\ j.ids \in ConfValues /\ i # "types"
    BY <1>2, <2>1 DEF JobOK, Restored
  <2>3. CASE i = "ids"
    BY <1>2, <2>2, <2>3, SvTypesFit DEF Gives
  <2>4. CASE i # "ids"
    BY <1>2, <2>2, <2>4, LocksFit DEF Gives
  <2> QED  BY <2>3, <2>4
<1>3. CASE j.kind = "config"
  <2>1. /\ i = "lock" => Gives(j, i) \in Locks
        /\ i = "ids" => Gives(j, i) = IdsAlone(j.v) /\ j.v \in ConfValues
        /\ i \notin {"lock", "ids"} => Gives(j, i) \in ConfValues
    BY <1>3 DEF JobOK, Gives
  <2>2. i # "types"
    BY <1>3 DEF ConfigurationAssumption, JobOK, Sets, Passed
  <2> QED  BY <2>1, <2>2, LocksFit, SvTypesFit
<1> QED  BY <1>1, <1>2, <1>3 DEF Sets

LEMMA TakesIs ==
  ASSUME NEW new, NEW refused, Takes(new, refused), NEW i \in ModemItems
  PROVE  nvram'[i] = IF ~modemOn \/ i \notin DOMAIN new THEN nvram[i]
                     ELSE IF i \in refused THEN Refused ELSE new[i]
BY DEF Takes

\* What the modem has of i after a job.
RunGives(i) ==
  /\ ~modemOn => nvram'[i] = nvram[i]
  /\ modemOn => IF Sets(Job, i) THEN nvram'[i] \in {Refused, Gives(Job, i)}
                ELSE nvram'[i] = nvram[i]

LEMMA CallRuns ==
  ASSUME RunCall, NEW i \in ModemItems
  PROVE  RunGives(i)
<1> DEFINE new == [n \in {Job.item} |-> Job.v]
<1>1. PICK refused : Takes(new, refused)
  BY DEF RunCall
<1>2. DOMAIN new = {Job.item} /\ new[Job.item] = Job.v
  OBVIOUS
<1> HIDE DEF new
<1>3. nvram'[i] = IF ~modemOn \/ i \notin DOMAIN new THEN nvram[i]
                  ELSE IF i \in refused THEN Refused ELSE new[i]
  BY <1>1, TakesIs
<1>4. Sets(Job, i) <=> i = Job.item
  BY DEF RunCall, Sets
<1>5. Gives(Job, i) = Job.v
  BY DEF RunCall, Gives
<1> QED  BY <1>2, <1>3, <1>4, <1>5 DEF RunGives

LEMMA ConfigRuns ==
  ASSUME RunConfig, NEW i \in ModemItems
  PROVE  RunGives(i)
<1> DEFINE sent == Passed(Job.flags) \cap (Job.update \cup {"ids", "elevation"})
           new == [n \in sent |-> IF n = "lock" THEN Job.lock
                                  ELSE IF n = "server" THEN Job.server
                                  ELSE IF n = "ids" THEN IdsAlone(Job.v) ELSE Job.v]
<1>1. PICK refused : Takes(new, refused)
  BY DEF RunConfig
<1>2. DOMAIN new = sent /\ (i \in sent => new[i] = Gives(Job, i))
  BY DEF RunConfig, Gives
<1>3. Sets(Job, i) <=> i \in sent
  BY DEF RunConfig, Sets
<1> HIDE DEF new, sent
<1>4. nvram'[i] = IF ~modemOn \/ i \notin DOMAIN new THEN nvram[i]
                  ELSE IF i \in refused THEN Refused ELSE new[i]
  BY <1>1, TakesIs
<1> QED  BY <1>2, <1>3, <1>4 DEF RunGives

LEMMA InjectRuns ==
  ASSUME RunInject, JobOK(Job), NEW i \in ModemItems
  PROVE  RunGives(i)
<1> DEFINE sent == Passed(Job.flags)
           new == [n \in sent |-> IF n = "ids" THEN IdsAlone(Job.ids) ELSE Job[n]]
<1>1. PICK refused : Takes(new, refused)
  BY DEF RunInject
<1>2. DOMAIN new = sent /\ (i \in sent => new[i] = Gives(Job, i))
  BY DEF RunInject, Gives
<1>3. Sets(Job, i) <=> i \in sent
  BY DEF RunInject, Sets, JobOK
<1> HIDE DEF new, sent
<1>4. nvram'[i] = IF ~modemOn \/ i \notin DOMAIN new THEN nvram[i]
                  ELSE IF i \in refused THEN Refused ELSE new[i]
  BY <1>1, TakesIs
<1> QED  BY <1>2, <1>3, <1>4 DEF RunGives

LEMMA LoadRuns ==
  ASSUME RunLoadTunc, NEW i \in ModemItems
  PROVE  /\ i # "tunc" => RunGives(i)
         /\ i = "tunc" => /\ ~modemOn => nvram'[i] = nvram[i]
                          /\ modemOn => nvram'[i] \in {Refused, tunc'}
<1> DEFINE new == [n \in {"tunc"} |-> tunc']
<1>1. PICK refused : Takes(new, refused)
  BY DEF RunLoadTunc
<1>2. DOMAIN new = {"tunc"} /\ new["tunc"] = tunc'
  OBVIOUS
<1> HIDE DEF new
<1>3. nvram'[i] = IF ~modemOn \/ i \notin DOMAIN new THEN nvram[i]
                  ELSE IF i \in refused THEN Refused ELSE new[i]
  BY <1>1, TakesIs
<1>4. ~Sets(Job, i)
  BY DEF RunLoadTunc, Sets
<1> QED  BY <1>2, <1>3, <1>4 DEF RunGives

LEMMA OpenRuns ==
  ASSUME RunOpen, NEW i
  PROVE  RunGives(i)
BY DEF RunOpen, RunGives, Sets

LEMMA RunsGive ==
  ASSUME BaseInv, LocApiRuns, JobOK(Job), NEW i \in ModemItems
  PROVE  /\ ~modemOn => nvram'[i] = nvram[i]
         /\ Job.kind # "loadTunc" \/ i # "tunc" => RunGives(i)
         /\ Job.kind = "loadTunc" /\ i = "tunc" /\ modemOn => nvram'[i] \in {Refused, tunc'}
<1>1. CASE RunLoadTunc
  BY <1>1, LoadRuns DEF RunLoadTunc, RunGives
<1>2. CASE RunInject
  BY <1>2, InjectRuns DEF RunInject, RunGives
<1>3. CASE RunOpen
  BY <1>3, OpenRuns DEF RunOpen, RunGives
<1>4. CASE RunCall
  BY <1>4, CallRuns DEF RunCall, RunGives
<1>5. CASE RunConfig
  BY <1>5, ConfigRuns DEF RunConfig, RunGives
<1> QED  BY <1>1, <1>2, <1>3, <1>4, <1>5 DEF LocApiRuns

LEMMA RunTypes ==
  ASSUME ConfigurationAssumption, BaseInv, LocApiRuns, JobOK(Job)
  PROVE  ConfigTyped'
<1>1. tunc' \in ConfValues \cup {Default}
  BY InitialValue DEF LocApiRuns, RunInject, RunOpen, RunCall, RunConfig, RunLoadTunc,
                      BaseInv, ConfigTyped
<1>2. svIds' \in ConfValues
  BY DEF LocApiRuns, RunInject, RunOpen, RunCall, RunConfig, RunLoadTunc, BaseInv, ConfigTyped,
         JobOK
<1>3. modemOn' \in BOOLEAN
  BY DEF LocApiRuns, RunInject, RunOpen, RunCall, RunConfig, RunLoadTunc, BaseInv, ConfigTyped
<1>4. ASSUME NEW i \in ModemItems PROVE nvram'[i] \in SettingsOf(i)
  <2>1. nvram[i] \in SettingsOf(i) /\ Refused \in SettingsOf(i)
    BY LocksFit DEF BaseInv, ConfigTyped
  <2>2. i = "tunc" => tunc' \in SettingsOf(i)
    BY <1>1, LocksFit
  <2>3. modemOn \in BOOLEAN
    BY DEF BaseInv, ConfigTyped
  <2>4. CASE Job.kind = "loadTunc" /\ i = "tunc"
    BY <2>1, <2>2, <2>3, <2>4, RunsGive
  <2>5. CASE Job.kind # "loadTunc" \/ i # "tunc"
    <3>1. RunGives(i)
      BY <2>5, RunsGive
    <3> QED  BY <2>1, <2>3, <3>1, GivesFit DEF RunGives
  <2> QED  BY <2>4, <2>5
<1> QED  BY <1>1, <1>2, <1>3, <1>4 DEF LocApiRuns, BaseInv, ConfigTyped

\* The queues after a job: the head is gone, or replaced by a loadTunc.
LEMMA RunQueues ==
  ASSUME BaseInv, LocApiRuns
  PROVE  /\ JobOK(Job)
         /\ \E t : /\ t = Tail(locApiQ) /\ Popped(t, locApiQ)
                   /\ Job.kind # "inject" => locApiQ' = t
                   /\ Job.kind = "inject" =>
                        \E l : /\ Label(l) = "loadTunc" /\ l.first = (tunc = Default) /\ JobOK(l)
                               /\ \A i : ~Sets(l, i)
                               /\ Pushed(locApiQ', <<l>>, t)
         /\ Job.kind = "open" =>
              \E m : /\ MessageOK(m) /\ Label(m) = "engineUp" /\ Pushed(adapterQ', adapterQ, <<m>>)
         /\ Job.kind # "open" =>
              \/ UNCHANGED adapterQ
              \/ \E m : MessageOK(m) /\ Label(m) = "answer" /\ Pushed(adapterQ', adapterQ, <<m>>)
<1> DEFINE t == Tail(locApiQ)
<1>1. Popped(t, locApiQ)
  BY Pops DEF BaseInv, QueuesOK, LocApiRuns
<1>2. JobOK(Job)
  BY <1>1 DEF Popped, BaseInv, QueuesOK, Job
<1>3. Job.kind # "inject" => locApiQ' = t
  BY DEF LocApiRuns, RunInject
<1>4. ASSUME Job.kind = "inject"
      PROVE  \E l : /\ Label(l) = "loadTunc" /\ l.first = (tunc = Default) /\ JobOK(l)
                    /\ \A i : ~Sets(l, i)
                    /\ Pushed(locApiQ', <<l>>, t)
  <2> DEFINE l == [kind |-> "loadTunc", first |-> tunc = Default]
  <2>1. locApiQ' = <<l>> \o t
    BY <1>4 DEF LocApiRuns, RunInject, RunOpen, RunCall, RunConfig, RunLoadTunc
  <2>2. l.kind = "loadTunc" /\ l.first = (tunc = Default)
    OBVIOUS
  <2> HIDE DEF l, t
  <2>3. Pushed(locApiQ', <<l>>, t)
    BY <1>1, <2>1, OneJob, Pushes DEF Popped
  <2>4. Label(l) = "loadTunc" /\ JobOK(l) /\ \A i : ~Sets(l, i)
    BY <2>2 DEF Label, JobOK, Sets
  <2> QED  BY <2>2, <2>3, <2>4
<1>5. ASSUME Job.kind = "open"
      PROVE  \E m : /\ MessageOK(m) /\ Label(m) = "engineUp" /\ Pushed(adapterQ', adapterQ, <<m>>)
  <2> DEFINE m == [kind |-> "engineUp"]
  <2>1. adapterQ' = Append(adapterQ, m)
    BY <1>5 DEF LocApiRuns, RunInject, RunOpen, RunCall, RunConfig, RunLoadTunc
  <2>2. MessageOK(m) /\ Label(m) = "engineUp"
    BY DEF MessageOK, Label
  <2> HIDE DEF m
  <2>3. Pushed(adapterQ', adapterQ, <<m>>)
    BY <2>1, Appends DEF BaseInv, QueuesOK
  <2> QED  BY <2>2, <2>3
<1>6. ASSUME Job.kind # "open"
      PROVE  \/ UNCHANGED adapterQ
             \/ \E m : MessageOK(m) /\ Label(m) = "answer" /\ Pushed(adapterQ', adapterQ, <<m>>)
  <2>1. \/ UNCHANGED adapterQ
        \/ \E answer : Reply(answer)
    BY <1>6 DEF LocApiRuns, RunInject, RunOpen, RunCall, RunConfig, RunLoadTunc
  <2>2. ASSUME NEW answer, Reply(answer)
        PROVE  \E m : MessageOK(m) /\ Label(m) = "answer" /\ Pushed(adapterQ', adapterQ, <<m>>)
    <3> DEFINE m == [kind |-> "answer", answer |-> answer]
    <3>1. adapterQ' = Append(adapterQ, m)
      BY <2>2 DEF Reply
    <3>2. MessageOK(m) /\ Label(m) = "answer"
      BY DEF MessageOK, Label
    <3> HIDE DEF m
    <3>3. Pushed(adapterQ', adapterQ, <<m>>)
      BY <3>1, Appends DEF BaseInv, QueuesOK
    <3> QED  BY <3>2, <3>3
  <2> QED  BY <2>1, <2>2
<1> QED  BY <1>1, <1>2, <1>3, <1>4, <1>5, <1>6

LEMMA LabelsRun ==
  ASSUME NEW j, JobOK(j)
  PROVE  /\ Label(j) = "open" <=> j.kind = "open"
         /\ Label(j) = "inject" <=> j.kind = "inject"
         /\ Label(j) = "loadTunc" <=> j.kind = "loadTunc"
         /\ Label(j) = "ids" <=> j.kind = "config" /\ "ids" \in j.flags
         /\ Label(j) = "tuncCall" <=> j.kind = "call" /\ j.item = "tunc"
BY DEF JobOK, Label

LEMMA BaseRun ==
  ASSUME ConfigurationAssumption, BaseInv, LocApiRuns
  PROVE  BaseInv'
<1>1. JobOK(Job)
  BY RunQueues
<1>2. PICK t : /\ Popped(t, locApiQ)
               /\ Job.kind # "inject" => locApiQ' = t
               /\ Job.kind = "inject" =>
                    \E l : Label(l) = "loadTunc" /\ JobOK(l) /\ Pushed(locApiQ', <<l>>, t)
  BY RunQueues
<1>3. \/ UNCHANGED adapterQ
      \/ \E m : MessageOK(m) /\ Pushed(adapterQ', adapterQ, <<m>>)
  BY RunQueues
<1>4. Job.kind = "open" => Holds(adapterQ', "engineUp")
  <2>1. SUFFICES ASSUME Job.kind = "open" PROVE Holds(adapterQ', "engineUp")
    OBVIOUS
  <2>2. PICK m : Label(m) = "engineUp" /\ Pushed(adapterQ', adapterQ, <<m>>)
    BY <2>1, RunQueues
  <2> QED  BY <2>2, OneJob DEF Pushed
<1>5. Holds(adapterQ, "engineUp") => Holds(adapterQ', "engineUp")
  BY <1>3 DEF Pushed
<1>6. IsSequence(adapterQ') /\ \A m \in Range(adapterQ') : MessageOK(m)
  <2>1. CASE UNCHANGED adapterQ
    BY <2>1 DEF BaseInv, QueuesOK
  <2>2. ASSUME NEW m, MessageOK(m), Pushed(adapterQ', adapterQ, <<m>>)
        PROVE  IsSequence(adapterQ') /\ \A n \in Range(adapterQ') : MessageOK(n)
    <3>1. Range(<<m>>) = {m}
      BY OneJob
    <3> QED  BY <2>2, <3>1 DEF BaseInv, QueuesOK, Pushed
  <2> QED  BY <1>3, <2>1, <2>2
<1>7. /\ IsSequence(locApiQ') /\ \A j \in Range(locApiQ') : JobOK(j)
      /\ Holds(locApiQ', "open") <=> Holds(t, "open")
      /\ Once(t, "open") => Once(locApiQ', "open")
  <2>1. CASE Job.kind # "inject"
    BY <1>2, <2>1 DEF BaseInv, QueuesOK, Popped
  <2>2. CASE Job.kind = "inject"
    <3>1. PICK l : Label(l) = "loadTunc" /\ JobOK(l) /\ Pushed(locApiQ', <<l>>, t)
      BY <1>2, <2>2
    <3>2. Range(<<l>>) = {l} /\ ~Holds(<<l>>, "open")
      BY <3>1, OneJob
    <3> QED  BY <1>2, <3>1, <3>2 DEF BaseInv, QueuesOK, Popped, Pushed
  <2> QED  BY <2>1, <2>2
<1>8. QueuesOK'
  BY <1>6, <1>7 DEF BaseInv, QueuesOK, LocApiRuns
<1>9. /\ Holds(locApiQ, "open") <=> Job.kind = "open" \/ Holds(t, "open")
      /\ Job.kind = "open" => ~Holds(t, "open")
      /\ Once(t, "open")
  BY <1>1, <1>2, LabelsRun DEF Popped, Job, BaseInv, UpInv
<1>10. modemOn' = (modemOn \/ Job.kind = "open")
  BY DEF LocApiRuns, RunInject, RunOpen, RunCall, RunConfig, RunLoadTunc, BaseInv, ConfigTyped
<1>11. modemOn' = ~Holds(locApiQ', "open") /\ Once(locApiQ', "open")
  BY <1>7, <1>9, <1>10 DEF BaseInv, UpInv
<1>12. engineKnown' \/ Reopens'
  BY <1>4, <1>5, <1>7, <1>9 DEF BaseInv, UpInv, Reopens, LocApiRuns
<1>13. modemOn' \/ \A i \in ModemItems : nvram'[i] = Default
  BY <1>1, <1>10, RunsGive DEF BaseInv, UpInv
<1>14. UpInv'
  BY <1>11, <1>12, <1>13 DEF UpInv
<1> QED  BY <1>1, <1>8, <1>14, RunTypes DEF BaseInv

\* A restart that is under way stays so, but for the message that says that it is over.
Stays == Reopens => Reopens'

LEMMA CommandStays ==
  ASSUME NEW a, Pushed(adapterQ', adapterQ, a), UNCHANGED locApiQ
  PROVE  Stays
<1>1. Holds(adapterQ, "engineUp") => Holds(adapterQ', "engineUp")
  BY DEF Pushed
<1>2. Holds(locApiQ, "open") <=> Holds(locApiQ', "open")
  OBVIOUS
<1> QED  BY <1>1, <1>2 DEF Stays, Reopens

LEMMA HandlerStays ==
  ASSUME BaseInv, adapterQ # <<>>, Request.kind # "engineUp", Popped(adapterQ', adapterQ),
         UNCHANGED locApiQ \/ \E a : Pushed(locApiQ', locApiQ, a)
  PROVE  Stays
<1>1. Holds(adapterQ, "engineUp") => Holds(adapterQ', "engineUp")
  BY RequestOK, LabelsOf DEF Popped, Request, BaseInv
<1>2. Holds(locApiQ, "open") => Holds(locApiQ', "open")
  BY DEF Pushed
<1> QED  BY <1>1, <1>2 DEF Stays, Reopens

LEMMA RunStays ==
  ASSUME BaseInv, LocApiRuns
  PROVE  Stays
<1>1. Holds(adapterQ, "engineUp") => Holds(adapterQ', "engineUp")
  BY RunQueues DEF Pushed
<1>2. CASE Job.kind = "open"
  <2>1. PICK m : Label(m) = "engineUp" /\ Pushed(adapterQ', adapterQ, <<m>>)
    BY <1>2, RunQueues
  <2>2. Holds(adapterQ', "engineUp")
    BY <2>1, OneJob DEF Pushed
  <2> QED  BY <2>2 DEF Stays, Reopens
<1>3. CASE Job.kind # "open"
  <2>1. PICK t : /\ Popped(t, locApiQ)
                 /\ Job.kind # "inject" => locApiQ' = t
                 /\ Job.kind = "inject" => \E l : Pushed(locApiQ', <<l>>, t)
    BY RunQueues
  <2>2. JobOK(Job)
    BY RunQueues
  <2>3. Holds(locApiQ, "open") => Holds(t, "open")
    BY <1>3, <2>1, <2>2, LabelsRun DEF Popped, Job
  <2>4. Holds(t, "open") => Holds(locApiQ', "open")
    BY <2>1 DEF Pushed
  <2> QED  BY <1>1, <2>3, <2>4 DEF Stays, Reopens
<1> QED  BY <1>2, <1>3

\* A job that runs keeps what the queue gives the modem of i.
LEMMA HeldRun ==
  ASSUME BaseInv, LocApiRuns, NEW i \in ModemItems, NEW w,
         HeldIn(locApiQ, nvram[i], i, w), modemOn \/ w = Default,
         Job.kind # "loadTunc" \/ i # "tunc"
  PROVE  HeldIn(locApiQ', nvram'[i], i, w)
<1>1. JobOK(Job)
  BY RunQueues
<1>2. PICK t : /\ t = Tail(locApiQ)
               /\ Job.kind # "inject" => locApiQ' = t
               /\ Job.kind = "inject" =>
                    \E l : (\A n : ~Sets(l, n)) /\ Pushed(locApiQ', <<l>>, t)
  BY RunQueues
<1>3. IsSequence(locApiQ) /\ locApiQ # <<>>
  BY DEF BaseInv, QueuesOK, LocApiRuns
<1>4. RunGives(i)
  BY <1>1, RunsGive
<1>5. HeldIn(t, nvram'[i], i, w)
  <2>1. CASE modemOn
    <3>1. IF Sets(Head(locApiQ), i) THEN nvram'[i] \in {Refused, Gives(Head(locApiQ), i)}
          ELSE nvram'[i] = nvram[i]
      BY <1>4, <2>1 DEF RunGives, Job
    <3> QED  BY <1>2, <1>3, <3>1, HeldTail
  <2>2. CASE ~modemOn
    <3>1. nvram'[i] = w
      BY <1>4, <2>2 DEF RunGives, BaseInv, UpInv
    <3>2. SettledOn(t, i, w)
      BY <1>2, <1>3, TailSettled DEF HeldIn
    <3> QED  BY <3>1, <3>2 DEF HeldIn
  <2> QED  BY <2>1, <2>2
<1>6. CASE Job.kind # "inject"
  BY <1>2, <1>5, <1>6
<1>7. CASE Job.kind = "inject"
  <2>1. PICK l : (\A n : ~Sets(l, n)) /\ Pushed(locApiQ', <<l>>, t)
    BY <1>2, <1>7
  <2>2. SettledOn(<<l>>, i, w) /\ ~Setter(<<l>>, i)
    BY <2>1, OneJob
  <2>3. SettledOn(locApiQ', i, w) /\ (Setter(t, i) <=> Setter(locApiQ', i))
    BY <1>5, <2>1, <2>2 DEF Pushed, HeldIn
  <2> QED  BY <1>5, <2>3 DEF HeldIn
<1> QED  BY <1>6, <1>7

\* The modem gets w of i, unless it comes back.
LEMMA GetsRun ==
  ASSUME BaseInv, LocApiRuns, NEW i \in ModemItems, NEW w,
         Reopens \/ HeldIn(locApiQ, nvram[i], i, w),
         Job.kind # "loadTunc" \/ i # "tunc"
  PROVE  Reopens' \/ HeldIn(locApiQ', nvram'[i], i, w)
<1>1. CASE Reopens
  BY <1>1, RunStays DEF Stays
<1>2. CASE ~Reopens
  <2>1. modemOn
    BY <1>2 DEF BaseInv, UpInv, Reopens, ConfigTyped
  <2> QED  BY <1>2, <2>1, HeldRun
<1> QED  BY <1>1, <1>2

LEMMA GetsAsk ==
  ASSUME Stays, NEW a, Pushed(locApiQ', locApiQ, a), UNCHANGED nvram, NEW i, NEW w, NEW v,
         Reopens \/ HeldIn(locApiQ, nvram[i], i, w),
         IF Setter(a, i) THEN SettledOn(a, i, v) ELSE v = w
  PROVE  Reopens' \/ HeldIn(locApiQ', nvram'[i], i, v)
<1>1. CASE Reopens
  BY <1>1 DEF Stays
<1>2. CASE Setter(a, i)
  BY <1>2, HeldSet
<1>3. CASE ~Reopens /\ ~Setter(a, i)
  BY <1>3, HeldAsk
<1> QED  BY <1>1, <1>2, <1>3

LEMMA GetsSame ==
  ASSUME Stays, UNCHANGED <<locApiQ, nvram>>, NEW i, NEW w,
         Reopens \/ HeldIn(locApiQ, nvram[i], i, w)
  PROVE  Reopens' \/ HeldIn(locApiQ', nvram'[i], i, w)
BY DEF Stays

-----------------------------------------------------------------------------

\* The lock.
NfwFirst ==
  /\ Holds(adapterQ, "nfw") => qLock
  /\ Leads(adapterQ, "nfw")
MoInv ==
  /\ IF qLock THEN "MO" \in conf.lock <=> ~afw ELSE "MO" \in conf.lock
  /\ "MO" \in xtraLock <=> ~afw

LEMMA NfwPopped ==
  ASSUME NfwFirst, Popped(adapterQ', adapterQ)
  PROVE  NfwFirst' /\ ~Holds(adapterQ', "nfw")
<1>1. ~Holds(adapterQ', "nfw")
  BY DEF NfwFirst, Popped
<1> QED  BY <1>1, NoneOrdered DEF NfwFirst

LEMMA NfwStep ==
  ASSUME ConfigurationAssumption, "nfw" \notin Overlap, BaseInv, NfwFirst,
         [ConfigNext]_configVars
  PROVE  NfwFirst'
<1>1. ASSUME NEW m, Commanded(m) PROVE NfwFirst'
  <2>1. Pushed(adapterQ', adapterQ, <<m>>) /\ UNCHANGED qLock
    BY <1>1, BaseCommand DEF Commanded, Command
  <2>2. \A x : Holds(<<m>>, x) <=> Label(m) = x
    BY OneJob
  <2>3. CASE Label(m) # "nfw"
    <3>1. Holds(adapterQ', "nfw") <=> Holds(adapterQ, "nfw")
      BY <2>1, <2>2, <2>3 DEF Pushed
    <3>2. Leads(adapterQ', "nfw")
      BY <2>1, <2>2, <2>3 DEF Pushed, NfwFirst
    <3> QED  BY <2>1, <3>1, <3>2 DEF NfwFirst
  <2>4. CASE Label(m) = "nfw"
    <3>1. qLock /\ adapterQ \o heldConfigs = <<>>
      BY <1>1, <2>4 DEF Commanded
    <3>2. adapterQ = <<>>
      <4>1. adapterQ \in Seq(Range(adapterQ)) /\ heldConfigs \in Seq(Range(heldConfigs))
        BY DEF BaseInv, QueuesOK, IsSequence
      <4>2. adapterQ \in Seq(Range(adapterQ) \cup Range(heldConfigs))
            /\ heldConfigs \in Seq(Range(adapterQ) \cup Range(heldConfigs))
        BY <4>1, SeqMonotonic
      <4>3. Len(adapterQ) + Len(heldConfigs) = 0
        BY <3>1, <4>2
      <4> QED  BY <4>2, <4>3
    <3>3. adapterQ' = <<m>>
      BY <1>1, <3>2 DEF Commanded, Command
    <3>4. Leads(adapterQ', "nfw")
      BY <2>4, <3>3, OneJob DEF Leads
    <3> QED  BY <2>1, <3>1, <3>4 DEF NfwFirst
  <2> QED  BY <2>3, <2>4
<1>2. CASE AdapterRuns
  <2>1. CASE HandleUp
    <3>1. PICK t : Popped(t, adapterQ) /\ Pushed(adapterQ', t, heldConfigs)
      BY <1>2, <2>1, BaseUp DEF AdapterRuns
    <3>2. ~Holds(t, "nfw")
      BY <3>1 DEF Popped, NfwFirst
    <3>3. ~Holds(heldConfigs, "nfw")
      <4>1. ASSUME NEW k \in DOMAIN heldConfigs, Label(heldConfigs[k]) = "nfw" PROVE FALSE
        <5>1. heldConfigs[k] \in Range(heldConfigs)
          BY DEF Range
        <5> QED  BY <4>1, <5>1, LabelsOf DEF BaseInv, QueuesOK
      <4> QED  BY <4>1 DEF Holds
    <3>4. ~Holds(adapterQ', "nfw")
      BY <3>1, <3>2, <3>3 DEF Pushed
    <3> QED  BY <3>4, NoneOrdered DEF NfwFirst
  <2>2. CASE ~HandleUp
    <3>1. adapterQ' = Tail(adapterQ) /\ adapterQ # <<>>
      BY <1>2, <2>2 DEF AdapterRuns, Hold, HandleConfig, HandleSvTypes, HandleSvConfig,
                        HandleTunc, HandleEnable, HandleNfw, HandleAnswered
    <3>2. Popped(adapterQ', adapterQ)
      BY <3>1, TookRequest DEF BaseInv
    <3> QED  BY <3>2, NfwPopped
  <2> QED  BY <2>1, <2>2
<1>3. CASE LocApiRuns
  <2>1. \/ UNCHANGED adapterQ
        \/ \E m : Label(m) # "nfw" /\ Pushed(adapterQ', adapterQ, <<m>>)
    BY <1>3, RunQueues
  <2>2. UNCHANGED qLock
    BY <1>3 DEF LocApiRuns
  <2>3. CASE UNCHANGED adapterQ
    BY <2>2, <2>3 DEF NfwFirst
  <2>4. ASSUME NEW m, Label(m) # "nfw", Pushed(adapterQ', adapterQ, <<m>>)
        PROVE  NfwFirst'
    <3>1. ~Holds(<<m>>, "nfw")
      BY <2>4, OneJob
    <3>2. Holds(adapterQ', "nfw") <=> Holds(adapterQ, "nfw")
      BY <2>4, <3>1 DEF Pushed
    <3>3. Leads(adapterQ', "nfw")
      BY <2>4, <3>1 DEF Pushed, NfwFirst
    <3> QED  BY <2>2, <3>2, <3>3 DEF NfwFirst
  <2> QED  BY <2>1, <2>3, <2>4
<1>4. CASE ModemRestarts
  BY <1>4 DEF ModemRestarts, NfwFirst
<1>5. CASE UNCHANGED configVars
  BY <1>5 DEF configVars, NfwFirst
<1> QED  BY <1>1, <1>2, <1>3, <1>4, <1>5, CommandsAre DEF ConfigNext
LEMMA BaseInit ==
  ASSUME ConfigurationAssumption, ConfigInit
  PROVE  BaseInv
<1>1. Initially \in ConfValues
  BY InitialValue
<1>2. ConfigTyped
  <2>1. \A i \in ModemItems : nvram[i] \in SettingsOf(i)
    BY LocksFit DEF ConfigInit
  <2>2. {"MO", "NI"} \in Locks
    BY DEF Locks
  <2>3. conf \in [lock : Locks, supl : ConfValues, server : ConfValues, es : ConfValues]
    BY <1>1, <2>2 DEF ConfigInit
  <2>4. reopens \in 0 .. MaxReopens
    BY DEF ConfigInit, ConfigurationAssumption
  <2> QED  BY <1>1, <2>1, <2>2, <2>3, <2>4 DEF ConfigTyped, ConfigInit
<1> DEFINE o == [kind |-> "open"]
<1>3. Label(o) = "open" /\ JobOK(o)
  BY DEF Label, JobOK
<1>4. locApiQ = <<o>> /\ adapterQ = <<>> /\ heldConfigs = <<>>
  BY DEF ConfigInit
<1> HIDE DEF o
<1>5. IsSequence(locApiQ) /\ Range(locApiQ) = {o} /\ Once(locApiQ, "open") /\ Holds(locApiQ, "open")
  BY <1>3, <1>4, OneJob
<1>6. QueuesOK
  BY <1>3, <1>4, <1>5, NoJobs DEF QueuesOK
<1>7. UpInv
  BY <1>5 DEF UpInv, Reopens, ConfigInit
<1> QED  BY <1>2, <1>6, <1>7 DEF BaseInv

LEMMA BaseHandler ==
  ASSUME ConfigurationAssumption, BaseInv, AdapterRuns
  PROVE  BaseInv'
<1>1. adapterQ # <<>> /\ UNCHANGED <<nvram, modemOn, reopens>>
  BY DEF AdapterRuns
<1>2. CASE HandleUp
  BY <1>1, <1>2, BaseUp
<1>3. CASE Hold
  BY <1>1, <1>3, BaseHold
<1>4. CASE HandleConfig
  BY <1>1, <1>4, BaseConfig
<1>5. CASE HandleSvTypes
  BY <1>1, <1>5, BaseSvTypes
<1>6. CASE HandleSvConfig
  BY <1>1, <1>6, BaseSvConfig
<1>7. CASE HandleTunc
  BY <1>1, <1>7, BaseTunc
<1>8. CASE HandleEnable \/ HandleNfw \/ HandleAnswered
  BY <1>1, <1>8, BaseLock
<1> QED  BY <1>2, <1>3, <1>4, <1>5, <1>6, <1>7, <1>8 DEF AdapterRuns

LEMMA BaseStep ==
  ASSUME ConfigurationAssumption, BaseInv, [ConfigNext]_configVars
  PROVE  BaseInv'
<1>1. ASSUME NEW m, Commanded(m) PROVE BaseInv'
  BY <1>1, BaseCommand DEF Commanded
<1>2. CASE UNCHANGED configVars
  <2>1. QueuesOK' /\ ConfigTyped'
    BY <1>2 DEF BaseInv, QueuesOK, ConfigTyped, configVars
  <2>2. UpInv'
    BY <1>2 DEF BaseInv, UpInv, Reopens, configVars
  <2> QED  BY <2>1, <2>2 DEF BaseInv
<1> QED  BY <1>1, <1>2, CommandsAre, BaseHandler, BaseRun, BaseRestarts DEF ConfigNext

\* What the adapter alone decides is changed by its messages only.
LEMMA OwnedByAdapter ==
  ASSUME [ConfigNext]_configVars
  PROVE  AdapterRuns \/ UNCHANGED <<conf, svTypes, qLock, afw, engineKnown, heldConfigs, xtraLock,
                                    lastAnswer, lastSet>>
<1>1. ASSUME NEW m, Commanded(m)
      PROVE  UNCHANGED <<conf, svTypes, qLock, afw, engineKnown, heldConfigs, xtraLock,
                         lastAnswer, lastSet>>
  BY <1>1 DEF Commanded, Command
<1> QED  BY <1>1, CommandsAre DEF ConfigNext, LocApiRuns, ModemRestarts, configVars

LEMMA MoStep ==
  ASSUME ConfigurationAssumption, BaseInv, MoInv, [ConfigNext]_configVars
  PROVE  MoInv'
<1>1. ASSUME UNCHANGED <<conf, qLock, afw, xtraLock>> PROVE MoInv'
  BY <1>1 DEF MoInv
<1>2. CASE AdapterRuns /\ HandleConfig
  <2>1. ConfigTyped /\ MessageOK(Request)
    BY <1>2, TookRequest DEF BaseInv, AdapterRuns
  <2>2. /\ conf'.lock = IF "lock" \in Request.flags THEN LockOf(Request.v) ELSE conf.lock
        /\ "MO" \in LockOf(Request.v)
    BY <1>2, <2>1, ConfigConf
  <2>3. qLock' = (qLock /\ "lock" \notin Request.flags) /\ UNCHANGED <<afw, xtraLock>>
    BY <1>2 DEF HandleConfig
  <2> QED  BY <2>2, <2>3 DEF MoInv
<1>3. CASE AdapterRuns /\ HandleEnable
  <2> DEFINE on == Request.kind = "enable"
  <2>1. CASE afw = on
    BY <1>1, <1>3, <2>1 DEF HandleEnable
  <2>2. CASE afw # on
    <3>0. ConfigTyped /\ HandleEnable /\ on = (Request.kind = "enable") /\ afw # on
      BY <1>3, <2>2 DEF BaseInv
    <3>3. on \in BOOLEAN
      OBVIOUS
    <3> HIDE DEF on
    <3>1. /\ afw' = on
          /\ conf' = [conf EXCEPT !.lock = conf'.lock] /\ conf'.lock \in Locks
          /\ conf'.lock = LockFor(on)
          /\ xtraLock' = ModemLock'
      BY <3>0, EnableLocks
    <3>2. qLock' = qLock
      BY <1>3 DEF HandleEnable
    <3>4. ModemLock' = IF qLock \/ ~on THEN conf'.lock ELSE {}
      BY <3>1, <3>2 DEF ModemLock
    <3> QED  BY <3>1, <3>2, <3>3, <3>4 DEF MoInv, LockFor
  <2> QED  BY <2>1, <2>2
<1>4. CASE AdapterRuns /\ HandleNfw
  <2> DEFINE lock == IF Request.on THEN conf.lock \ {"NI"} ELSE conf.lock \cup {"NI"}
  <2>1. conf' = [conf EXCEPT !.lock = lock] /\ UNCHANGED <<qLock, afw, xtraLock>>
    BY <1>4 DEF HandleNfw
  <2>2. "MO" \in lock <=> "MO" \in conf.lock
    OBVIOUS
  <2> HIDE DEF lock
  <2>3. conf'.lock = lock
    BY <2>1 DEF BaseInv, ConfigTyped
  <2> QED  BY <2>1, <2>2, <2>3 DEF MoInv
<1>5. AdapterRuns => \/ HandleConfig \/ HandleEnable \/ HandleNfw
                     \/ UNCHANGED <<conf, qLock, afw, xtraLock>>
  BY DEF AdapterRuns, HandleUp, Hold, HandleSvTypes, HandleSvConfig, HandleTunc, HandleAnswered
<1> QED  BY <1>1, <1>2, <1>3, <1>4, <1>5, OwnedByAdapter

LockHeld == Reopens \/ HeldIn(locApiQ, nvram["lock"], "lock", ModemLock)

LEMMA LockHeldStep ==
  ASSUME ConfigurationAssumption, BaseInv, NfwFirst, LockHeld, [ConfigNext]_configVars
  PROVE  LockHeld'
<1>1. ASSUME NEW m, Commanded(m) PROVE LockHeld'
  <2>1. Pushed(adapterQ', adapterQ, <<m>>)
    BY <1>1, BaseCommand DEF Commanded
  <2>2. UNCHANGED <<locApiQ, nvram, conf, qLock, afw>>
    BY <1>1 DEF Commanded, Command
  <2>3. Stays /\ ModemLock' = ModemLock
    BY <2>1, <2>2, CommandStays DEF ModemLock
  <2> QED  BY <2>2, <2>3, GetsSame DEF LockHeld
<1>2. CASE AdapterRuns
  <2>1. adapterQ # <<>> /\ UNCHANGED <<nvram, modemOn, reopens>>
    BY <1>2 DEF AdapterRuns
  <2>2. CASE HandleUp
    <3>1. PICK a : UpAsks(a) /\ Pushed(locApiQ', locApiQ, a)
      BY <2>1, <2>2, BaseUp
    <3>2. ModemLock' = ModemLock
      BY <2>2 DEF HandleUp, ModemLock
    <3> QED  BY <3>1, <3>2, HeldSet DEF LockHeld, UpAsks, Supplies
  <2>3. ASSUME NEW a, Pushed(locApiQ', locApiQ, a), Popped(adapterQ', adapterQ),
               Request.kind # "engineUp",
               IF Setter(a, "lock") THEN SettledOn(a, "lock", ModemLock')
               ELSE ModemLock' = ModemLock
        PROVE  LockHeld'
    <3>1. Stays
      BY <2>1, <2>3, HandlerStays
    <3> QED  BY <2>1, <2>3, <3>1, GetsAsk DEF LockHeld
  <2>4. CASE HandleConfig
    <3>1. Request.kind # "engineUp"
      BY <2>4 DEF HandleConfig
    <3>2. PICK a : ConfigAsks(a) /\ Pushed(locApiQ', locApiQ, a)
      BY <2>1, <2>4, BaseConfig
    <3> QED  BY <2>1, <2>3, <2>4, <3>1, <3>2, BaseConfig DEF ConfigAsks
  <2>5. CASE HandleEnable \/ HandleNfw \/ HandleAnswered
    <3>1. Request.kind # "engineUp"
      BY <2>5 DEF HandleEnable, HandleNfw, HandleAnswered
    <3>2. Request.kind = "nfw" => qLock
      <4>1. MessageOK(Request)
        BY <2>1, TookRequest DEF BaseInv
      <4>2. Popped(adapterQ', adapterQ)
        BY <2>1, <2>5, BaseLock
      <4> QED  BY <4>1, <4>2, LabelsOf DEF Popped, NfwFirst, Request
    <3>3. PICK a : /\ Pushed(locApiQ', locApiQ, a)
                   /\ (Request.kind = "nfw" => qLock) =>
                        IF Setter(a, "lock") THEN SettledOn(a, "lock", ModemLock')
                        ELSE ModemLock' = ModemLock
      BY <2>1, <2>5, BaseLock
    <3>4. Popped(adapterQ', adapterQ)
      BY <2>1, <2>5, BaseLock
    <3> QED  BY <2>3, <3>1, <3>2, <3>3, <3>4
  <2>6. CASE Hold
    <3>1. Popped(adapterQ', adapterQ) /\ UNCHANGED locApiQ /\ Request.kind # "engineUp"
      BY <2>1, <2>6, BaseHold DEF Hold
    <3>2. Stays /\ ModemLock' = ModemLock
      BY <2>1, <2>6, <3>1, HandlerStays DEF Hold, ModemLock
    <3> QED  BY <2>1, <3>1, <3>2, GetsSame DEF LockHeld
  <2>7. ASSUME NEW a, Pushed(locApiQ', locApiQ, a), ~Setter(a, "lock"),
               HandleSvTypes \/ HandleSvConfig \/ HandleTunc, Popped(adapterQ', adapterQ)
        PROVE  LockHeld'
    <3>1. ModemLock' = ModemLock /\ Request.kind # "engineUp"
      BY <2>7 DEF HandleSvTypes, HandleSvConfig, HandleTunc, ModemLock
    <3> QED  BY <2>3, <2>7, <3>1
  <2>8. CASE HandleSvTypes
    <3>1. PICK a : Pushed(locApiQ', locApiQ, a) /\ SvTypesAsks(a)
      BY <2>1, <2>8, BaseSvTypes
    <3>2. ~Setter(a, "lock")
      BY <3>1 DEF SvTypesAsks, CallsOnly
    <3> QED  BY <2>1, <2>7, <2>8, <3>1, <3>2, BaseSvTypes
  <2>9. CASE HandleSvConfig
    <3>1. PICK a : Pushed(locApiQ', locApiQ, a) /\ SvConfigAsks(a)
      BY <2>1, <2>9, BaseSvConfig
    <3>2. ~Setter(a, "lock")
      BY <3>1 DEF SvConfigAsks, CallsOnly
    <3> QED  BY <2>1, <2>7, <2>9, <3>1, <3>2, BaseSvConfig
  <2>10. CASE HandleTunc
    <3>1. PICK a : Pushed(locApiQ', locApiQ, a) /\ \A i : Setter(a, i) <=> i = "tunc"
      BY <2>1, <2>10, BaseTunc
    <3>2. ~Setter(a, "lock")
      BY <3>1
    <3> QED  BY <2>1, <2>7, <2>10, <3>1, <3>2, BaseTunc
  <2> QED  BY <1>2, <2>2, <2>4, <2>5, <2>6, <2>8, <2>9, <2>10 DEF AdapterRuns
<1>3. CASE LocApiRuns
  <2>1. "lock" \in ModemItems /\ ModemLock' = ModemLock
    BY <1>3 DEF ModemItems, LocApiRuns, ModemLock
  <2> QED  BY <1>3, <2>1, GetsRun DEF LockHeld
<1>4. CASE ModemRestarts
  BY <1>4, BaseRestarts DEF LockHeld, Reopens
<1>5. CASE UNCHANGED configVars
  BY <1>5 DEF configVars, LockHeld, Reopens, ModemLock
<1> QED  BY <1>1, <1>2, <1>3, <1>4, <1>5, CommandsAre DEF ConfigNext
-----------------------------------------------------------------------------

\* What a message of the adapter but engineUp does to the queues: it asks for a.
HandledWith(a) ==
  /\ Popped(adapterQ', adapterQ) /\ Pushed(locApiQ', locApiQ, a)
  /\ \A x : Holds(a, x) => x \in {"ids", "config", "call", "tuncCall"}
  /\ Request.kind # "engineUp" /\ MessageOK(Request)
  /\ Stays
  /\ \/ HandleConfig /\ ConfigAsks(a)
     \/ HandleSvTypes /\ SvTypesAsks(a)
     \/ HandleSvConfig /\ SvConfigAsks(a)
     \/ HandleTunc /\ (\A i : Setter(a, i) <=> i = "tunc")
          /\ Supplies(a, "tunc", Request.v)
          /\ \A x : Holds(a, x) <=> x = "tuncCall"
     \/ (HandleEnable \/ HandleNfw \/ HandleAnswered) /\ (\A i : Setter(a, i) => i = "lock")
          /\ \A x : Holds(a, x) => x = "call"
     \/ Hold /\ (\A i : ~Setter(a, i)) /\ (\A x : ~Holds(a, x))

LEMMA AdapterHandled ==
  ASSUME ConfigurationAssumption, BaseInv, AdapterRuns, ~HandleUp
  PROVE  \E a : HandledWith(a)
<1>1. adapterQ # <<>> /\ UNCHANGED <<nvram, modemOn, reopens>>
  BY DEF AdapterRuns
<1>2. Popped(adapterQ', adapterQ) /\ MessageOK(Request) /\ Request.kind # "engineUp"
  <2>1. adapterQ' = Tail(adapterQ) /\ Request.kind # "engineUp"
    BY DEF AdapterRuns, Hold, HandleConfig, HandleSvTypes, HandleSvConfig, HandleTunc,
           HandleEnable, HandleNfw, HandleAnswered
  <2> QED  BY <1>1, <2>1, TookRequest DEF BaseInv
<1>3. \A a : Pushed(locApiQ', locApiQ, a) => Stays
  BY <1>1, <1>2, HandlerStays
<1>4. CASE HandleConfig
  <2>1. PICK a : ConfigAsks(a) /\ Pushed(locApiQ', locApiQ, a)
    BY <1>1, <1>4, BaseConfig
  <2>2. HandledWith(a)
    BY <1>2, <1>3, <1>4, <2>1 DEF HandledWith, ConfigAsks, Asks
  <2> QED  BY <2>2
<1>5. CASE HandleSvTypes
  <2>1. PICK a : Pushed(locApiQ', locApiQ, a) /\ SvTypesAsks(a)
    BY <1>1, <1>5, BaseSvTypes
  <2>2. \A x : Holds(a, x) => x = "call"
    BY <2>1 DEF SvTypesAsks, CallsOnly
  <2>3. HandledWith(a)
    BY <1>2, <1>3, <1>5, <2>1, <2>2 DEF HandledWith
  <2> QED  BY <2>3
<1>6. CASE HandleSvConfig
  <2>1. PICK a : Pushed(locApiQ', locApiQ, a) /\ SvConfigAsks(a)
    BY <1>1, <1>6, BaseSvConfig
  <2>2. \A x : Holds(a, x) => x = "call"
    BY <2>1 DEF SvConfigAsks, CallsOnly
  <2>3. HandledWith(a)
    BY <1>2, <1>3, <1>6, <2>1, <2>2 DEF HandledWith
  <2> QED  BY <2>3
<1>7. CASE HandleTunc
  <2>1. PICK a : /\ Pushed(locApiQ', locApiQ, a)
                 /\ Asks(a)
                 /\ \A x : Holds(a, x) <=> x = "tuncCall"
                 /\ \A i : Setter(a, i) <=> i = "tunc"
                 /\ Supplies(a, "tunc", Request.v)
    BY <1>1, <1>7, BaseTunc
  <2>2. HandledWith(a)
    BY <1>2, <1>3, <1>7, <2>1 DEF HandledWith
  <2> QED  BY <2>2
<1>8. CASE HandleEnable \/ HandleNfw \/ HandleAnswered
  <2>1. PICK a : /\ Pushed(locApiQ', locApiQ, a)
                 /\ \A x : Holds(a, x) => x = "call"
                 /\ \A i : Setter(a, i) => i = "lock"
    BY <1>1, <1>8, BaseLock
  <2>2. HandledWith(a)
    BY <1>2, <1>3, <1>8, <2>1 DEF HandledWith
  <2> QED  BY <2>2
<1>9. CASE Hold
  <2>1. locApiQ' = locApiQ \o <<>> /\ IsSequence(locApiQ)
    BY <1>9, NothingAsked DEF Hold, BaseInv, QueuesOK
  <2>2. Pushed(locApiQ', locApiQ, <<>>)
    BY <2>1, NoJobs, Pushes
  <2>3. HandledWith(<<>>)
    BY <1>2, <1>3, <1>9, <2>2, NoJobs DEF HandledWith
  <2> QED  BY <2>3
<1> QED  BY <1>4, <1>5, <1>6, <1>7, <1>8, <1>9 DEF AdapterRuns

-----------------------------------------------------------------------------

\* The items that have a value of their own, where they are passed on.
ItemHeld(i) == Reopens \/ HeldIn(locApiQ, nvram[i], i, conf[i])

LEMMA ItemHeldStep ==
  ASSUME ConfigurationAssumption, BaseInv, Inject, NEW i \in {"supl", "server"}, ItemHeld(i),
         [ConfigNext]_configVars
  PROVE  ItemHeld(i)'
<1>1. ASSUME NEW m, Commanded(m) PROVE ItemHeld(i)'
  <2>1. Pushed(adapterQ', adapterQ, <<m>>)
    BY <1>1, BaseCommand DEF Commanded
  <2>2. UNCHANGED <<locApiQ, nvram, conf>>
    BY <1>1 DEF Commanded, Command
  <2> QED  BY <2>1, <2>2, CommandStays, GetsSame DEF ItemHeld
<1>2. CASE AdapterRuns
  <2>1. adapterQ # <<>> /\ UNCHANGED <<nvram, modemOn, reopens>>
    BY <1>2 DEF AdapterRuns
  <2>2. CASE HandleUp
    <3>1. PICK a : UpAsks(a) /\ Pushed(locApiQ', locApiQ, a)
      BY <2>1, <2>2, BaseUp
    <3>2. conf'[i] = conf[i]
      BY <2>2 DEF HandleUp
    <3>3. SettledOn(a, i, conf[i]) /\ Setter(a, i)
      BY <3>1 DEF UpAsks, Supplies
    <3> QED  BY <3>1, <3>2, <3>3, HeldSet DEF ItemHeld
  <2>3. CASE ~HandleUp
    <3>1. PICK a : HandledWith(a)
      BY <1>2, <2>3, AdapterHandled
    <3>2. IF Setter(a, i) THEN SettledOn(a, i, conf'[i]) ELSE conf'[i] = conf[i]
      <4>1. CASE HandleConfig /\ ConfigAsks(a)
        BY <4>1 DEF ConfigAsks
      <4>2. CASE ~Setter(a, i) /\ UNCHANGED conf
        BY <4>2
      <4>3. CASE ~Setter(a, i) /\ (HandleEnable \/ HandleNfw)
        <5>1. conf'[i] = conf[i]
          BY <4>3 DEF HandleEnable, HandleNfw, BaseInv, ConfigTyped
        <5> QED  BY <4>3, <5>1
      <4> QED  BY <3>1, <4>1, <4>2, <4>3
               DEF HandledWith, HandleSvTypes, HandleSvConfig, HandleTunc, HandleAnswered, Hold,
                   SvTypesAsks, SvConfigAsks, CallsOnly
    <3> QED  BY <2>1, <3>1, <3>2, GetsAsk DEF HandledWith, ItemHeld
  <2> QED  BY <2>2, <2>3
<1>3. CASE LocApiRuns
  <2>1. i \in ModemItems /\ i # "tunc" /\ conf'[i] = conf[i]
    BY <1>3 DEF ModemItems, LocApiRuns
  <2> QED  BY <1>3, <2>1, GetsRun DEF ItemHeld
<1>4. CASE ModemRestarts
  BY <1>4, BaseRestarts DEF ItemHeld, Reopens
<1>5. CASE UNCHANGED configVars
  BY <1>5 DEF configVars, ItemHeld, Reopens
<1> QED  BY <1>1, <1>2, <1>3, <1>4, <1>5, CommandsAre DEF ConfigNext

-----------------------------------------------------------------------------

\* The constellations.  Those of the modem itself are not set again after a restart.
Sent == TypesSent(svTypes)
TypesHeld ==
  \/ Reopens /\ Sent # Default
  \/ HeldIn(locApiQ, nvram["types"], "types", Sent)

LEMMA TypesHeldStep ==
  ASSUME ConfigurationAssumption, BaseInv, ~SetsTypes, TypesHeld, [ConfigNext]_configVars
  PROVE  TypesHeld'
<1>1. ASSUME NEW m, Commanded(m) PROVE TypesHeld'
  <2>1. Pushed(adapterQ', adapterQ, <<m>>)
    BY <1>1, BaseCommand DEF Commanded
  <2>2. UNCHANGED <<locApiQ, nvram>> /\ Sent' = Sent
    BY <1>1 DEF Commanded, Command, Sent
  <2> QED  BY <2>1, <2>2, CommandStays DEF TypesHeld, Stays
<1>2. CASE AdapterRuns
  <2>1. adapterQ # <<>> /\ UNCHANGED <<nvram, modemOn, reopens>>
    BY <1>2 DEF AdapterRuns
  <2>2. CASE HandleUp
    <3>1. PICK a : UpAsks(a) /\ Pushed(locApiQ', locApiQ, a)
      BY <2>1, <2>2, BaseUp
    <3>2. Sent' = Sent
      BY <2>2 DEF HandleUp, Sent
    <3>3. CASE EnabledIn(svTypes) = {}
      <4>1. ~Setter(a, "types") /\ Sent = Default
        BY <3>1, <3>3, SvTypesFit DEF UpAsks, Sent
      <4>2. HeldIn(locApiQ', nvram["types"], "types", Sent)
        BY <3>1, <4>1, HeldAsk DEF TypesHeld
      <4> QED  BY <2>1, <3>2, <4>2 DEF TypesHeld
    <3>4. CASE EnabledIn(svTypes) # {}
      <4>1. HeldIn(locApiQ', nvram["types"], "types", Sent)
        BY <3>1, <3>4, HeldSet DEF UpAsks, Supplies, Sent
      <4> QED  BY <2>1, <3>2, <4>1 DEF TypesHeld
    <3> QED  BY <3>3, <3>4
  <2>3. CASE ~HandleUp
    <3>1. PICK a : HandledWith(a)
      BY <1>2, <2>3, AdapterHandled
    <3>2. CASE Supplies(a, "types", Sent')
      <4>1. HeldIn(locApiQ', nvram["types"], "types", Sent')
        BY <3>1, <3>2, HeldSet DEF HandledWith, Supplies
      <4> QED  BY <2>1, <4>1 DEF TypesHeld
    <3>3. CASE ~Setter(a, "types") /\ Sent' = Sent
      <4>1. CASE Reopens /\ Sent # Default
        BY <3>1, <3>3, <4>1 DEF HandledWith, Stays, TypesHeld
      <4>2. CASE HeldIn(locApiQ, nvram["types"], "types", Sent)
        <5>1. HeldIn(locApiQ', nvram["types"], "types", Sent)
          BY <3>1, <3>3, <4>2, HeldAsk DEF HandledWith
        <5> QED  BY <2>1, <3>3, <5>1 DEF TypesHeld
      <4> QED  BY <4>1, <4>2 DEF TypesHeld
    <3>4. ~HandleSvTypes /\ ~HandleSvConfig => UNCHANGED svTypes
      BY <1>2 DEF AdapterRuns, HandleUp, Hold, HandleConfig, HandleTunc, HandleEnable, HandleNfw,
                  HandleAnswered
    <3>5. CASE HandleSvTypes /\ SvTypesAsks(a)
      BY <3>2, <3>3, <3>5 DEF SvTypesAsks, Supplies, Sent
    <3>6. CASE HandleSvConfig /\ SvConfigAsks(a)
      <4>1. Request.w = Default /\ svTypes' = Request.w
        BY <3>1, <3>6 DEF HandleSvConfig, HandledWith, MessageOK
      <4>2. Sent' = Default
        BY <4>1, SvTypesFit DEF Sent
      <4> QED  BY <3>2, <3>6, <4>1, <4>2 DEF SvConfigAsks
    <3>7. CASE ~HandleSvTypes /\ ~HandleSvConfig
      <4>1. ~Setter(a, "types")
        BY <3>1, <3>7 DEF HandledWith, ConfigAsks
      <4> QED  BY <3>3, <3>4, <3>7, <4>1 DEF Sent
    <3>8. ~(HandleSvTypes /\ ~SvTypesAsks(a)) /\ ~(HandleSvConfig /\ ~SvConfigAsks(a))
      BY <3>1 DEF HandledWith, HandleConfig, HandleSvTypes, HandleSvConfig, HandleTunc,
                  HandleEnable, HandleNfw, HandleAnswered, Hold
    <3> QED  BY <3>5, <3>6, <3>7, <3>8
  <2> QED  BY <2>2, <2>3
<1>3. CASE LocApiRuns
  <2>1. "types" \in ModemItems /\ Sent' = Sent
    BY <1>3 DEF ModemItems, LocApiRuns, Sent
  <2>2. CASE Reopens /\ Sent # Default
    BY <1>3, <2>1, <2>2, RunStays DEF Stays, TypesHeld
  <2>3. CASE HeldIn(locApiQ, nvram["types"], "types", Sent)
    <3>1. CASE modemOn \/ Sent = Default
      BY <1>3, <2>1, <2>3, <3>1, HeldRun DEF TypesHeld
    <3>2. CASE ~modemOn /\ Sent # Default
      BY <2>2, <3>2 DEF BaseInv, UpInv, Reopens
    <3> QED  BY <3>1, <3>2
  <2> QED  BY <2>2, <2>3 DEF TypesHeld
<1>4. CASE ModemRestarts
  <2>1. Reopens' /\ Sent' = Sent
    BY <1>4, BaseRestarts DEF ModemRestarts, Reopens, Sent
  <2>2. CASE Sent = Default
    <3>1. HeldIn(locApiQ, nvram["types"], "types", Sent)
      BY <2>2 DEF TypesHeld
    <3>2. nvram'["types"] = Default
      BY <1>4 DEF ModemRestarts, ModemItems
    <3>3. SettledOn(locApiQ', "types", Sent)
      BY <1>4, <3>1, BaseRestarts DEF Pushed, HeldIn
    <3> QED  BY <2>1, <2>2, <3>2, <3>3 DEF TypesHeld, HeldIn
  <2> QED  BY <2>1, <2>2 DEF TypesHeld
<1>5. CASE UNCHANGED configVars
  BY <1>5 DEF configVars, TypesHeld, Reopens, Sent
<1> QED  BY <1>1, <1>2, <1>3, <1>4, <1>5, CommandsAre DEF ConfigNext
-----------------------------------------------------------------------------

\* The blacklist: in what order its commands, those for satellites and the messages of a
\* restart can be queued.
IdsOrder ==
  /\ Holds(adapterQ, "ids") => ~Reopens /\ ~Holds(locApiQ, "ids") /\ ~Holds(locApiQ, "inject")
  /\ Once(adapterQ, "ids")
  /\ Ordered(adapterQ, "svs", "ids")
  /\ Holds(adapterQ, "svs") =>
       engineKnown /\ ~Holds(locApiQ, "ids") /\ ~Holds(locApiQ, "inject")
  /\ Ordered(adapterQ, "svs", "engineUp")
  /\ Holds(locApiQ, "ids") =>
       ~Holds(locApiQ, "inject") /\ ~Holds(adapterQ, "engineUp") /\ ~Holds(adapterQ, "svs")
  /\ Once(locApiQ, "ids")
  /\ Ordered(locApiQ, "ids", "open")
  /\ ~Holds(heldConfigs, "ids") /\ ~Holds(heldConfigs, "svs")

LEMMA RangeHas ==
  ASSUME NEW q
  PROVE  \A j \in Range(q) : Holds(q, Label(j))
BY DEF Range, Holds

LEMMA IdsOrderCommand ==
  ASSUME "ids" \notin Overlap, BaseInv, IdsOrder, NEW m, Commanded(m)
  PROVE  IdsOrder'
<1>1. Pushed(adapterQ', adapterQ, <<m>>)
  BY BaseCommand DEF Commanded
<1>2. UNCHANGED <<locApiQ, heldConfigs, engineKnown>>
  BY DEF Commanded, Command
<1>3. /\ \A x : Holds(<<m>>, x) <=> Label(m) = x
      /\ \A x, y : Ordered(<<m>>, x, y) <=> ~(Label(m) = x /\ Label(m) = y)
      /\ \A x : Once(<<m>>, x)
  BY OneJob
<1>4. Label(m) # "engineUp"
  BY DEF Commanded
<1>5. /\ \A x : Holds(adapterQ', x) <=> Holds(adapterQ, x) \/ Label(m) = x
      /\ Reopens' <=> Reopens
  BY <1>1, <1>2, <1>3, <1>4 DEF Pushed, Reopens
<1>6. Ordered(adapterQ, "svs", "engineUp") => Ordered(adapterQ', "svs", "engineUp")
  <2>1. CASE Label(m) # "svs"
    BY <1>1, <1>3, <2>1 DEF Pushed
  <2>2. CASE Label(m) = "svs"
    <3>1. Calm("ids")
      BY <2>2 DEF Commanded
    <3>2. ~Reopens
      BY <3>1, CalmIs DEF BaseInv
    <3> QED  BY <1>1, <1>3, <2>2, <3>2 DEF Pushed, Reopens
  <2> QED  BY <2>1, <2>2
<1>7. CASE Label(m) \notin {"ids", "svs"}
  <2>1. Once(adapterQ', "ids") /\ Ordered(adapterQ', "svs", "ids")
    BY <1>1, <1>3, <1>7 DEF Pushed, IdsOrder
  <2> QED  BY <1>2, <1>4, <1>5, <1>6, <1>7, <2>1 DEF IdsOrder
<1>8. CASE Label(m) \in {"ids", "svs"}
  <2>1. Calm("ids")
    BY <1>8 DEF Commanded
  <2>2. /\ ~Reopens /\ engineKnown
        /\ ~Holds(locApiQ, "ids") /\ ~Holds(locApiQ, "inject") /\ ~Holds(adapterQ, "ids")
    BY <2>1, CalmIs DEF BaseInv
  <2>3. Once(adapterQ', "ids")
    BY <1>1, <1>3, <2>2 DEF Pushed
  <2>4. Ordered(adapterQ', "svs", "ids")
    BY <1>1, <1>3, <2>2 DEF Pushed
  <2> QED  BY <1>2, <1>4, <1>5, <1>6, <2>2, <2>3, <2>4 DEF IdsOrder
<1> QED  BY <1>7, <1>8

LEMMA IdsOrderUp ==
  ASSUME BaseInv, IdsOrder, AdapterRuns, HandleUp
  PROVE  /\ IdsOrder' /\ ~Holds(locApiQ, "ids")
<1>1. PICK t : Popped(t, adapterQ) /\ Pushed(adapterQ', t, heldConfigs)
  BY BaseUp DEF AdapterRuns
<1>2. PICK a : UpAsks(a) /\ Pushed(locApiQ', locApiQ, a)
  BY BaseUp DEF AdapterRuns
<1>3. Label(Head(adapterQ)) = "engineUp"
  BY RequestOK, LabelsOf DEF BaseInv, AdapterRuns, HandleUp, Request
<1>4. Holds(adapterQ, "engineUp") /\ Reopens
  BY <1>1, <1>3 DEF Popped, Reopens
<1>5. ~Holds(adapterQ, "svs") /\ ~Holds(adapterQ, "ids") /\ ~Holds(locApiQ, "ids")
  BY <1>1, <1>3, <1>4 DEF Popped, IdsOrder
<1>6. ~Holds(adapterQ', "ids") /\ ~Holds(adapterQ', "svs")
  BY <1>1, <1>5 DEF Popped, Pushed, IdsOrder
<1>7. ~Holds(locApiQ', "ids")
  BY <1>2, <1>5 DEF Pushed, UpAsks
<1>8. ~Holds(heldConfigs', "ids") /\ ~Holds(heldConfigs', "svs")
  BY NoJobs DEF HandleUp
<1> QED  BY <1>5, <1>6, <1>7, <1>8, NoneOrdered DEF IdsOrder

LEMMA IdsOrderHandled ==
  ASSUME BaseInv, IdsOrder, AdapterRuns, NEW a, HandledWith(a)
  PROVE  IdsOrder'
<1>1. /\ Popped(adapterQ', adapterQ) /\ Pushed(locApiQ', locApiQ, a)
      /\ \A x : Holds(a, x) => x \in {"ids", "config", "call", "tuncCall"}
      /\ Request.kind # "engineUp" /\ MessageOK(Request)
  BY DEF HandledWith
<1>2. \A x : Holds(adapterQ', x) => Holds(adapterQ, x)
  BY <1>1 DEF Popped
<1>3. Reopens' => Reopens
  BY <1>1, <1>2 DEF Pushed, Reopens
<1>4. UNCHANGED engineKnown
  BY <1>1 DEF AdapterRuns, HandleUp, Hold, HandleConfig, HandleSvTypes, HandleSvConfig,
              HandleTunc, HandleEnable, HandleNfw, HandleAnswered
<1>5. Once(adapterQ', "ids") /\ Ordered(adapterQ', "svs", "ids")
      /\ Ordered(adapterQ', "svs", "engineUp")
  BY <1>1 DEF Popped, IdsOrder
<1>6. Holds(locApiQ', "inject") <=> Holds(locApiQ, "inject")
  BY <1>1 DEF Pushed
<1>7. ~Holds(heldConfigs', "ids") /\ ~Holds(heldConfigs', "svs")
  <2>1. CASE Hold
    <3>1. Pushed(heldConfigs', heldConfigs, <<Request>>)
      BY <2>1, BaseHold DEF AdapterRuns
    <3>2. \A x : Holds(<<Request>>, x) <=> Label(Request) = x
      BY OneJob
    <3>3. Holds(adapterQ, Label(Request))
      BY <1>1 DEF Popped, Request
    <3>4. Label(Request) # "ids" /\ Label(Request) # "svs"
      BY <2>1, <3>3 DEF Hold, IdsOrder, BaseInv, UpInv
    <3> QED  BY <3>1, <3>2, <3>4 DEF Pushed, IdsOrder
  <2>2. CASE ~Hold
    <3>1. UNCHANGED heldConfigs
      BY <1>1, <2>2 DEF AdapterRuns, HandleUp, HandleConfig, HandleSvTypes, HandleSvConfig,
                        HandleTunc, HandleEnable, HandleNfw, HandleAnswered
    <3> QED  BY <3>1 DEF IdsOrder
  <2> QED  BY <2>1, <2>2
<1>8. CASE ~Holds(a, "ids")
  <2>1. /\ Holds(locApiQ', "ids") <=> Holds(locApiQ, "ids")
        /\ Once(locApiQ', "ids") /\ Ordered(locApiQ', "ids", "open")
    BY <1>1, <1>8 DEF Pushed, IdsOrder
  <2> QED  BY <1>2, <1>3, <1>4, <1>5, <1>6, <1>7, <2>1 DEF IdsOrder
<1>9. CASE Holds(a, "ids")
  <2>1. HandleConfig /\ ConfigAsks(a)
    BY <1>9 DEF HandledWith, SvTypesAsks, SvConfigAsks, CallsOnly
  <2>2. "ids" \in Request.flags /\ Once(a, "ids")
    BY <1>9, <2>1 DEF ConfigAsks
  <2>3. Label(Head(adapterQ)) = "ids"
    BY <1>1, <2>1, <2>2, LabelsOf DEF HandleConfig, Request
  <2>4. Holds(adapterQ, "ids")
    BY <1>1, <2>3 DEF Popped
  <2>5. /\ ~Reopens /\ ~Holds(locApiQ, "ids") /\ ~Holds(locApiQ, "inject")
        /\ ~Holds(adapterQ', "ids") /\ ~Holds(adapterQ, "svs")
    BY <1>1, <2>3, <2>4 DEF Popped, IdsOrder
  <2>6. Once(locApiQ', "ids")
    BY <1>1, <2>2, <2>5 DEF Pushed
  <2>7. Ordered(locApiQ', "ids", "open")
    <3>1. Ordered(a, "ids", "open")
      <4>1. ~Holds(a, "open")
        BY <1>1
      <4> QED  BY <4>1, NoneOrdered
    <3> QED  BY <1>1, <2>5, <3>1 DEF Pushed, Reopens
  <2>8. ~Holds(adapterQ', "engineUp") /\ ~Holds(adapterQ', "svs") /\ ~Holds(locApiQ', "inject")
    BY <1>2, <1>6, <2>5 DEF Reopens
  <2> QED  BY <1>5, <1>7, <2>5, <2>6, <2>7, <2>8 DEF IdsOrder
<1> QED  BY <1>8, <1>9

\* The queues after a job of LocApi.
LEMMA RunHas ==
  ASSUME BaseInv, LocApiRuns
  PROVE  /\ JobOK(Job) /\ Job \in Range(locApiQ)
         /\ \A x : x # "loadTunc" => (Holds(locApiQ, x) <=> Label(Job) = x \/ Holds(locApiQ', x))
         /\ Job.kind # "inject" =>
              (Holds(locApiQ, "loadTunc") <=>
                 Label(Job) = "loadTunc" \/ Holds(locApiQ', "loadTunc"))
         /\ \A x : x # "loadTunc" /\ Once(locApiQ, x) =>
                     Once(locApiQ', x) /\ (Label(Job) = x => ~Holds(locApiQ', x))
         /\ \A x, y : y # "loadTunc" /\ Ordered(locApiQ, x, y) =>
                        Ordered(locApiQ', x, y) /\ (Label(Job) = y => ~Holds(locApiQ, x))
         /\ \A j \in Range(locApiQ') :
              j \in Range(locApiQ) \/ (Label(j) = "loadTunc" /\ j.first = (tunc = Default))
<1>1. JobOK(Job)
  BY RunQueues
<1>2. PICK t : /\ Popped(t, locApiQ)
               /\ Job.kind # "inject" => locApiQ' = t
               /\ Job.kind = "inject" =>
                    \E l : /\ Label(l) = "loadTunc" /\ l.first = (tunc = Default)
                           /\ Pushed(locApiQ', <<l>>, t)
  BY RunQueues
<1>3. /\ Head(locApiQ) \in Range(locApiQ) /\ Range(t) \subseteq Range(locApiQ)
      /\ \A x : Holds(locApiQ, x) <=> Label(Head(locApiQ)) = x \/ Holds(t, x)
      /\ \A x, y : Ordered(locApiQ, x, y) => Ordered(t, x, y)
      /\ \A x, y : Ordered(locApiQ, x, y) /\ Label(Head(locApiQ)) = y => ~Holds(locApiQ, x)
      /\ \A x : Once(locApiQ, x) => Once(t, x)
      /\ \A x : Once(locApiQ, x) /\ Label(Head(locApiQ)) = x => ~Holds(t, x)
  BY <1>2 DEF Popped
<1>4. Job = Head(locApiQ)
  BY DEF Job
<1>5. /\ \A x : x # "loadTunc" => (Holds(locApiQ', x) <=> Holds(t, x))
      /\ \A x : x # "loadTunc" /\ Once(t, x) => Once(locApiQ', x)
      /\ \A x, y : y # "loadTunc" /\ Ordered(t, x, y) => Ordered(locApiQ', x, y)
      /\ \A j \in Range(locApiQ') :
           j \in Range(t) \/ (Label(j) = "loadTunc" /\ j.first = (tunc = Default))
  <2>1. CASE Job.kind # "inject"
    <3>1. locApiQ' = t
      BY <1>2, <2>1
    <3> QED  BY <3>1
  <2>2. CASE Job.kind = "inject"
    <3>1. PICK l : /\ Label(l) = "loadTunc" /\ l.first = (tunc = Default)
                   /\ Pushed(locApiQ', <<l>>, t)
      BY <1>2, <2>2
    <3>2. Range(<<l>>) = {l} /\ \A x : Holds(<<l>>, x) <=> Label(l) = x
      BY OneJob
    <3>3. \A x : x # "loadTunc" => (Holds(locApiQ', x) <=> Holds(t, x))
      BY <3>1, <3>2 DEF Pushed
    <3>4. \A x : x # "loadTunc" /\ Once(t, x) => Once(locApiQ', x)
      BY <3>1, <3>2 DEF Pushed
    <3>5. \A x, y : y # "loadTunc" /\ Ordered(t, x, y) => Ordered(locApiQ', x, y)
      BY <3>1, <3>2 DEF Pushed
    <3>6. \A j \in Range(locApiQ') : j \in Range(t) \/ j = l
      BY <3>1, <3>2 DEF Pushed
    <3>7. \A j \in Range(locApiQ') :
            j \in Range(t) \/ (Label(j) = "loadTunc" /\ j.first = (tunc = Default))
      BY <3>1, <3>6
    <3> QED  BY <3>3, <3>4, <3>5, <3>7
  <2> QED  BY <2>1, <2>2
<1>6. \A x : x # "loadTunc" => (Holds(locApiQ, x) <=> Label(Job) = x \/ Holds(locApiQ', x))
  BY <1>3, <1>4, <1>5
<1>7. Job.kind # "inject" =>
        (Holds(locApiQ, "loadTunc") <=> Label(Job) = "loadTunc" \/ Holds(locApiQ', "loadTunc"))
  BY <1>2, <1>3, <1>4
<1>8. \A x : x # "loadTunc" /\ Once(locApiQ, x) =>
               Once(locApiQ', x) /\ (Label(Job) = x => ~Holds(locApiQ', x))
  BY <1>3, <1>4, <1>5
<1>9. \A x, y : y # "loadTunc" /\ Ordered(locApiQ, x, y) =>
                  Ordered(locApiQ', x, y) /\ (Label(Job) = y => ~Holds(locApiQ, x))
  BY <1>3, <1>4, <1>5
<1>10. \A j \in Range(locApiQ') :
         j \in Range(locApiQ) \/ (Label(j) = "loadTunc" /\ j.first = (tunc = Default))
  BY <1>3, <1>5
<1> QED  BY <1>1, <1>3, <1>4, <1>6, <1>7, <1>8, <1>9, <1>10

\* What LocApi tells the adapter.
LEMMA RunTells ==
  ASSUME BaseInv, LocApiRuns
  PROVE  /\ \A x : x \notin {"engineUp", "answer"} =>
                     /\ Holds(adapterQ', x) <=> Holds(adapterQ, x)
                     /\ Once(adapterQ, x) => Once(adapterQ', x)
                     /\ \A y : Ordered(adapterQ, x, y) => Ordered(adapterQ', x, y)
         /\ Holds(adapterQ', "engineUp") => Holds(adapterQ, "engineUp") \/ Job.kind = "open"
<1>1. CASE UNCHANGED adapterQ
  BY <1>1
<1>2. ASSUME NEW m, Label(m) \in {"engineUp", "answer"}, Pushed(adapterQ', adapterQ, <<m>>)
      PROVE  \A x : x \notin {"engineUp", "answer"} =>
                      /\ Holds(adapterQ', x) <=> Holds(adapterQ, x)
                      /\ Once(adapterQ, x) => Once(adapterQ', x)
                      /\ \A y : Ordered(adapterQ, x, y) => Ordered(adapterQ', x, y)
  <2>1. \A x : Holds(<<m>>, x) <=> Label(m) = x
    BY OneJob
  <2> QED  BY <1>2, <2>1 DEF Pushed
<1>3. ASSUME NEW m, Label(m) = "answer", Pushed(adapterQ', adapterQ, <<m>>)
      PROVE  Holds(adapterQ', "engineUp") => Holds(adapterQ, "engineUp")
  <2>1. \A x : Holds(<<m>>, x) <=> Label(m) = x
    BY OneJob
  <2> QED  BY <1>3, <2>1 DEF Pushed
<1>4. CASE Job.kind = "open"
  <2>1. PICK m : Label(m) = "engineUp" /\ Pushed(adapterQ', adapterQ, <<m>>)
    BY <1>4, RunQueues
  <2> QED  BY <1>2, <1>4, <2>1
<1>5. CASE Job.kind # "open"
  <2>1. CASE UNCHANGED adapterQ
    BY <1>1, <2>1
  <2>2. CASE \E m : Label(m) = "answer" /\ Pushed(adapterQ', adapterQ, <<m>>)
    <3>1. PICK m : Label(m) = "answer" /\ Pushed(adapterQ', adapterQ, <<m>>)
      BY <2>2
    <3> QED  BY <1>2, <1>3, <3>1
  <2> QED  BY <1>5, <2>1, <2>2, RunQueues
<1> QED  BY <1>4, <1>5

LEMMA IdsOrderRun ==
  ASSUME BaseInv, IdsOrder, LocApiRuns
  PROVE  IdsOrder'
<1>1. /\ JobOK(Job)
      /\ \A x : x # "loadTunc" => (Holds(locApiQ, x) <=> Label(Job) = x \/ Holds(locApiQ', x))
      /\ \A x : x # "loadTunc" /\ Once(locApiQ, x) => Once(locApiQ', x)
      /\ \A x, y : y # "loadTunc" /\ Ordered(locApiQ, x, y) =>
                     Ordered(locApiQ', x, y) /\ (Label(Job) = y => ~Holds(locApiQ, x))
  BY RunHas
<1>2. /\ \A x : x \notin {"engineUp", "answer"} =>
                     /\ Holds(adapterQ', x) <=> Holds(adapterQ, x)
                     /\ Once(adapterQ, x) => Once(adapterQ', x)
                     /\ \A y : Ordered(adapterQ, x, y) => Ordered(adapterQ', x, y)
      /\ Holds(adapterQ', "engineUp") => Holds(adapterQ, "engineUp") \/ Job.kind = "open"
  BY RunTells
<1>3. UNCHANGED <<heldConfigs, engineKnown>>
  BY DEF LocApiRuns
<1>4. Job.kind = "open" => Label(Job) = "open"
  BY DEF Label
<1>5. ~Reopens => ~Reopens'
  BY <1>1, <1>2, <1>4 DEF Reopens
<1>6. Holds(locApiQ', "ids") => Holds(locApiQ, "ids") /\ Job.kind # "open"
  BY <1>1, <1>4 DEF IdsOrder
<1>7. Holds(locApiQ', "inject") => Holds(locApiQ, "inject")
  BY <1>1
<1>8. Once(locApiQ', "ids") /\ Ordered(locApiQ', "ids", "open")
  BY <1>1 DEF IdsOrder
<1>9. /\ Once(adapterQ', "ids") /\ Ordered(adapterQ', "svs", "ids")
      /\ Ordered(adapterQ', "svs", "engineUp")
      /\ Holds(adapterQ', "ids") <=> Holds(adapterQ, "ids")
      /\ Holds(adapterQ', "svs") <=> Holds(adapterQ, "svs")
  BY <1>2 DEF IdsOrder
<1> QED  BY <1>2, <1>3, <1>5, <1>6, <1>7, <1>8, <1>9 DEF IdsOrder

LEMMA IdsOrderStep ==
  ASSUME ConfigurationAssumption, "ids" \notin Overlap, BaseInv, IdsOrder,
         [ConfigNext]_configVars
  PROVE  IdsOrder'
<1>1. CASE ModemRestarts
  <2>1. /\ Pushed(locApiQ', locApiQ, <<[kind |-> "open"]>>)
        /\ \A x : Holds(<<[kind |-> "open"]>>, x) <=> x = "open"
        /\ ~Holds(adapterQ, "ids")
    BY <1>1, BaseRestarts
  <2>2. UNCHANGED <<adapterQ, heldConfigs, engineKnown>>
    BY <1>1 DEF ModemRestarts
  <2>3. /\ Holds(locApiQ', "ids") <=> Holds(locApiQ, "ids")
        /\ Holds(locApiQ', "inject") <=> Holds(locApiQ, "inject")
        /\ Once(locApiQ', "ids") /\ Ordered(locApiQ', "ids", "open")
    BY <2>1 DEF Pushed, IdsOrder
  <2>4. /\ \A x : Holds(adapterQ', x) <=> Holds(adapterQ, x)
        /\ \A x : Holds(heldConfigs', x) <=> Holds(heldConfigs, x)
        /\ Once(adapterQ', "ids") /\ Ordered(adapterQ', "svs", "ids")
        /\ Ordered(adapterQ', "svs", "engineUp")
    BY <2>2 DEF IdsOrder
  <2> QED  BY <2>1, <2>2, <2>3, <2>4 DEF IdsOrder
<1>2. CASE UNCHANGED configVars
  BY <1>2 DEF configVars, IdsOrder, Reopens
<1>3. CASE AdapterRuns
  BY <1>3, AdapterHandled, IdsOrderUp, IdsOrderHandled
<1> QED  BY <1>1, <1>2, <1>3, CommandsAre, IdsOrderCommand, IdsOrderRun DEF ConfigNext

\* What the modem gets of the blacklist is what clients set last, with the constellations
\* that are disabled if those were sent after it.
IdsSent == IF lastSet.plain THEN IdsAlone(lastSet.ids) ELSE IdsMerged(lastSet.ids, svTypes)
IdsValues ==
  /\ Holds(locApiQ, "ids") \/ svIds = lastSet.ids
  /\ lastSet.plain \in BOOLEAN
  /\ \A j \in Range(locApiQ) :
       /\ Label(j) = "ids" => j.v = lastSet.ids
       /\ Label(j) = "inject" => j.ids = lastSet.ids
  /\ Reopens \/ HeldIn(locApiQ, nvram["ids"], "ids", IdsSent)

LEMMA IdsValuesCommand ==
  ASSUME BaseInv, IdsValues, NEW m, Commanded(m)
  PROVE  IdsValues'
<1>1. Pushed(adapterQ', adapterQ, <<m>>)
  BY BaseCommand DEF Commanded
<1>2. UNCHANGED <<locApiQ, nvram, svIds, lastSet>> /\ IdsSent' = IdsSent
  BY DEF Commanded, Command, IdsSent
<1>3. Reopens' \/ HeldIn(locApiQ', nvram'["ids"], "ids", IdsSent)
  BY <1>1, <1>2, CommandStays, GetsSame DEF IdsValues
<1>4. Holds(locApiQ', "ids") <=> Holds(locApiQ, "ids")
  BY <1>2
<1> QED  BY <1>2, <1>3, <1>4 DEF IdsValues

LEMMA IdsValuesUp ==
  ASSUME BaseInv, IdsOrder, IdsValues, AdapterRuns, HandleUp
  PROVE  IdsValues'
<1>1. PICK a : UpAsks(a) /\ Pushed(locApiQ', locApiQ, a)
  BY BaseUp DEF AdapterRuns
<1>2. ~Holds(locApiQ, "ids")
  BY IdsOrderUp
<1>3. svIds = lastSet.ids /\ UNCHANGED <<svIds, nvram>> /\ lastSet'.ids = lastSet.ids
  BY <1>2 DEF IdsValues, HandleUp, AdapterRuns, SetsIds
<1>4. HeldIn(locApiQ', nvram["ids"], "ids", IdsSent')
  <2>1. IdsSent' = IdsMerged(svIds, svTypes)
    BY <1>3 DEF IdsSent, HandleUp, AdapterRuns, SetsIds, Reconfigures
  <2> QED  BY <1>1, <2>1, HeldSet DEF UpAsks, Supplies
<1>5. ASSUME NEW j \in Range(locApiQ')
      PROVE  /\ Label(j) = "ids" => j.v = lastSet.ids
             /\ Label(j) = "inject" => j.ids = lastSet.ids
  <2>1. j \in Range(locApiQ) \/ j \in Range(a)
    BY <1>1 DEF Pushed
  <2>2. CASE j \in Range(a)
    <3>1. Holds(a, Label(j))
      BY <2>2, RangeHas
    <3>2. Label(j) # "ids"
      BY <1>1, <3>1 DEF UpAsks
    <3> QED  BY <1>1, <1>3, <2>2, <3>2 DEF UpAsks
  <2> QED  BY <2>1, <2>2 DEF IdsValues
<1>6. lastSet'.plain \in BOOLEAN
  BY DEF AdapterRuns
<1> QED  BY <1>3, <1>4, <1>5, <1>6 DEF IdsValues

LEMMA IdsValuesHandled ==
  ASSUME BaseInv, IdsOrder, IdsValues, AdapterRuns, NEW a, HandledWith(a)
  PROVE  IdsValues'
<1>1. /\ Popped(adapterQ', adapterQ) /\ Pushed(locApiQ', locApiQ, a)
      /\ \A x : Holds(a, x) => x \in {"ids", "config", "call", "tuncCall"}
      /\ Request.kind # "engineUp" /\ MessageOK(Request)
      /\ Stays
  BY DEF HandledWith
<1>2. UNCHANGED nvram /\ lastSet'.plain \in BOOLEAN
  BY DEF AdapterRuns
<1>0. lastSet.plain \in BOOLEAN
  BY DEF IdsValues
<1>3. /\ Range(locApiQ') = Range(locApiQ) \cup Range(a)
      /\ Holds(locApiQ', "ids") <=> Holds(locApiQ, "ids") \/ Holds(a, "ids")
      /\ Holds(adapterQ, Label(Request))
  BY <1>1 DEF Pushed, Popped, Request
<1>4. ASSUME NEW j \in Range(a) PROVE Label(j) # "inject" /\ (Label(j) = "ids" => Holds(a, "ids"))
  BY <1>1, <1>4, RangeHas
\* A command sets a new blacklist, and asks for it.
<1>5. ASSUME ~Holds(locApiQ, "ids"), ~Holds(locApiQ, "inject"), Supplies(a, "ids", IdsSent'),
             Holds(a, "ids") \/ svIds' = lastSet'.ids,
             \A j \in Range(a) : Label(j) = "ids" => j.v = lastSet'.ids
      PROVE  IdsValues'
  <2>1. HeldIn(locApiQ', nvram'["ids"], "ids", IdsSent')
    BY <1>1, <1>5, HeldSet DEF Supplies
  <2>2. \A j \in Range(locApiQ) : Label(j) # "ids" /\ Label(j) # "inject"
    BY <1>5, RangeHas
  <2>3. Holds(locApiQ', "ids") \/ svIds' = lastSet'.ids
    BY <1>3, <1>5
  <2> QED  BY <1>2, <1>3, <1>4, <1>5, <2>1, <2>2, <2>3 DEF IdsValues
\* The blacklist stays.
<1>6. ASSUME ~Holds(a, "ids"), ~Setter(a, "ids"), lastSet'.ids = lastSet.ids, UNCHANGED svIds,
             lastSet'.plain = lastSet.plain, UNCHANGED svTypes
      PROVE  IdsValues'
  <2>1. IdsSent' = IdsSent
    BY <1>6 DEF IdsSent
  <2>2. Reopens' \/ HeldIn(locApiQ', nvram'["ids"], "ids", IdsSent)
    BY <1>1, <1>2, <1>6, GetsAsk DEF IdsValues
  <2> QED  BY <1>2, <1>3, <1>4, <1>6, <2>1, <2>2 DEF IdsValues
<1>7. CASE HandleConfig /\ ConfigAsks(a) /\ "ids" \in Request.flags
  <2>1. lastSet'.ids = Request.v /\ IdsSent' = IdsAlone(Request.v)
    BY <1>7 DEF AdapterRuns, SetsIds, HandleConfig, IdsSent
  <2>2. Label(Request) = "ids"
    BY <1>1, <1>7, LabelsOf DEF HandleConfig
  <2>3. ~Holds(locApiQ, "ids") /\ ~Holds(locApiQ, "inject")
    BY <1>3, <2>2 DEF IdsOrder
  <2>4. /\ Supplies(a, "ids", IdsAlone(Request.v)) /\ Holds(a, "ids")
        /\ \A j \in Range(a) : j.v = Request.v
    BY <1>7 DEF ConfigAsks
  <2> QED  BY <1>5, <2>1, <2>3, <2>4
<1>8. CASE HandleConfig /\ ConfigAsks(a) /\ "ids" \notin Request.flags
  <2>1. /\ lastSet'.ids = lastSet.ids /\ lastSet'.plain = lastSet.plain
        /\ UNCHANGED svIds /\ UNCHANGED svTypes
    BY <1>0, <1>8 DEF AdapterRuns, SetsIds, Reconfigures, HandleConfig
  <2>2. ~Setter(a, "ids") /\ ~Holds(a, "ids")
    BY <1>8 DEF ConfigAsks
  <2> QED  BY <1>6, <2>1, <2>2
<1>9. CASE HandleSvTypes /\ SvTypesAsks(a)
  <2>1. /\ lastSet'.ids = lastSet.ids /\ UNCHANGED svIds
        /\ IdsSent' = IdsMerged(lastSet.ids, svTypes')
    BY <1>9 DEF AdapterRuns, SetsIds, Reconfigures, HandleSvTypes, IdsSent
  <2>2. Label(Request) = "svs"
    BY <1>1, <1>9, LabelsOf DEF HandleSvTypes
  <2>3. ~Holds(locApiQ, "ids") /\ ~Holds(locApiQ, "inject")
    BY <1>3, <2>2 DEF IdsOrder
  <2>4. svIds = lastSet.ids
    BY <2>3 DEF IdsValues
  <2>5. ~Holds(a, "ids") /\ Supplies(a, "ids", IdsSent')
    BY <1>9, <2>1, <2>4 DEF SvTypesAsks, CallsOnly
  <2> QED  BY <1>4, <1>5, <2>1, <2>3, <2>4, <2>5
<1>10. CASE HandleSvConfig /\ SvConfigAsks(a)
  <2>1. lastSet'.ids = Request.v /\ svIds' = Request.v /\ IdsSent' = IdsAlone(Request.v)
    BY <1>10 DEF AdapterRuns, SetsIds, HandleSvConfig, IdsSent
  <2>2. Label(Request) = "svs"
    BY <1>1, <1>10, LabelsOf DEF HandleSvConfig
  <2>3. ~Holds(locApiQ, "ids") /\ ~Holds(locApiQ, "inject")
    BY <1>3, <2>2 DEF IdsOrder
  <2>4. ~Holds(a, "ids") /\ Supplies(a, "ids", IdsSent')
    BY <1>10, <2>1 DEF SvConfigAsks, CallsOnly
  <2> QED  BY <1>4, <1>5, <2>1, <2>3, <2>4
<1>11. CASE /\ ~Holds(a, "ids") /\ ~Setter(a, "ids")
            /\ HandleTunc \/ HandleEnable \/ HandleNfw \/ HandleAnswered \/ Hold
  <2>1. /\ lastSet'.ids = lastSet.ids /\ lastSet'.plain = lastSet.plain
        /\ UNCHANGED svIds /\ UNCHANGED svTypes
    BY <1>0, <1>11 DEF AdapterRuns, SetsIds, Reconfigures, HandleTunc, HandleEnable, HandleNfw,
                       HandleAnswered, Hold
  <2> QED  BY <1>6, <1>11, <2>1
<1> QED  BY <1>7, <1>8, <1>9, <1>10, <1>11 DEF HandledWith

LEMMA IdsValuesRun ==
  ASSUME BaseInv, IdsValues, LocApiRuns
  PROVE  IdsValues'
<1>1. /\ JobOK(Job) /\ Job \in Range(locApiQ)
      /\ Holds(locApiQ, "ids") <=> Label(Job) = "ids" \/ Holds(locApiQ', "ids")
      /\ \A j \in Range(locApiQ') :
           j \in Range(locApiQ) \/ (Label(j) = "loadTunc" /\ j.first = (tunc = Default))
  BY RunHas
<1>2. lastSet' = lastSet /\ IdsSent' = IdsSent
  BY DEF LocApiRuns, IdsSent
<1>3. \A j \in Range(locApiQ') : /\ Label(j) = "ids" => j.v = lastSet.ids
                                 /\ Label(j) = "inject" => j.ids = lastSet.ids
  BY <1>1 DEF IdsValues
<1>4. Reopens' \/ HeldIn(locApiQ', nvram'["ids"], "ids", IdsSent)
  <2>1. "ids" \in ModemItems
    BY DEF ModemItems
  <2> QED  BY <2>1, GetsRun DEF IdsValues
<1>5. Label(Job) = "ids" <=> Job.kind = "config" /\ "ids" \in Job.flags
  BY <1>1, LabelsRun
<1>6. Label(Job) = "inject" <=> Job.kind = "inject"
  BY <1>1, LabelsRun
<1>7. Holds(locApiQ', "ids") \/ svIds' = lastSet.ids
  <2>1. CASE RunInject
    BY <1>1, <1>6, <2>1 DEF RunInject, IdsValues
  <2>2. CASE RunConfig /\ "ids" \in Job.flags
    <3>1. svIds' = Job.v
      BY <2>2 DEF RunConfig, Passed
    <3>2. Job.v = lastSet.ids
      BY <1>1, <1>5, <2>2 DEF RunConfig, IdsValues
    <3> QED  BY <3>1, <3>2
  <2>3. CASE UNCHANGED svIds /\ Label(Job) # "ids"
    BY <1>1, <2>3 DEF IdsValues
  <2>4. RunConfig /\ "ids" \notin Job.flags => UNCHANGED svIds /\ Label(Job) # "ids"
    BY <1>5 DEF RunConfig, Passed
  <2>5. RunOpen \/ RunCall \/ RunLoadTunc => UNCHANGED svIds /\ Label(Job) # "ids"
    BY <1>5 DEF RunOpen, RunCall, RunLoadTunc
  <2> QED  BY <2>1, <2>2, <2>3, <2>4, <2>5 DEF LocApiRuns
<1> QED  BY <1>2, <1>3, <1>4, <1>7 DEF IdsValues

LEMMA IdsValuesStep ==
  ASSUME ConfigurationAssumption, BaseInv, IdsOrder, IdsValues, [ConfigNext]_configVars
  PROVE  IdsValues'
<1>1. CASE ModemRestarts
  <2>1. /\ Pushed(locApiQ', locApiQ, <<[kind |-> "open"]>>)
        /\ \A x : Holds(<<[kind |-> "open"]>>, x) <=> x = "open"
        /\ Holds(locApiQ', "open")
        /\ Range(<<[kind |-> "open"]>>) = {[kind |-> "open"]}
    BY <1>1, BaseRestarts
  <2>2. UNCHANGED <<svIds, lastSet>> /\ Reopens'
    BY <1>1, <2>1 DEF ModemRestarts, Reopens
  <2>3. Holds(locApiQ', "ids") <=> Holds(locApiQ, "ids")
    BY <2>1 DEF Pushed
  <2>4. \A j \in Range(locApiQ') : j \in Range(locApiQ) \/ Label(j) = "open"
    BY <2>1 DEF Pushed, Label
  <2> QED  BY <2>2, <2>3, <2>4 DEF IdsValues
<1>2. CASE UNCHANGED configVars
  BY <1>2 DEF configVars, IdsValues, IdsSent, Reopens
<1>3. CASE AdapterRuns
  BY <1>3, AdapterHandled, IdsValuesUp, IdsValuesHandled
<1> QED  BY <1>1, <1>2, <1>3, CommandsAre, IdsValuesCommand, IdsValuesRun DEF ConfigNext
-----------------------------------------------------------------------------

\* The tunc: no command for it is under way while the one of the file may be loaded, and
\* that is loaded only if no client set one.
TuncOrder ==
  /\ Holds(adapterQ, "tunc") => ~Holds(locApiQ, "inject") /\ ~Holds(locApiQ, "loadTunc")
  /\ Ordered(adapterQ, "tunc", "engineUp")
  /\ Leads(locApiQ, "loadTunc")
  /\ Ordered(locApiQ, "tuncCall", "inject")
  /\ Ordered(locApiQ, "tuncCall", "loadTunc")
TuncValues ==
  /\ \A j \in Range(locApiQ) : Label(j) = "loadTunc" /\ j.first => lastSet.tunc = Default
  /\ lastSet.tunc # Default => tunc = lastSet.tunc
  /\ \/ Holds(locApiQ, "inject") \/ Holds(locApiQ, "loadTunc")
     \/ Reopens \/ HeldIn(locApiQ, nvram["tunc"], "tunc", tunc)
TuncInv == TuncOrder /\ TuncValues

LEMMA TuncSetters ==
  ASSUME ConfigurationAssumption, NEW q, JobsOK(q), Setter(q, "tunc")
  PROVE  Holds(q, "tuncCall")
<1>1. PICK k \in DOMAIN q : Sets(q[k], "tunc")
  BY DEF Setter
<1>2. JobOK(q[k])
  BY DEF JobsOK, Range
<1>3. q[k].kind = "call" /\ q[k].item = "tunc"
  BY <1>1, <1>2 DEF Sets, Passed, Restored, JobOK, ConfigurationAssumption
<1>4. Label(q[k]) = "tuncCall"
  BY <1>2, <1>3, LabelsRun
<1> QED  BY <1>4 DEF Holds

LEMMA TuncCommand ==
  ASSUME "tunc" \notin Overlap, BaseInv, TuncInv, NEW m, Commanded(m)
  PROVE  TuncInv'
<1>1. Pushed(adapterQ', adapterQ, <<m>>)
  BY BaseCommand DEF Commanded
<1>2. UNCHANGED <<locApiQ, nvram, tunc, lastSet>>
  BY DEF Commanded, Command
<1>3. /\ \A x : Holds(<<m>>, x) <=> Label(m) = x
      /\ \A x, y : Ordered(<<m>>, x, y) <=> ~(Label(m) = x /\ Label(m) = y)
  BY OneJob
<1>4. TuncOrder'
  <2>1. CASE Label(m) = "tunc"
    <3>1. Calm("tunc")
      BY <2>1 DEF Commanded
    <3>2. ~Reopens /\ ~Holds(locApiQ, "inject") /\ ~Holds(locApiQ, "loadTunc")
      BY <3>1, CalmIs DEF BaseInv
    <3>3. Ordered(adapterQ', "tunc", "engineUp")
      BY <1>1, <1>3, <2>1, <3>2 DEF Pushed, Reopens
    <3> QED  BY <1>2, <3>2, <3>3 DEF TuncInv, TuncOrder
  <2>2. CASE Label(m) # "tunc"
    <3>1. Holds(adapterQ', "tunc") => Holds(adapterQ, "tunc")
      BY <1>1, <1>3, <2>2 DEF Pushed
    <3>2. Ordered(adapterQ', "tunc", "engineUp")
      BY <1>1, <1>3, <2>2 DEF Pushed, TuncInv, TuncOrder
    <3> QED  BY <1>2, <3>1, <3>2 DEF TuncInv, TuncOrder
  <2> QED  BY <2>1, <2>2
<1>5. TuncValues'
  <2>1. Stays
    BY <1>1, <1>2, CommandStays
  <2>2. /\ Holds(locApiQ', "inject") <=> Holds(locApiQ, "inject")
        /\ Holds(locApiQ', "loadTunc") <=> Holds(locApiQ, "loadTunc")
    BY <1>2
  <2> QED  BY <1>2, <2>1, <2>2 DEF TuncInv, TuncValues, Stays
<1> QED  BY <1>4, <1>5 DEF TuncInv

LEMMA TuncUp ==
  ASSUME BaseInv, TuncInv, AdapterRuns, HandleUp
  PROVE  TuncInv'
<1>1. PICK t : Popped(t, adapterQ) /\ Pushed(adapterQ', t, heldConfigs)
  BY BaseUp DEF AdapterRuns
<1>2. PICK a : UpAsks(a) /\ Pushed(locApiQ', locApiQ, a)
  BY BaseUp DEF AdapterRuns
<1>3. Label(Head(adapterQ)) = "engineUp"
  BY RequestOK, LabelsOf DEF BaseInv, AdapterRuns, HandleUp, Request
<1>4. ~Holds(heldConfigs, "tunc")
  <2>1. ASSUME NEW k \in DOMAIN heldConfigs, Label(heldConfigs[k]) = "tunc" PROVE FALSE
    <3>1. heldConfigs[k] \in Range(heldConfigs)
      BY DEF Range
    <3> QED  BY <2>1, <3>1, LabelsOf DEF BaseInv, QueuesOK
  <2> QED  BY <2>1 DEF Holds
<1>5. ~Holds(adapterQ', "tunc")
  BY <1>1, <1>3, <1>4 DEF Popped, Pushed, TuncInv, TuncOrder
<1>6. \A x : Holds(a, x) <=> x \in {"inject", "call"}
  BY <1>2 DEF UpAsks
<1>7. TuncOrder'
  <2>1. Ordered(adapterQ', "tunc", "engineUp")
    BY <1>5, NoneOrdered
  <2>2. /\ Leads(locApiQ', "loadTunc")
        /\ Ordered(locApiQ', "tuncCall", "inject") /\ Ordered(locApiQ', "tuncCall", "loadTunc")
    BY <1>2, <1>6 DEF Pushed, TuncInv, TuncOrder
  <2> QED  BY <1>5, <2>1, <2>2 DEF TuncOrder
<1>8. TuncValues'
  <2>1. Holds(locApiQ', "inject")
    BY <1>2, <1>6 DEF Pushed
  <2>2. UNCHANGED tunc /\ lastSet'.tunc = lastSet.tunc
    BY DEF HandleUp, AdapterRuns
  <2>3. \A j \in Range(locApiQ') : j \in Range(locApiQ) \/ Label(j) # "loadTunc"
    BY <1>2, <1>6, RangeHas DEF Pushed
  <2> QED  BY <2>1, <2>2, <2>3 DEF TuncInv, TuncValues
<1> QED  BY <1>7, <1>8 DEF TuncInv

LEMMA TuncHandled ==
  ASSUME BaseInv, TuncInv, AdapterRuns, NEW a, HandledWith(a)
  PROVE  TuncInv'
<1>1. /\ Popped(adapterQ', adapterQ) /\ Pushed(locApiQ', locApiQ, a)
      /\ \A x : Holds(a, x) => x \in {"ids", "config", "call", "tuncCall"}
      /\ MessageOK(Request) /\ Stays
  BY DEF HandledWith
<1>2. UNCHANGED nvram
  BY DEF AdapterRuns
<1>3. Holds(adapterQ', "tunc") => Holds(adapterQ, "tunc")
  BY <1>1 DEF Popped
<1>4. /\ Holds(locApiQ', "inject") <=> Holds(locApiQ, "inject")
      /\ Holds(locApiQ', "loadTunc") <=> Holds(locApiQ, "loadTunc")
  BY <1>1 DEF Pushed
<1>5. Ordered(adapterQ', "tunc", "engineUp") /\ Leads(locApiQ', "loadTunc")
  BY <1>1 DEF Popped, Pushed, TuncInv, TuncOrder
<1>6. \A j \in Range(locApiQ') : j \in Range(locApiQ) \/ Label(j) # "loadTunc"
  BY <1>1, RangeHas DEF Pushed
<1>7. CASE HandleTunc /\ Supplies(a, "tunc", Request.v)
  <2>1. Label(Request) = "tunc"
    BY <1>1, <1>7, LabelsOf DEF HandleTunc
  <2>2. ~Holds(locApiQ, "inject") /\ ~Holds(locApiQ, "loadTunc")
    BY <1>1, <2>1 DEF Popped, Request, TuncInv, TuncOrder
  <2>3. TuncOrder'
    BY <1>3, <1>4, <1>5, <2>2, NoneOrdered DEF TuncOrder
  <2>4. tunc' = Request.v /\ lastSet'.tunc = Request.v
    BY <1>7 DEF HandleTunc, AdapterRuns
  <2>5. HeldIn(locApiQ', nvram'["tunc"], "tunc", tunc')
    BY <1>1, <1>7, <2>4, HeldSet DEF Supplies
  <2>6. \A j \in Range(locApiQ') : Label(j) # "loadTunc"
    BY <1>4, <2>2, RangeHas
  <2>7. TuncValues'
    BY <2>4, <2>5, <2>6 DEF TuncValues
  <2> QED  BY <2>3, <2>7 DEF TuncInv
<1>8. CASE ~Setter(a, "tunc") /\ ~Holds(a, "tuncCall") /\ Request.kind # "tunc" /\ UNCHANGED tunc
  <2>1. Ordered(locApiQ', "tuncCall", "inject") /\ Ordered(locApiQ', "tuncCall", "loadTunc")
    BY <1>1, <1>8 DEF Pushed, TuncInv, TuncOrder
  <2>2. TuncOrder'
    BY <1>3, <1>4, <1>5, <2>1 DEF TuncInv, TuncOrder
  <2>3. lastSet'.tunc = lastSet.tunc
    BY <1>8 DEF AdapterRuns
  <2>4. Reopens \/ HeldIn(locApiQ, nvram["tunc"], "tunc", tunc) =>
          Reopens' \/ HeldIn(locApiQ', nvram'["tunc"], "tunc", tunc)
    BY <1>1, <1>2, <1>8, GetsAsk
  <2>5. TuncValues'
    BY <1>4, <1>6, <1>8, <2>3, <2>4 DEF TuncInv, TuncValues
  <2> QED  BY <2>2, <2>5 DEF TuncInv
<1>9. (UNCHANGED tunc /\ Request.kind # "tunc") \/ HandleTunc
  BY DEF HandledWith, HandleConfig, HandleSvTypes, HandleSvConfig, HandleEnable, HandleNfw,
         HandleAnswered, Hold
<1>10. \/ HandleTunc /\ Supplies(a, "tunc", Request.v)
       \/ ~HandleTunc /\ ~Setter(a, "tunc") /\ ~Holds(a, "tuncCall")
  <2>1. CASE HandleConfig /\ ConfigAsks(a)
    BY <2>1 DEF ConfigAsks, HandleConfig, HandleTunc
  <2>2. CASE ~(HandleConfig /\ ConfigAsks(a))
    BY <2>2 DEF HandledWith, HandleTunc, HandleSvTypes, HandleSvConfig, HandleEnable, HandleNfw,
                HandleAnswered, Hold, SvTypesAsks, SvConfigAsks, CallsOnly
  <2> QED  BY <2>1, <2>2
<1> QED  BY <1>7, <1>8, <1>9, <1>10

LEMMA TuncRun ==
  ASSUME ConfigurationAssumption, BaseInv, TuncInv, LocApiRuns
  PROVE  TuncInv'
<1>1. /\ JobOK(Job) /\ Job \in Range(locApiQ)
      /\ \A x : x # "loadTunc" => (Holds(locApiQ, x) <=> Label(Job) = x \/ Holds(locApiQ', x))
      /\ Job.kind # "inject" =>
           (Holds(locApiQ, "loadTunc") <=> Label(Job) = "loadTunc" \/ Holds(locApiQ', "loadTunc"))
      /\ \A x, y : y # "loadTunc" /\ Ordered(locApiQ, x, y) =>
                     Ordered(locApiQ', x, y) /\ (Label(Job) = y => ~Holds(locApiQ, x))
      /\ \A j \in Range(locApiQ') :
           j \in Range(locApiQ) \/ (Label(j) = "loadTunc" /\ j.first = (tunc = Default))
  BY RunHas
<1>2. PICK t : /\ Popped(t, locApiQ)
               /\ Job.kind # "inject" => locApiQ' = t
               /\ Job.kind = "inject" =>
                    \E l : Label(l) = "loadTunc" /\ Pushed(locApiQ', <<l>>, t)
  BY RunQueues
<1>3. /\ Label(Job) = "inject" <=> Job.kind = "inject"
      /\ Label(Job) = "loadTunc" <=> Job.kind = "loadTunc"
  BY <1>1, LabelsRun
<1>4. UNCHANGED lastSet /\ (Job.kind # "loadTunc" => UNCHANGED tunc)
      /\ (Job.kind = "loadTunc" => tunc' = IF Job.first THEN Initially ELSE tunc)
  BY DEF LocApiRuns, RunInject, RunOpen, RunCall, RunConfig, RunLoadTunc
<1>5. ~Holds(t, "loadTunc")
  BY <1>2 DEF Popped, TuncInv, TuncOrder
<1>6. Job.kind # "inject" => ~Holds(locApiQ', "loadTunc")
  BY <1>2, <1>5
<1>7. Job.kind = "inject" => ~Holds(locApiQ, "loadTunc") /\ Holds(locApiQ', "loadTunc")
                             /\ Leads(locApiQ', "loadTunc") /\ ~Holds(locApiQ', "tuncCall")
  <2>1. SUFFICES ASSUME Job.kind = "inject"
                 PROVE  /\ ~Holds(locApiQ, "loadTunc") /\ Holds(locApiQ', "loadTunc")
                        /\ Leads(locApiQ', "loadTunc") /\ ~Holds(locApiQ', "tuncCall")
    OBVIOUS
  <2>2. PICK l : Label(l) = "loadTunc" /\ Pushed(locApiQ', <<l>>, t)
    BY <1>2, <2>1
  <2>3. Holds(<<l>>, "loadTunc") /\ Leads(<<l>>, "loadTunc")
    BY <2>2, OneJob DEF Leads
  <2>4. Holds(locApiQ', "loadTunc") /\ Leads(locApiQ', "loadTunc")
    BY <1>5, <2>2, <2>3 DEF Pushed
  <2>5. ~Holds(locApiQ, "loadTunc")
    BY <1>3, <2>1 DEF Leads, TuncInv, TuncOrder, Job
  <2>6. ~Holds(locApiQ, "tuncCall")
    BY <1>1, <1>3, <2>1 DEF TuncInv, TuncOrder
  <2>7. ~Holds(locApiQ', "tuncCall")
    BY <1>1, <2>6
  <2> QED  BY <2>4, <2>5, <2>7
<1>8. /\ Holds(adapterQ', "tunc") <=> Holds(adapterQ, "tunc")
      /\ Ordered(adapterQ', "tunc", "engineUp")
  BY RunTells DEF TuncInv, TuncOrder
<1>9. Holds(adapterQ', "tunc") => ~Holds(locApiQ', "inject") /\ ~Holds(locApiQ', "loadTunc")
  BY <1>1, <1>3, <1>6, <1>8 DEF TuncInv, TuncOrder
<1>10. Leads(locApiQ', "loadTunc") /\ Ordered(locApiQ', "tuncCall", "loadTunc")
  BY <1>6, <1>7, NoneOrdered
<1>11. Ordered(locApiQ', "tuncCall", "inject")
  BY <1>1 DEF TuncInv, TuncOrder
<1>12. TuncOrder'
  BY <1>8, <1>9, <1>10, <1>11 DEF TuncOrder
<1>13. \A j \in Range(locApiQ') : Label(j) = "loadTunc" /\ j.first => lastSet.tunc = Default
  BY <1>1 DEF TuncInv, TuncValues
<1>14. lastSet.tunc # Default => tunc' = lastSet.tunc
  BY <1>1, <1>3, <1>4 DEF TuncInv, TuncValues
<1>15. \/ Holds(locApiQ', "inject") \/ Holds(locApiQ', "loadTunc")
       \/ Reopens' \/ HeldIn(locApiQ', nvram'["tunc"], "tunc", tunc')
  <2>1. CASE Job.kind = "inject"
    BY <1>7, <2>1
  <2>2. CASE Reopens
    BY <2>2, RunStays DEF Stays
  <2>3. CASE Job.kind = "loadTunc" /\ ~Reopens
    <3>1. modemOn
      BY <2>3 DEF BaseInv, UpInv, Reopens, ConfigTyped
    <3>2. nvram'["tunc"] \in {Refused, tunc'}
      BY <1>1, <2>3, <3>1, RunsGive DEF ModemItems
    <3>3. ~Holds(locApiQ, "tuncCall")
      BY <1>2, <1>3, <2>3 DEF Popped, TuncInv, TuncOrder, Job
    <3>4. ~Holds(locApiQ', "tuncCall")
      BY <1>1, <3>3
    <3>5. JobsOK(locApiQ')
      BY BaseRun DEF BaseInv, QueuesOK, JobsOK
    <3>6. ~Setter(locApiQ', "tunc")
      BY <3>4, <3>5, TuncSetters
    <3> QED  BY <3>2, <3>6 DEF HeldIn, SettledOn, Setter
  <2>4. CASE Job.kind \notin {"inject", "loadTunc"} /\ ~Reopens
    <3>1. Holds(locApiQ, "inject") => Holds(locApiQ', "inject")
      BY <1>1, <1>3, <2>4
    <3>2. ~Holds(locApiQ, "loadTunc")
      BY <1>3, <2>4 DEF Leads, TuncInv, TuncOrder, Job
    <3>3. "tunc" \in ModemItems
      BY DEF ModemItems
    <3>4. HeldIn(locApiQ, nvram["tunc"], "tunc", tunc) =>
            Reopens' \/ HeldIn(locApiQ', nvram'["tunc"], "tunc", tunc)
      BY <2>4, <3>3, GetsRun
    <3> QED  BY <1>4, <2>4, <3>1, <3>2, <3>4 DEF TuncInv, TuncValues
  <2> QED  BY <2>1, <2>2, <2>3, <2>4
<1>16. TuncValues'
  BY <1>4, <1>13, <1>14, <1>15 DEF TuncValues
<1> QED  BY <1>12, <1>16 DEF TuncInv

LEMMA TuncStep ==
  ASSUME ConfigurationAssumption, "tunc" \notin Overlap, BaseInv, TuncInv,
         [ConfigNext]_configVars
  PROVE  TuncInv'
<1>1. CASE ModemRestarts
  <2>1. /\ Pushed(locApiQ', locApiQ, <<[kind |-> "open"]>>)
        /\ \A x : Holds(<<[kind |-> "open"]>>, x) <=> x = "open"
        /\ Holds(locApiQ', "open")
        /\ Range(<<[kind |-> "open"]>>) = {[kind |-> "open"]}
    BY <1>1, BaseRestarts
  <2>2. UNCHANGED <<adapterQ, tunc, lastSet>> /\ Reopens'
    BY <1>1, <2>1 DEF ModemRestarts, Reopens
  <2>3. \A j \in Range(locApiQ') : j \in Range(locApiQ) \/ Label(j) = "open"
    BY <2>1 DEF Pushed, Label
  <2>4. TuncValues'
    BY <2>2, <2>3 DEF TuncInv, TuncValues
  <2>5. /\ Holds(locApiQ', "inject") <=> Holds(locApiQ, "inject")
        /\ Holds(locApiQ', "loadTunc") <=> Holds(locApiQ, "loadTunc")
        /\ Leads(locApiQ', "loadTunc")
        /\ Ordered(locApiQ', "tuncCall", "inject") /\ Ordered(locApiQ', "tuncCall", "loadTunc")
    BY <2>1 DEF Pushed, TuncInv, TuncOrder
  <2>6. TuncOrder'
    BY <2>2, <2>5 DEF TuncInv, TuncOrder
  <2> QED  BY <2>4, <2>6 DEF TuncInv
<1>2. CASE UNCHANGED configVars
  BY <1>2 DEF configVars, TuncInv, TuncOrder, TuncValues, Reopens
<1>3. CASE AdapterRuns
  BY <1>3, AdapterHandled, TuncUp, TuncHandled
<1> QED  BY <1>1, <1>2, <1>3, CommandsAre, TuncCommand, TuncRun DEF ConfigNext
-----------------------------------------------------------------------------

\* The queues when the program starts.
LEMMA ConfigStarts ==
  ASSUME ConfigInit
  PROVE  /\ \A x : ~Holds(adapterQ, x) /\ ~Holds(heldConfigs, x)
         /\ \A x : Holds(locApiQ, x) <=> x = "open"
         /\ \A j \in Range(locApiQ) : Label(j) = "open"
         /\ \A i : ~Setter(locApiQ, i)
         /\ Reopens
<1> DEFINE o == [kind |-> "open"]
<1>1. Label(o) = "open" /\ \A i : ~Sets(o, i)
  BY DEF Label, Sets
<1>2. locApiQ = <<o>> /\ adapterQ = <<>> /\ heldConfigs = <<>>
  BY DEF ConfigInit
<1> HIDE DEF o
<1>3. /\ Range(locApiQ) = {o}
      /\ \A x : Holds(locApiQ, x) <=> Label(o) = x
      /\ \A i : Setter(locApiQ, i) <=> Sets(o, i)
  BY <1>2, OneJob
<1> QED  BY <1>1, <1>2, <1>3, NoJobs DEF Reopens

\* When nothing is under way the modem has what its calls gave it.
LEMMA QuietHas ==
  ASSUME BaseInv, ConfigQuiet
  PROVE  /\ ~Reopens
         /\ \A x : ~Holds(locApiQ, x)
         /\ \A mem, i, w : HeldIn(locApiQ, mem, i, w) => mem \in {Refused, w}
<1>1. (\A x : ~Holds(locApiQ, x)) /\ (\A x : ~Holds(adapterQ, x)) /\ \A i : ~Setter(locApiQ, i)
  BY NoJobs DEF ConfigQuiet
<1> QED  BY <1>1 DEF Reopens, HeldIn

ConfigLockInv == BaseInv /\ NfwFirst /\ MoInv /\ LockHeld
ConfigIdsInv == BaseInv /\ IdsOrder /\ IdsValues
ConfigItemsInv == BaseInv /\ (Inject => \A i \in {"supl", "server"} : ItemHeld(i))
ConfigTypesInv == BaseInv /\ TypesHeld
ConfigTuncInv == BaseInv /\ TuncInv

LEMMA ConfigLockAlways ==
  ASSUME ConfigurationAssumption, "nfw" \notin Overlap
  PROVE  ConfigSpec => []ConfigLockInv
<1>1. ConfigInit => ConfigLockInv
  <2>1. SUFFICES ASSUME ConfigInit PROVE ConfigLockInv
    OBVIOUS
  <2>2. BaseInv
    BY <2>1, BaseInit
  <2>3. NfwFirst /\ LockHeld
    BY <2>1, ConfigStarts, NoneOrdered DEF NfwFirst, LockHeld
  <2>4. MoInv
    BY <2>1 DEF MoInv, ConfigInit
  <2> QED  BY <2>2, <2>3, <2>4 DEF ConfigLockInv
<1>2. ConfigLockInv /\ [ConfigNext]_configVars => ConfigLockInv'
  BY BaseStep, NfwStep, MoStep, LockHeldStep DEF ConfigLockInv
<1> QED  BY <1>1, <1>2, PTL DEF ConfigSpec

LEMMA ConfigIdsAlways ==
  ASSUME ConfigurationAssumption, "ids" \notin Overlap
  PROVE  ConfigSpec => []ConfigIdsInv
<1>1. ConfigInit => ConfigIdsInv
  <2>1. SUFFICES ASSUME ConfigInit PROVE ConfigIdsInv
    OBVIOUS
  <2>2. BaseInv
    BY <2>1, BaseInit
  <2>3. IdsOrder
    BY <2>1, ConfigStarts, NoneOrdered DEF IdsOrder
  <2>4. IdsSent = IdsAlone(Initially)
    BY <2>1 DEF IdsSent, ConfigInit
  <2>5. IdsValues
    BY <2>1, <2>4, ConfigStarts DEF IdsValues, ConfigInit
  <2> QED  BY <2>2, <2>3, <2>5 DEF ConfigIdsInv
<1>2. ConfigIdsInv /\ [ConfigNext]_configVars => ConfigIdsInv'
  BY BaseStep, IdsOrderStep, IdsValuesStep DEF ConfigIdsInv
<1> QED  BY <1>1, <1>2, PTL DEF ConfigSpec

LEMMA ConfigItemsAlways ==
  ASSUME ConfigurationAssumption
  PROVE  ConfigSpec => []ConfigItemsInv
<1>1. ConfigInit => ConfigItemsInv
  BY BaseInit, ConfigStarts DEF ConfigItemsInv, ItemHeld
<1>2. ConfigItemsInv /\ [ConfigNext]_configVars => ConfigItemsInv'
  <2>1. SUFFICES ASSUME ConfigItemsInv, [ConfigNext]_configVars PROVE ConfigItemsInv'
    OBVIOUS
  <2>2. BaseInv'
    BY <2>1, BaseStep DEF ConfigItemsInv
  <2>3. ASSUME Inject, NEW i \in {"supl", "server"} PROVE ItemHeld(i)'
    BY <2>1, <2>3, ItemHeldStep DEF ConfigItemsInv
  <2> QED  BY <2>2, <2>3 DEF ConfigItemsInv
<1> QED  BY <1>1, <1>2, PTL DEF ConfigSpec

LEMMA ConfigTypesAlways ==
  ASSUME ConfigurationAssumption, ~SetsTypes
  PROVE  ConfigSpec => []ConfigTypesInv
<1>1. ConfigInit => ConfigTypesInv
  <2>1. SUFFICES ASSUME ConfigInit PROVE ConfigTypesInv
    OBVIOUS
  <2>2. nvram["types"] = Sent
    BY <2>1, SvTypesFit DEF ConfigInit, ModemItems, Sent
  <2>3. SettledOn(locApiQ, "types", Sent)
    BY <2>1, ConfigStarts DEF SettledOn, Setter
  <2> QED  BY <2>1, <2>2, <2>3, BaseInit DEF ConfigTypesInv, TypesHeld, HeldIn
<1>2. ConfigTypesInv /\ [ConfigNext]_configVars => ConfigTypesInv'
  BY BaseStep, TypesHeldStep DEF ConfigTypesInv
<1> QED  BY <1>1, <1>2, PTL DEF ConfigSpec

LEMMA ConfigTuncAlways ==
  ASSUME ConfigurationAssumption, "tunc" \notin Overlap
  PROVE  ConfigSpec => []ConfigTuncInv
<1>1. ConfigInit => ConfigTuncInv
  <2>1. SUFFICES ASSUME ConfigInit PROVE ConfigTuncInv
    OBVIOUS
  <2>2. TuncOrder
    BY <2>1, ConfigStarts, NoneOrdered DEF TuncOrder
  <2>3. TuncValues
    BY <2>1, ConfigStarts DEF TuncValues, ConfigInit
  <2> QED  BY <2>1, <2>2, <2>3, BaseInit DEF ConfigTuncInv, TuncInv
<1>2. ConfigTuncInv /\ [ConfigNext]_configVars => ConfigTuncInv'
  BY BaseStep, TuncStep DEF ConfigTuncInv
<1> QED  BY <1>1, <1>2, PTL DEF ConfigSpec

\* When nothing is under way the modem is locked as the comment in setConfig says: after
\* any number of its restarts, of messages held for them and of calls that it refuses,
\* where the lock for network requests is set while no other command is queued.
THEOREM LockAlwaysAgrees ==
  ASSUME ConfigurationAssumption, "nfw" \notin Overlap
  PROVE  ConfigSpec => []LockAgrees
<1>1. ConfigLockInv => LockAgrees
  BY QuietHas DEF ConfigLockInv, LockAgrees, LockHeld, ModemLock
<1> QED  BY <1>1, ConfigLockAlways, PTL

\* The modem may locate the device for its clients exactly when location is enabled, and
\* the XTRA observer knows it: under Q behaviour, under P and through the step between.
THEOREM MoAlwaysFollows ==
  ASSUME ConfigurationAssumption, "nfw" \notin Overlap
  PROVE  ConfigSpec => []MoFollows
<1>1. ConfigLockInv => MoFollows
  <2>1. SUFFICES ASSUME ConfigLockInv PROVE MoFollows
    OBVIOUS
  <2>2. afw \in BOOLEAN /\ qLock \in BOOLEAN
    BY <2>1 DEF ConfigLockInv, BaseInv, ConfigTyped
  <2>3. ("MO" \in xtraLock) = ~afw
    BY <2>1, <2>2 DEF ConfigLockInv, MoInv
  <2>4. ("MO" \in ModemLock) = ~afw
    BY <2>1, <2>2 DEF ConfigLockInv, MoInv, ModemLock
  <2>5. ConfigQuiet => nvram["lock"] \in {Refused, ModemLock}
    BY <2>1, QuietHas DEF ConfigLockInv, LockHeld
  <2> QED  BY <2>3, <2>4, <2>5 DEF MoFollows
<1> QED  BY <1>1, ConfigLockAlways, PTL

\* When nothing is under way the adapter has the blacklist that clients set last: neither a
\* call of LocApi that runs late nor a restart takes a new one back, where no command for
\* satellites is given while one of them or a restart is under way.
THEOREM IdsAlwaysKept ==
  ASSUME ConfigurationAssumption, "ids" \notin Overlap
  PROVE  ConfigSpec => []IdsKept
<1>1. ConfigIdsInv => IdsKept
  BY QuietHas DEF ConfigIdsInv, IdsValues, IdsKept
<1> QED  BY <1>1, ConfigIdsAlways, PTL

\* When nothing is under way the modem has what the adapter has of every item, and that is
\* what clients set last, where no command for satellites or the tunc overlaps a restart
\* and UpdateSvConfig gives the constellations of the modem.
THEOREM ConfigAlwaysAgrees ==
  ASSUME ConfigurationAssumption, {"ids", "tunc"} \cap Overlap = {}, ~SetsTypes
  PROVE  ConfigSpec => []ConfigAgrees
<1>0. "ids" \notin Overlap /\ "tunc" \notin Overlap
  OBVIOUS
<1>1. ASSUME ConfigIdsInv, ConfigItemsInv, ConfigTypesInv, ConfigTuncInv PROVE ConfigAgrees
  <2>1. SUFFICES ASSUME ConfigQuiet
                 PROVE  /\ lastSet.tunc # Default => tunc = lastSet.tunc
                        /\ nvram["ids"] \in
                             {Refused, IF lastSet.plain THEN IdsAlone(svIds)
                                       ELSE IdsMerged(svIds, svTypes)}
                        /\ nvram["types"] \in {Refused, TypesSent(svTypes)}
                        /\ nvram["tunc"] \in {Refused, tunc}
                        /\ Inject => \A i \in {"supl", "server"} : nvram[i] \in {Refused, conf[i]}
    BY DEF ConfigAgrees
  <2>2. /\ ~Reopens
        /\ \A x : ~Holds(locApiQ, x)
        /\ \A mem, i, w : HeldIn(locApiQ, mem, i, w) => mem \in {Refused, w}
    BY <1>1, <2>1, QuietHas DEF ConfigIdsInv
  <2>3. nvram["ids"] \in {Refused, IF lastSet.plain THEN IdsAlone(svIds)
                                   ELSE IdsMerged(svIds, svTypes)}
    BY <1>1, <2>2 DEF ConfigIdsInv, IdsValues, IdsSent
  <2>4. nvram["types"] \in {Refused, TypesSent(svTypes)}
    BY <1>1, <2>2 DEF ConfigTypesInv, TypesHeld, Sent
  <2>5. nvram["tunc"] \in {Refused, tunc} /\ (lastSet.tunc # Default => tunc = lastSet.tunc)
    BY <1>1, <2>2 DEF ConfigTuncInv, TuncInv, TuncValues
  <2>6. Inject => \A i \in {"supl", "server"} : nvram[i] \in {Refused, conf[i]}
    BY <1>1, <2>2 DEF ConfigItemsInv, ItemHeld
  <2> QED  BY <2>3, <2>4, <2>5, <2>6
<1> QED  BY <1>0, <1>1, ConfigIdsAlways, ConfigItemsAlways, ConfigTypesAlways, ConfigTuncAlways, PTL
=============================================================================
