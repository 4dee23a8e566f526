---------------------------- MODULE BatchingProofs ----------------------------
(***************************************************************************)
(* Proofs about Batching, for all sessions, owners, options and queues:    *)
(* the adapter's sessions and the modem's agree once nothing is under way, *)
(* and every start is answered.                                            *)
(*                                                                         *)
(* Assumed of the environment (Calm): the modem refuses a call only while  *)
(* it is down, clients wait for the answer before they ask again for a     *)
(* session, and the modem restarts once at most.  Without any one of these *)
(* the adapter and the modem can differ for good.                          *)
(*                                                                         *)
(* BatchInv(t, q) is the inductive invariant, about the adapter's tables t *)
(* and its queue q, so that it also holds in the middle of a handler:      *)
(*   Formed    each call and message has the form its handler presumes of  *)
(*             the tables                                                  *)
(*   Openings  where the opening of the modem is on its way                *)
(*   Empty     before the engine is known nothing runs                     *)
(*   Failures  a refusal is handled before the sessions are started again  *)
(*   OneOf     one thing at most is under way for a session                *)
(*   Foreseen  what the modem runs once it has worked off its calls is     *)
(*             what the session wants                                      *)
(***************************************************************************)
EXTENDS Batching, FiniteSetTheorems, SequenceTheorems, WellFoundedInduction, TLAPS

-----------------------------------------------------------------------------
(***************************************************************************)
(* Queues and tables.                                                      *)
(***************************************************************************)
IsSequence(q) == q \in Seq(Range(q))

\* The queue r is q with e at its end; r is q without its head; r is q followed by p.
Longer(r, q, e) ==
  /\ IsSequence(r) /\ Len(q) \in Nat
  /\ DOMAIN q = 1 .. Len(q) /\ DOMAIN r = 1 .. Len(q) + 1
  /\ \A k \in DOMAIN q : r[k] = q[k]
  /\ r[Len(q) + 1] = e
Shorter(r, q) ==
  /\ IsSequence(r) /\ Len(q) \in Nat /\ Len(q) > 0
  /\ DOMAIN q = 1 .. Len(q) /\ DOMAIN r = 1 .. Len(q) - 1
  /\ \A k \in DOMAIN r : k + 1 \in DOMAIN q /\ r[k] = q[k + 1]
  /\ Head(q) = q[1] /\ 1 \in DOMAIN q
Joined(r, q, p) ==
  /\ IsSequence(r) /\ Len(q) \in Nat /\ Len(p) \in Nat
  /\ DOMAIN q = 1 .. Len(q) /\ DOMAIN p = 1 .. Len(p) /\ DOMAIN r = 1 .. Len(q) + Len(p)
  /\ \A k \in DOMAIN q : r[k] = q[k]
  /\ \A k \in DOMAIN p : r[Len(q) + k] = p[k]

\* A sequence is one of its own elements.
LEMMA SequenceOf ==
  ASSUME NEW S, NEW q \in Seq(S)
  PROVE  IsSequence(q)
BY SeqOfRange DEF IsSequence

\* What the sequences of the adapter have in common.
LEMMA SequenceFacts ==
  ASSUME NEW q, IsSequence(q)
  PROVE  Len(q) \in Nat /\ DOMAIN q = 1 .. Len(q) /\ (q = <<>> <=> Len(q) = 0)
BY DEF IsSequence

\* A message is put at the end of a queue.
LEMMA AppendFacts ==
  ASSUME NEW q, IsSequence(q), NEW e, NEW r, r = Append(q, e)
  PROVE  Longer(r, q, e)
<1> DEFINE S == Range(q) \cup {e}
<1>1. q \in Seq(Range(q))
  BY DEF IsSequence
<1>2. q \in Seq(S) /\ e \in S
  BY <1>1, SeqMonotonic
<1> HIDE DEF S
<1>3. r \in Seq(S)
  BY <1>2
<1>4. IsSequence(r)
  BY <1>3, SequenceOf
<1> QED  BY <1>2, <1>3, <1>4 DEF Longer

\* The first message is taken off a queue.
LEMMA TailFacts ==
  ASSUME NEW q, IsSequence(q), q # <<>>, NEW r, r = Tail(q)
  PROVE  Shorter(r, q)
<1> DEFINE S == Range(q)
<1>1. q \in Seq(S)
  BY DEF IsSequence
<1> HIDE DEF S
<1>2. r \in Seq(S)
  BY <1>1
<1>3. IsSequence(r)
  BY <1>2, SequenceOf
<1>4. Len(q) \in Nat /\ Len(q) > 0 /\ Len(r) = Len(q) - 1 /\ \A k \in 1 .. Len(r) : r[k] = q[k + 1]
  BY <1>1
<1> QED  BY <1>1, <1>2, <1>3, <1>4 DEF Shorter

\* A queue is put behind another.
LEMMA JoinFacts ==
  ASSUME NEW q, IsSequence(q), NEW p, IsSequence(p), NEW r, r = q \o p
  PROVE  Joined(r, q, p)
<1> DEFINE S == Range(q) \cup Range(p)
<1>1. q \in Seq(Range(q)) /\ p \in Seq(Range(p))
  BY DEF IsSequence
<1>2. q \in Seq(S) /\ p \in Seq(S)
  BY <1>1, SeqMonotonic
<1> HIDE DEF S
<1>3. r \in Seq(S)
  BY <1>2
<1>4. IsSequence(r)
  BY <1>3, SequenceOf
<1>5. /\ Len(q) \in Nat /\ Len(p) \in Nat /\ Len(r) = Len(q) + Len(p)
      /\ \A k \in 1 .. Len(r) : r[k] = IF k <= Len(q) THEN q[k] ELSE p[k - Len(q)]
  BY <1>2
<1>6. /\ DOMAIN q = 1 .. Len(q) /\ DOMAIN p = 1 .. Len(p) /\ DOMAIN r = 1 .. Len(r)
  BY <1>2, <1>3
<1>7. \A k \in DOMAIN q : r[k] = q[k]
  BY <1>5, <1>6
<1>8. \A k \in DOMAIN p : r[Len(q) + k] = p[k]
  <2> TAKE k \in DOMAIN p
  <2>1. Len(q) + k \in 1 .. Len(r) /\ ~(Len(q) + k <= Len(q)) /\ (Len(q) + k) - Len(q) = k
    BY <1>5, <1>6
  <2> QED  BY <1>5, <2>1
<1> QED  BY <1>4, <1>5, <1>6, <1>7, <1>8 DEF Joined

IsTables(t) ==
  t = [sessions |-> t.sessions, trips |-> t.trips, ongoing |-> t.ongoing,
       dropped |-> t.dropped, full |-> t.full, calls |-> t.calls, told |-> t.told]
\* The tables u are those of t in all that the sessions and the calls depend on.
Same(u, t) ==
  /\ IsTables(u) /\ u.sessions = t.sessions /\ u.trips = t.trips /\ u.calls = t.calls
  /\ u.told = t.told
Called(u, t, c) ==
  /\ IsTables(u) /\ u.sessions = t.sessions /\ u.trips = t.trips /\ Longer(u.calls, t.calls, c)
  /\ u.told = t.told

\* What the small changes of the tables change.
LEMMA TablesFacts ==
  ASSUME NEW t, IsTables(t)
  PROVE  /\ \A b : Same(FullWanted(t, b), t) /\ Same(FullUnwanted(t, b), t)
         /\ \A x : Same([t EXCEPT !.ongoing = x], t) /\ Same([t EXCEPT !.dropped = x], t)
                   /\ Same([t EXCEPT !.full = x], t)
         /\ \A s : IsTables(Telling(t, s)) /\ Telling(t, s).sessions = t.sessions
                   /\ Telling(t, s).trips = t.trips /\ Telling(t, s).calls = t.calls
                   /\ Telling(t, s).told = t.told \cup {s}
         /\ \A s, o : IsTables(Saving(t, s, o)) /\ Saving(t, s, o).sessions = [t.sessions EXCEPT ![s] = o]
                   /\ Saving(t, s, o).trips = t.trips /\ Saving(t, s, o).calls = t.calls
                   /\ Saving(t, s, o).told = t.told
<1>1. \A b : Same(FullWanted(t, b), t) /\ Same(FullUnwanted(t, b), t)
  BY DEF IsTables, Same, FullWanted, FullUnwanted
<1>2. \A x : Same([t EXCEPT !.ongoing = x], t) /\ Same([t EXCEPT !.dropped = x], t)
             /\ Same([t EXCEPT !.full = x], t)
  BY DEF IsTables, Same
<1>3. \A s : IsTables(Telling(t, s)) /\ Telling(t, s).sessions = t.sessions
             /\ Telling(t, s).trips = t.trips /\ Telling(t, s).calls = t.calls
             /\ Telling(t, s).told = t.told \cup {s}
  BY DEF IsTables, Telling
<1>4. \A s, o : IsTables(Saving(t, s, o)) /\ Saving(t, s, o).sessions = [t.sessions EXCEPT ![s] = o]
                /\ Saving(t, s, o).trips = t.trips /\ Saving(t, s, o).calls = t.calls
                /\ Saving(t, s, o).told = t.told
  BY DEF IsTables, Saving
<1> QED  BY <1>1, <1>2, <1>3, <1>4

\* A call to the modem is put at the end of those that wait.
LEMMA CallingFacts ==
  ASSUME NEW t, IsTables(t), IsSequence(t.calls), NEW c
  PROVE  Called(Calling(t, c), t, c)
<1>1. /\ IsTables(Calling(t, c)) /\ Calling(t, c).sessions = t.sessions
      /\ Calling(t, c).trips = t.trips /\ Calling(t, c).told = t.told
      /\ Calling(t, c).calls = Append(t.calls, c)
  BY DEF IsTables, Calling
<1> QED  BY <1>1, AppendFacts DEF Called

-----------------------------------------------------------------------------
(***************************************************************************)
(* The invariant, of the adapter's tables t and its queue q.               *)
(***************************************************************************)
Wanted(o) == IF o = NoOptions \/ o.mode = "trip" THEN NoOptions ELSE o
Kept(t, s) == Wanted(t.sessions[s]) = NoOptions
Gone(t, s) == t.sessions[s] = NoOptions /\ t.trips[s] = NoTrip

IsOpen(c) == c.op = "open"
IsBatchCall(c) == c.op \in {"startB", "stopB"}
IsUp(m) == m.k = "answer" /\ m.call.cb = "engineUp"
Outcome(c) == IF c.op = "startB" THEN c.o ELSE NoOptions

TripOps == {"startT", "restartT", "stopT", "query"}
TripCbs == {"tripStarted", "tripQueried", "tripRestarted", "tripStopped"}
\* Those of no session.
CommonCbs == {"tripsQueried", "tripsRestarted", "tripsReset"}

\* What a call, or the answer to it, presumes of the tables.
Foreign(c) == c.s = NoSession /\ c.op \in TripOps /\ c.cb \in CommonCbs \cup {"ignore"}
StartFormed(t, c) ==
  /\ c.op = "startB" /\ c.cb = "started"
  /\ t.sessions[c.s] = c.o /\ Wanted(c.o) # NoOptions
StopFormed(t, c) ==
  c.op = "stopB" /\ c.cb = "stopped" /\ Gone(t, c.s) /\ (c.restart => c.o \in Options)
TripFormed(t, c) ==
  /\ c.op \in TripOps /\ c.cb \in TripCbs /\ Kept(t, c.s)
  /\ c.cb = "tripStopped" /\ c.restart => c.o \in Options
OwnFormed(t, c) ==
  c.s \in Sessions /\ (StartFormed(t, c) \/ StopFormed(t, c) \/ TripFormed(t, c))
CallFormed(t, c) ==
  \/ c.s = NoSession /\ c.op = "open" /\ c.cb = "engineUp"
  \/ Foreign(c)
  \/ c.s \in Sessions /\ c.op = "startB" /\ c.cb = "ignore"
  \/ OwnFormed(t, c)

CommandFormed(t, m) ==
  /\ m.call.s \in Sessions
  /\ \/ m.k = "start" /\ m.call.o \in Options /\ Gone(t, m.call.s)
     \/ m.k = "update" /\ m.call.o \in Options
     \/ m.k = "stop"
MessageFormed(t, m) ==
  \/ CommandFormed(t, m)
  \/ m.k = "completed" /\ m.call.s = NoSession
  \/ m.k = "answer" /\ CallFormed(t, m.call) /\ m.call.cb # "ignore"

\* Nothing of a session is under way, but the starts that a restart of the modem repeats.
Of(c, s) == c.s = s /\ c.cb # "ignore"
Idle(t, q, s) ==
  /\ \A i \in DOMAIN t.calls : ~Of(t.calls[i], s)
  /\ \A i \in DOMAIN q : q[i].call.s # s
  /\ \A i \in DOMAIN pendingMsgs : pendingMsgs[i].call.s # s
OneOf(t, q, s) ==
  /\ \A i, j \in DOMAIN t.calls : Of(t.calls[i], s) /\ Of(t.calls[j], s) => i = j
  /\ \A i, j \in DOMAIN q : q[i].call.s = s /\ q[j].call.s = s => i = j
  /\ \A i, j \in DOMAIN pendingMsgs :
       pendingMsgs[i].call.s = s /\ pendingMsgs[j].call.s = s => i = j
  /\ \A i \in DOMAIN t.calls, j \in DOMAIN q : ~(Of(t.calls[i], s) /\ q[j].call.s = s)
  /\ \A i \in DOMAIN t.calls, j \in DOMAIN pendingMsgs :
       ~(Of(t.calls[i], s) /\ pendingMsgs[j].call.s = s)
  /\ \A i \in DOMAIN q, j \in DOMAIN pendingMsgs :
       ~(q[i].call.s = s /\ pendingMsgs[j].call.s = s)

Formed(t, q) ==
  /\ IsTables(t) /\ IsSequence(t.calls) /\ IsSequence(q)
  /\ t.sessions \in [Sessions -> Options \cup {NoOptions}]
  /\ t.trips = [s \in Sessions |-> t.trips[s]]
  /\ \A i \in DOMAIN t.calls : CallFormed(t, t.calls[i])
  /\ \A i \in DOMAIN q : MessageFormed(t, q[i])
  /\ \A i \in DOMAIN pendingMsgs : CommandFormed(t, pendingMsgs[i])
  /\ \A s \in Sessions : t.trips[s] # NoTrip => Kept(t, s)
  /\ \A s \in Sessions \ started : Gone(t, s) /\ Idle(t, q, s)

Surroundings ==
  /\ IsSequence(pendingMsgs) /\ known \in BOOLEAN /\ started \subseteq Sessions
  /\ engine = [up |-> engine.up, batch |-> engine.batch, trip |-> engine.trip,
               acc |-> engine.acc, restarts |-> engine.restarts]
  /\ engine.up \in BOOLEAN /\ engine.restarts \in {0, 1} /\ engine.restarts <= MaxRestarts
  /\ engine.batch = [s \in Sessions |-> engine.batch[s]]
  /\ ~engine.up => \A s \in Sessions : engine.batch[s] = NoOptions
  /\ known => pendingMsgs = <<>>

\* The modem opens once for each of its starts.
Openings(t, q) ==
  /\ \A i, j \in DOMAIN t.calls : IsOpen(t.calls[i]) /\ IsOpen(t.calls[j]) => i = j
  /\ engine.up <=> \A i \in DOMAIN t.calls : ~IsOpen(t.calls[i])
  /\ known => /\ \A i, j \in DOMAIN q : IsUp(q[i]) /\ IsUp(q[j]) => i = j
              /\ engine.restarts = 0 \/ ~engine.up => \A i \in DOMAIN q : ~IsUp(q[i])
              /\ engine.restarts = 0 => engine.up
  /\ ~known => /\ \A i, j, k \in DOMAIN q :
                    ~(i < j /\ j < k /\ IsUp(q[i]) /\ IsUp(q[j]) /\ IsUp(q[k]))
               /\ engine.restarts = 0 \/ ~engine.up =>
                    \A i, j \in DOMAIN q : IsUp(q[i]) /\ IsUp(q[j]) => i = j
               /\ engine.restarts = 0 /\ ~engine.up => \A i \in DOMAIN q : ~IsUp(q[i])

\* Before the engine is known the adapter keeps what clients ask for.
Empty(t, q) ==
  ~known => /\ \A s \in Sessions : Gone(t, s) /\ engine.batch[s] = NoOptions
            /\ \A i \in DOMAIN t.calls : IsOpen(t.calls[i])
            /\ \A i \in DOMAIN q : q[i].k = "answer" => IsUp(q[i])

\* What the modem runs once it has worked off the calls: what the session wants, or
\* nothing as long as the adapter has not heard that the modem is up.
Opening(q) == ~engine.up \/ \E i \in DOMAIN q : IsUp(q[i])
Counts(t, i, s) ==
  /\ t.calls[i].s = s /\ IsBatchCall(t.calls[i])
  /\ \A j \in DOMAIN t.calls : IsOpen(t.calls[j]) => j < i
IsLast(t, i, s) == Counts(t, i, s) /\ \A j \in DOMAIN t.calls : Counts(t, j, s) => j <= i
Serves(t, q, s, o) == o = Wanted(t.sessions[s]) \/ (Opening(q) /\ o = NoOptions)
Foreseen(t, q, s) ==
  /\ \A i \in DOMAIN t.calls : IsLast(t, i, s) => Serves(t, q, s, Outcome(t.calls[i]))
  /\ (\A i \in DOMAIN t.calls : ~Counts(t, i, s)) => Serves(t, q, s, engine.batch[s])

\* A refusal is handled before the sessions are started again.
Off(t, s) == engine.batch[s] = NoOptions /\ \A i \in DOMAIN t.calls : ~Counts(t, i, s)
Failures(t, q) ==
  /\ \A i \in DOMAIN q :
       q[i].k = "answer" /\ ~q[i].ok /\ q[i].call.cb \in {"started", "stopped"} =>
         /\ ~engine.up \/ \E j \in DOMAIN q : i < j /\ IsUp(q[j])
         /\ q[i].call.cb = "started" => Off(t, q[i].call.s)
  /\ \A i \in DOMAIN t.calls :
       t.calls[i].cb = "started" /\ (\E j \in DOMAIN t.calls : i < j /\ IsOpen(t.calls[j])) =>
         Off(t, t.calls[i].s)

BatchInv(t, q) ==
  /\ Formed(t, q) /\ Openings(t, q) /\ Empty(t, q) /\ Failures(t, q)
  /\ \A s \in Sessions : OneOf(t, q, s) /\ Foreseen(t, q, s)

\* The modem refuses only what it is asked while it is down, clients wait for answers, and
\* the modem restarts once at most.
Calm == ~ModemFails /\ ClientsWait /\ MaxRestarts \in {0, 1}
Constants ==
  /\ Sessions \subseteq Nat \ {0} /\ IsFiniteSet(Sessions)
  /\ \A o \in Options : o.mode \in {"routine", "manual", "trip"}

-----------------------------------------------------------------------------
\* What a handler leaves alone of the other sessions.
SameBut(u, t, s) ==
  /\ IsTables(u) /\ u.sessions \in [Sessions -> Options \cup {NoOptions}]
  /\ u.trips = [x \in Sessions |-> u.trips[x]]
  /\ \A x \in Sessions \ {s} :
       u.sessions[x] = t.sessions[x] /\ (t.trips[x] = NoTrip => u.trips[x] = NoTrip)
  /\ s \in Sessions => (u.trips[s] # NoTrip => Kept(u, s))

\* Calls and messages of other sessions keep their form.
LEMMA FormKept ==
  ASSUME Constants, NEW t, NEW u, NEW s, SameBut(u, t, s)
  PROVE  /\ \A c : CallFormed(t, c) /\ ~Of(c, s) => CallFormed(u, c)
         /\ \A m : CommandFormed(t, m) /\ m.call.s # s => CommandFormed(u, m)
         /\ \A m : MessageFormed(t, m) /\ m.call.s # s => MessageFormed(u, m)
<1>0. NoSession \notin Sessions
  BY DEF Constants, NoSession
<1>1. \A x \in Sessions \ {s} : Kept(t, x) => Kept(u, x)
  BY DEF SameBut, Kept
<1>2. \A x \in Sessions \ {s} : Gone(t, x) => Gone(u, x)
  BY DEF SameBut, Gone
<1>3. \A c : OwnFormed(t, c) /\ c.s # s => OwnFormed(u, c)
  <2> SUFFICES ASSUME NEW c, OwnFormed(t, c), c.s # s PROVE OwnFormed(u, c)
    OBVIOUS
  <2>1. c.s \in Sessions \ {s}
    BY DEF OwnFormed
  <2>2. StartFormed(t, c) => StartFormed(u, c)
    BY <2>1 DEF SameBut, StartFormed
  <2>3. StopFormed(t, c) => StopFormed(u, c)
    BY <2>1, <1>2 DEF StopFormed
  <2>4. TripFormed(t, c) => TripFormed(u, c)
    BY <2>1, <1>1 DEF TripFormed
  <2> QED  BY <2>1, <2>2, <2>3, <2>4 DEF OwnFormed
<1>4. \A c : CallFormed(t, c) /\ ~Of(c, s) => CallFormed(u, c)
  <2>1. \A c : OwnFormed(t, c) /\ ~Of(c, s) => c.s # s
    BY DEF OwnFormed, Of, StartFormed, StopFormed, TripFormed, TripCbs
  <2> QED  BY <2>1, <1>3 DEF CallFormed
<1>5. \A m : CommandFormed(t, m) /\ m.call.s # s => CommandFormed(u, m)
  BY <1>2 DEF CommandFormed
<1>6. \A m : MessageFormed(t, m) /\ m.call.s # s => MessageFormed(u, m)
  BY <1>4, <1>5 DEF MessageFormed, Of
<1> QED  BY <1>4, <1>5, <1>6

\* What counts of the calls when one that does not open the modem is added.
LEMMA CountsAdded ==
  ASSUME NEW t, NEW u, NEW c, Longer(u.calls, t.calls, c), ~IsOpen(c)
  PROVE  \A x : /\ \A i \in DOMAIN t.calls : Counts(u, i, x) <=> Counts(t, i, x)
                /\ Counts(u, Len(t.calls) + 1, x) <=> c.s = x /\ IsBatchCall(c)
<1> TAKE x
<1>1. \A j \in DOMAIN u.calls : j \in DOMAIN t.calls \/ j = Len(t.calls) + 1
  BY DEF Longer
<1>2. \A j \in DOMAIN t.calls : j \in DOMAIN u.calls /\ u.calls[j] = t.calls[j] /\ j < Len(t.calls) + 1
  BY DEF Longer
<1>3. u.calls[Len(t.calls) + 1] = c
  BY DEF Longer
<1>4. \A i : (\A j \in DOMAIN u.calls : IsOpen(u.calls[j]) => j < i)
             <=> (\A j \in DOMAIN t.calls : IsOpen(t.calls[j]) => j < i)
  BY <1>1, <1>2, <1>3
<1> QED  BY <1>2, <1>3, <1>4 DEF Counts

\* A call about a session that is added last is the last that counts.
LEMMA LastAdded ==
  ASSUME NEW t, NEW u, NEW c, Longer(u.calls, t.calls, c), ~IsOpen(c), IsBatchCall(c)
  PROVE  /\ \A i \in DOMAIN u.calls : IsLast(u, i, c.s) => u.calls[i] = c
         /\ Len(t.calls) + 1 \in DOMAIN u.calls /\ Counts(u, Len(t.calls) + 1, c.s)
<1> DEFINE n == Len(t.calls) + 1
<1>1. /\ \A j \in DOMAIN u.calls : j \in DOMAIN t.calls \/ j = n
      /\ \A j \in DOMAIN t.calls : j \in DOMAIN u.calls /\ u.calls[j] = t.calls[j] /\ j < n
      /\ n \in DOMAIN u.calls /\ u.calls[n] = c /\ n \in Nat
  BY DEF Longer
<1>2. Counts(u, n, c.s)
  BY CountsAdded
<1>3. \A i \in DOMAIN t.calls : i \in Nat
  BY DEF Longer
<1>5. n \in DOMAIN u.calls /\ Counts(u, n, c.s)
  BY <1>1, <1>2
<1> HIDE DEF n
<1>4. ASSUME NEW i \in DOMAIN u.calls, IsLast(u, i, c.s)
      PROVE  u.calls[i] = c
  <2>1. n <= i
    BY <1>1, <1>2, <1>4 DEF IsLast
  <2> QED  BY <2>1, <1>1, <1>3
<1> QED  BY <1>4, <1>5 DEF n

\* A call that is not about a session's batching leaves its last one alone.
LEMMA LastStays ==
  ASSUME NEW t, NEW u, NEW c, Longer(u.calls, t.calls, c), ~IsOpen(c), NEW x,
         ~(c.s = x /\ IsBatchCall(c))
  PROVE  /\ \A i \in DOMAIN u.calls : IsLast(u, i, x) =>
              i \in DOMAIN t.calls /\ IsLast(t, i, x) /\ u.calls[i] = t.calls[i]
         /\ (\A i \in DOMAIN u.calls : ~Counts(u, i, x)) <=>
              (\A i \in DOMAIN t.calls : ~Counts(t, i, x))
<1> DEFINE n == Len(t.calls) + 1
<1>1. /\ \A j \in DOMAIN u.calls : j \in DOMAIN t.calls \/ j = n
      /\ \A j \in DOMAIN t.calls : j \in DOMAIN u.calls /\ u.calls[j] = t.calls[j] /\ j < n
      /\ n \in DOMAIN u.calls /\ u.calls[n] = c /\ n \in Nat
  BY DEF Longer
<1>2. /\ \A i \in DOMAIN t.calls : Counts(u, i, x) <=> Counts(t, i, x)
      /\ ~Counts(u, n, x)
  BY CountsAdded
<1> HIDE DEF n
<1>5. ASSUME NEW i \in DOMAIN u.calls, IsLast(u, i, x)
      PROVE  i \in DOMAIN t.calls /\ IsLast(t, i, x) /\ u.calls[i] = t.calls[i]
  <2>1. i \in DOMAIN t.calls
    BY <1>1, <1>2, <1>5 DEF IsLast
  <2> QED  BY <2>1, <1>1, <1>2, <1>5 DEF IsLast
<1> QED  BY <1>1, <1>2, <1>5

\* Tables that change without a call, those of s only when nothing of s is under way.
LEMMA SilentKeeps ==
  ASSUME Constants, Surroundings, NEW t, NEW q, BatchInv(t, q), NEW u, NEW s,
         SameBut(u, t, s), u.calls = t.calls,
         s \in Sessions => /\ Idle(t, q, s) /\ s \in started /\ known
                           /\ \/ Kept(u, s) /\ Kept(t, s)
                              \/ Off(t, s) /\ (Kept(u, s) \/ Opening(q))
                              \/ Kept(t, s) /\ Opening(q)
  PROVE  BatchInv(u, q) /\ \A x \in Sessions : Idle(t, q, x) => Idle(u, q, x)
<1>1. \A x \in Sessions : Idle(t, q, x) => Idle(u, q, x)
  BY DEF Idle
<1>2. Formed(u, q)
  <2>1. /\ \A i \in DOMAIN t.calls : ~Of(t.calls[i], s) \/ s \notin Sessions
        /\ \A i \in DOMAIN q : q[i].call.s # s \/ s \notin Sessions
        /\ \A i \in DOMAIN pendingMsgs : pendingMsgs[i].call.s # s \/ s \notin Sessions
    BY DEF Idle
  <2>2. \A c : CallFormed(t, c) /\ (~Of(c, s) \/ s \notin Sessions) => CallFormed(u, c)
    <3>1. CASE s \in Sessions
      BY <3>1, FormKept
    <3>2. CASE s \notin Sessions
      <4>1. SameBut(u, t, -1)
        BY <3>2, -1 \notin Sessions DEF SameBut, Constants
      <4>2. \A c : CallFormed(t, c) => ~Of(c, -1)
        BY DEF CallFormed, Of, Constants, OwnFormed, Foreign, NoSession
      <4> QED  BY <4>1, <4>2, FormKept
    <3> QED  BY <3>1, <3>2
  <2>3. \A m : CommandFormed(t, m) /\ (m.call.s # s \/ s \notin Sessions) => CommandFormed(u, m)
    BY FormKept DEF CommandFormed
  <2>4. \A m : MessageFormed(t, m) /\ (m.call.s # s \/ s \notin Sessions) => MessageFormed(u, m)
    BY <2>2, <2>3 DEF MessageFormed, Of
  <2>5. \A x \in Sessions : u.trips[x] # NoTrip => Kept(u, x)
    <3>1. \A x \in Sessions \ {s} : u.trips[x] # NoTrip => t.trips[x] # NoTrip /\ u.sessions[x] = t.sessions[x]
      BY DEF SameBut
    <3> QED  BY <3>1 DEF SameBut, BatchInv, Formed, Kept
  <2>6. \A x \in Sessions \ started : Gone(u, x) /\ Idle(u, q, x)
    <3>1. \A x \in Sessions \ started : x # s /\ Gone(t, x)
      BY DEF BatchInv, Formed
    <3>2. \A x \in Sessions \ started : Gone(u, x)
      BY <3>1 DEF SameBut, Gone
    <3> QED  BY <1>1, <3>2 DEF BatchInv, Formed
  <2>7. IsTables(u) /\ u.sessions \in [Sessions -> Options \cup {NoOptions}] /\ u.trips = [x \in Sessions |-> u.trips[x]]
    BY DEF SameBut
  <2> QED  BY <2>1, <2>2, <2>3, <2>4, <2>5, <2>6, <2>7 DEF BatchInv, Formed
<1>3. Openings(u, q)
  BY DEF BatchInv, Openings
<1>4. Empty(u, q)
  <2>1. ~known => s \notin Sessions
    OBVIOUS
  <2>2. ~known => \A x \in Sessions : Gone(u, x)
    BY <2>1 DEF BatchInv, Empty, SameBut, Gone
  <2> QED  BY <2>2 DEF BatchInv, Empty
<1>5. \A i, x : Counts(u, i, x) <=> Counts(t, i, x)
  BY DEF Counts
<1>6. \A x : Off(u, x) <=> Off(t, x)
  BY <1>5 DEF Off
<1>7. Failures(u, q)
  BY <1>6 DEF BatchInv, Failures
<1>8. ASSUME NEW x \in Sessions
      PROVE  OneOf(u, q, x) /\ Foreseen(u, q, x)
  <2>1. OneOf(u, q, x)
    BY DEF BatchInv, OneOf
  <2>2. \A i : IsLast(u, i, x) <=> IsLast(t, i, x)
    BY <1>5 DEF IsLast
  <2>3. CASE x # s
    <3>1. u.sessions[x] = t.sessions[x]
      BY <2>3 DEF SameBut
    <3>2. \A o : Serves(u, q, x, o) <=> Serves(t, q, x, o)
      BY <3>1 DEF Serves
    <3> QED  BY <2>1, <2>2, <1>5, <3>2 DEF BatchInv, Foreseen
  <2>4. CASE x = s /\ Kept(u, s) /\ Kept(t, s)
    <3>2. \A o : Serves(u, q, x, o) <=> Serves(t, q, x, o)
      BY <2>4 DEF Serves, Kept
    <3> QED  BY <2>1, <2>2, <1>5, <3>2 DEF BatchInv, Foreseen
  <2>5. CASE x = s /\ Off(t, s) /\ (Kept(u, s) \/ Opening(q))
    <3>1. Serves(u, q, x, NoOptions)
      BY <2>5 DEF Serves, Kept
    <3> QED  BY <2>1, <2>5, <1>5, <3>1 DEF Foreseen, Off, IsLast
  <2>6. CASE x = s /\ Kept(t, s) /\ Opening(q)
    <3>1. \A o : Serves(t, q, x, o) => Serves(u, q, x, o)
      BY <2>6 DEF Serves, Kept
    <3> QED  BY <2>1, <2>2, <1>5, <3>1 DEF BatchInv, Foreseen
  <2> QED  BY <2>3, <2>4, <2>5, <2>6
<1> QED  BY <1>1, <1>2, <1>3, <1>4, <1>7, <1>8 DEF BatchInv

\* A call is added: of the session s, of which nothing was under way, or of none.
LEMMA CallKeeps ==
  ASSUME Constants, Surroundings, NEW t, NEW q, BatchInv(t, q), known, NEW u, NEW s, NEW c,
         SameBut(u, t, s), Longer(u.calls, t.calls, c), c.s = s,
         \/ s \in Sessions /\ s \in started /\ Idle(t, q, s) /\ OwnFormed(u, c)
            /\ \/ IsBatchCall(c) /\ Outcome(c) = Wanted(u.sessions[s])
               \/ ~IsBatchCall(c) /\ Kept(u, s) /\ Kept(t, s)
         \/ s \notin Sessions /\ Foreign(c)
  PROVE  BatchInv(u, q) /\ \A x \in Sessions \ {s} : Idle(t, q, x) => Idle(u, q, x)
<1> DEFINE n == Len(t.calls) + 1
<1>a. /\ \A j \in DOMAIN u.calls : j \in DOMAIN t.calls \/ j = n
      /\ \A j \in DOMAIN t.calls : j \in DOMAIN u.calls /\ u.calls[j] = t.calls[j] /\ j < n
      /\ n \in DOMAIN u.calls /\ u.calls[n] = c /\ n \in Nat /\ n \notin DOMAIN t.calls
      /\ IsSequence(u.calls)
  BY DEF Longer
<1> HIDE DEF n
<1>b. ~IsOpen(c)
  BY DEF IsOpen, OwnFormed, Foreign, StartFormed, StopFormed, TripFormed, TripOps
<1>c. s \in Sessions => Of(c, s)
  BY DEF OwnFormed, Of, StartFormed, StopFormed, TripFormed, TripCbs
<1>d. /\ \A i \in DOMAIN t.calls : ~Of(t.calls[i], s) \/ s \notin Sessions
      /\ \A i \in DOMAIN q : q[i].call.s # s \/ s \notin Sessions
      /\ \A i \in DOMAIN pendingMsgs : pendingMsgs[i].call.s # s \/ s \notin Sessions
  BY DEF Idle
<1>1. \A x \in Sessions \ {s} : Idle(t, q, x) => Idle(u, q, x)
  BY <1>a DEF Idle, Of
<1>2. Formed(u, q)
  <2>2. \A e : CallFormed(t, e) /\ (~Of(e, s) \/ s \notin Sessions) => CallFormed(u, e)
    <3>1. CASE s \in Sessions
      BY <3>1, FormKept
    <3>2. CASE s \notin Sessions
      <4>1. SameBut(u, t, -1)
        BY <3>2, -1 \notin Sessions DEF SameBut, Constants
      <4>2. \A e : CallFormed(t, e) => ~Of(e, -1)
        BY DEF CallFormed, Of, Constants, OwnFormed, Foreign, NoSession
      <4> QED  BY <4>1, <4>2, FormKept
    <3> QED  BY <3>1, <3>2
  <2>3. \A m : CommandFormed(t, m) /\ (m.call.s # s \/ s \notin Sessions) => CommandFormed(u, m)
    BY FormKept DEF CommandFormed
  <2>4. \A m : MessageFormed(t, m) /\ (m.call.s # s \/ s \notin Sessions) => MessageFormed(u, m)
    BY <2>2, <2>3 DEF MessageFormed, Of
  <2>5. \A x \in Sessions : u.trips[x] # NoTrip => Kept(u, x)
    <3>1. \A x \in Sessions \ {s} : u.trips[x] # NoTrip => t.trips[x] # NoTrip /\ u.sessions[x] = t.sessions[x]
      BY DEF SameBut
    <3> QED  BY <3>1 DEF SameBut, BatchInv, Formed, Kept
  <2>6. \A x \in Sessions \ started : Gone(u, x) /\ Idle(u, q, x)
    <3>1. \A x \in Sessions \ started : x # s /\ Gone(t, x)
      BY DEF BatchInv, Formed
    <3>2. \A x \in Sessions \ started : Gone(u, x)
      BY <3>1 DEF SameBut, Gone
    <3> QED  BY <1>1, <3>1, <3>2 DEF BatchInv, Formed
  <2>7. IsTables(u) /\ u.sessions \in [Sessions -> Options \cup {NoOptions}] /\ u.trips = [x \in Sessions |-> u.trips[x]]
    BY DEF SameBut
  <2>8. CallFormed(u, c)
    BY DEF CallFormed
  <2>9. \A i \in DOMAIN u.calls : CallFormed(u, u.calls[i])
    <3>1. \A i \in DOMAIN t.calls : CallFormed(u, t.calls[i])
      BY <2>2, <1>d DEF BatchInv, Formed
    <3> QED  BY <3>1, <2>8, <1>a
  <2> QED  BY <1>a, <1>d, <2>3, <2>4, <2>5, <2>6, <2>7, <2>9 DEF BatchInv, Formed
<1>3. Openings(u, q)
  <2>1. \A i, j \in DOMAIN u.calls : IsOpen(u.calls[i]) /\ IsOpen(u.calls[j]) => i = j
    BY <1>a, <1>b DEF BatchInv, Openings
  <2>2. engine.up <=> \A i \in DOMAIN u.calls : ~IsOpen(u.calls[i])
    BY <1>a, <1>b DEF BatchInv, Openings
  <2> QED  BY <2>1, <2>2 DEF BatchInv, Openings
<1>4. Empty(u, q)
  BY DEF Empty
<1>5. /\ \A x : \A i \in DOMAIN t.calls : Counts(u, i, x) <=> Counts(t, i, x)
      /\ \A x : Counts(u, n, x) <=> c.s = x /\ IsBatchCall(c)
  BY <1>b, CountsAdded DEF n
<1>6. \A x \in Sessions \ {s} : Off(t, x) => Off(u, x)
  BY <1>5, <1>a DEF Off
<1>7. Failures(u, q)
  <2>1. ASSUME NEW i \in DOMAIN q, q[i].k = "answer", ~q[i].ok, q[i].call.cb \in {"started", "stopped"}
        PROVE  /\ ~engine.up \/ \E j \in DOMAIN q : i < j /\ IsUp(q[j])
               /\ q[i].call.cb = "started" => Off(u, q[i].call.s)
    <3>1. /\ ~engine.up \/ \E j \in DOMAIN q : i < j /\ IsUp(q[j])
          /\ q[i].call.cb = "started" => Off(t, q[i].call.s)
      BY <2>1 DEF BatchInv, Failures
    <3>2. q[i].call.cb = "started" => q[i].call.s \in Sessions
      <4>1. MessageFormed(t, q[i])
        BY DEF BatchInv, Formed
      <4> QED  BY <4>1, <2>1 DEF MessageFormed, CommandFormed, CallFormed, Foreign, CommonCbs, OwnFormed
    <3>3. q[i].call.cb = "started" => q[i].call.s # s
      BY <3>2, <1>d
    <3> QED  BY <3>1, <3>2, <3>3, <1>6
  <2>2. ASSUME NEW i \in DOMAIN u.calls, u.calls[i].cb = "started",
               NEW j \in DOMAIN u.calls, i < j, IsOpen(u.calls[j])
        PROVE  Off(u, u.calls[i].s)
    <3>1. j \in DOMAIN t.calls /\ IsOpen(t.calls[j])
      BY <1>a, <1>b, <2>2
    <3>2. j \in Nat /\ i \in Nat
      BY <3>1, <2>2, <1>a DEF Longer
    <3>3. i \in DOMAIN t.calls /\ t.calls[i].cb = "started"
      BY <3>1, <3>2, <1>a, <2>2
    <3>4. Off(t, t.calls[i].s)
      BY <3>1, <3>3, <2>2 DEF BatchInv, Failures
    <3>5. CallFormed(t, t.calls[i])
      BY <3>3 DEF BatchInv, Formed
    <3>6. t.calls[i].s \in Sessions /\ t.calls[i].cb # "ignore"
      BY <3>3, <3>5 DEF CallFormed, Foreign, CommonCbs, OwnFormed
    <3>7. t.calls[i].s # s
      BY <3>3, <3>6, <1>d DEF Of
    <3> QED  BY <3>3, <3>4, <3>6, <3>7, <1>6, <1>a
  <2> QED  BY <2>1, <2>2 DEF Failures
<1>8. ASSUME NEW x \in Sessions
      PROVE  OneOf(u, q, x) /\ Foreseen(u, q, x)
  <2>1. OneOf(u, q, x)
    <3>1. CASE x = s
      <4>1. \A i \in DOMAIN u.calls : Of(u.calls[i], x) => i = n
        BY <3>1, <1>a, <1>d
      <4> QED  BY <4>1, <3>1, <1>d DEF OneOf
    <3>2. CASE x # s
      <4>1. ~Of(c, x)
        BY <3>2 DEF Of
      <4>2. \A i \in DOMAIN u.calls : Of(u.calls[i], x) => i \in DOMAIN t.calls /\ Of(t.calls[i], x)
        BY <4>1, <1>a
      <4> QED  BY <4>2 DEF BatchInv, OneOf
    <3> QED  BY <3>1, <3>2
  <2>2. Foreseen(t, q, x)
    BY DEF BatchInv
  <2>3. CASE x = s /\ IsBatchCall(c)
    <3>1. Outcome(c) = Wanted(u.sessions[x])
      BY <2>3
    <3>2. c.s = x /\ IsBatchCall(c) /\ Longer(u.calls, t.calls, c)
      BY <2>3
    <3>3. /\ \A i \in DOMAIN u.calls : IsLast(u, i, x) => u.calls[i] = c
          /\ \E i \in DOMAIN u.calls : Counts(u, i, x)
      BY <3>2, <1>b, LastAdded
    <3> QED  BY <2>1, <3>1, <3>3 DEF Foreseen, Serves
  <2>4. CASE ~(x = s /\ IsBatchCall(c))
    <3>1. Wanted(u.sessions[x]) = Wanted(t.sessions[x])
      BY <2>4 DEF SameBut, Kept
    <3>2. \A o : Serves(u, q, x, o) <=> Serves(t, q, x, o)
      BY <3>1 DEF Serves
    <3>3. /\ \A i \in DOMAIN u.calls : IsLast(u, i, x) =>
               i \in DOMAIN t.calls /\ IsLast(t, i, x) /\ u.calls[i] = t.calls[i]
          /\ (\A i \in DOMAIN u.calls : ~Counts(u, i, x)) <=>
               (\A i \in DOMAIN t.calls : ~Counts(t, i, x))
      BY <2>4, <1>b, LastStays
    <3> QED  BY <2>1, <2>2, <3>2, <3>3 DEF Foreseen
  <2> QED  BY <2>3, <2>4
<1> QED  BY <1>1, <1>2, <1>3, <1>4, <1>7, <1>8 DEF BatchInv

-----------------------------------------------------------------------------
(***************************************************************************)
(* The handlers' parts keep the invariant, those about a session when      *)
(* nothing of it is under way.                                             *)
(***************************************************************************)
Keeps(u, t, q, s) ==
  BatchInv(u, q) /\ \A x \in Sessions \ {s} : Idle(t, q, x) => Idle(u, q, x)
KeepsAll(u, t, q) ==
  BatchInv(u, q) /\ \A x \in Sessions : Idle(t, q, x) => Idle(u, q, x)
\* Handling something of s, the last that was under way.
Ready(t, q, s) ==
  /\ Constants /\ Surroundings /\ BatchInv(t, q) /\ known
  /\ s \in Sessions /\ s \in started /\ Idle(t, q, s)

\* Trips are credited, rebased or end, and nothing else changes.
LEMMA TripsKeep ==
  ASSUME Constants, Surroundings, NEW t, NEW q, BatchInv(t, q), NEW u, IsTables(u),
         u.sessions = t.sessions, u.calls = t.calls, u.trips = [x \in Sessions |-> u.trips[x]],
         \A x \in Sessions : t.trips[x] = NoTrip => u.trips[x] = NoTrip
  PROVE  KeepsAll(u, t, q)
<1>1. -1 \notin Sessions
  BY DEF Constants
<1>2. SameBut(u, t, -1)
  BY <1>1 DEF SameBut, BatchInv, Formed
<1> QED  BY <1>1, <1>2, SilentKeeps DEF KeepsAll

\* Nothing changes but what the invariant is not about.
LEMMA SameKeeps ==
  ASSUME Constants, Surroundings, NEW t, NEW q, BatchInv(t, q), NEW u, IsTables(u),
         u.sessions = t.sessions, u.calls = t.calls, u.trips = t.trips
  PROVE  KeepsAll(u, t, q)
<1>1. u.trips = [x \in Sessions |-> u.trips[x]]
  BY DEF BatchInv, Formed
<1> QED  BY <1>1, TripsKeep

\* startBatching of a routine or manual session that is not listed.
LEMMA StartBatchingKeeps ==
  ASSUME NEW t, NEW q, NEW s, Ready(t, q, s), Gone(t, s), NEW o \in Options, o.mode # "trip",
         NEW u, u = StartBatching(t, s, o)
  PROVE  Keeps(u, t, q, s)
<1> DEFINE v == FullWanted(t, AutoReported(o))
           w == Saving(v, s, o)
           c == Call("startB", "started", s, o)
<1>1. /\ IsTables(t) /\ IsSequence(t.calls) /\ t.sessions \in [Sessions -> Options \cup {NoOptions}]
      /\ t.trips = [x \in Sessions |-> t.trips[x]] /\ s \in Sessions
  BY DEF Ready, BatchInv, Formed
<1>2. Same(v, t)
  BY <1>1, TablesFacts
<1> HIDE DEF v
<1>a. /\ IsTables(v) /\ v.sessions = t.sessions /\ v.trips = t.trips /\ v.calls = t.calls
  BY <1>2 DEF Same
<1>b. /\ IsTables(w) /\ w.sessions = [v.sessions EXCEPT ![s] = o] /\ w.trips = v.trips
      /\ w.calls = v.calls
  BY ONLY <1>a, TablesFacts
<1> HIDE DEF w
<1>3. /\ IsTables(w) /\ w.sessions = [t.sessions EXCEPT ![s] = o] /\ w.trips = t.trips
      /\ w.calls = t.calls
  BY <1>a, <1>b
<1>4. Called(u, w, c)
  <2>1. u = Calling(w, c)
    BY DEF StartBatching, v, w
  <2> HIDE DEF c
  <2> QED  BY <2>1, <1>1, <1>3, CallingFacts
<1>5. c.op = "startB" /\ c.cb = "started" /\ c.s = s /\ c.o = o
  BY DEF Call
<1> HIDE DEF c
<1>6. Wanted(o) = o /\ o # NoOptions
  BY DEF Constants, Ready, NoOptions, Wanted
<1>7. SameBut(u, t, s)
  BY <1>1, <1>3, <1>4 DEF SameBut, Called, Gone
<1>8. /\ OwnFormed(u, c) /\ IsBatchCall(c) /\ Outcome(c) = Wanted(u.sessions[s])
      /\ Longer(u.calls, t.calls, c)
  BY <1>1, <1>3, <1>4, <1>5, <1>6 DEF OwnFormed, StartFormed, IsBatchCall, Outcome, Called
<1> QED  BY <1>5, <1>7, <1>8, CallKeeps DEF Ready, Keeps

\* startTripBatchingMultiplex: the first trip is started, a later one asks for the distance.
LEMMA StartTripKeeps ==
  ASSUME NEW t, NEW q, NEW s, Ready(t, q, s), Gone(t, s), NEW o \in Options, o.mode = "trip",
         NEW u, u = StartTrip(t, s, o)
  PROVE  Keeps(u, t, q, s)
<1>1. /\ IsTables(t) /\ IsSequence(t.calls) /\ t.sessions \in [Sessions -> Options \cup {NoOptions}]
      /\ t.trips = [x \in Sessions |-> t.trips[x]] /\ s \in Sessions
  BY DEF Ready, BatchInv, Formed
<1>0. Kept(t, s)
  BY DEF Gone, Kept, Wanted
<1>2. CASE Trips(t) # {}
  <2> DEFINE c == Call("query", "tripQueried", s, o)
  <2>1. u = Calling(t, c)
    BY <1>2 DEF StartTrip
  <2>2. c.op = "query" /\ c.cb = "tripQueried" /\ c.s = s
    BY DEF Call
  <2> HIDE DEF c
  <2>3. Called(u, t, c)
    BY <2>1, <1>1, CallingFacts
  <2>4. SameBut(u, t, s)
    BY <1>0, <1>1, <2>3 DEF SameBut, Called, Kept
  <2>5. OwnFormed(u, c) /\ ~IsBatchCall(c) /\ Longer(u.calls, t.calls, c) /\ Kept(u, s)
    BY <1>0, <1>1, <2>2, <2>3 DEF OwnFormed, TripFormed, TripOps, TripCbs, IsBatchCall, Called, Kept
  <2> QED  BY <1>0, <2>2, <2>4, <2>5, CallKeeps DEF Ready, Keeps
<1>3. CASE Trips(t) = {}
  <2> DEFINE v == FullWanted(t, TRUE)
             w == Saving(v, s, o)
             d == [w EXCEPT !.trips[s] = [NoTrip EXCEPT !.dist = o.dist, !.tbf = o.tbf]]
             c == [Call("startT", "tripStarted", s, o) EXCEPT !.run = [dist |-> o.dist, tbf |-> o.tbf]]
  <2>1. u = Calling(d, c)
    BY <1>3 DEF StartTrip
  <2>2. c.op = "startT" /\ c.cb = "tripStarted" /\ c.s = s
    BY DEF Call
  <2>3. Same(v, t)
    BY <1>1, TablesFacts
  <2> HIDE DEF v
  <2>a. /\ IsTables(v) /\ v.sessions = t.sessions /\ v.trips = t.trips /\ v.calls = t.calls
    BY <2>3 DEF Same
  <2>b. /\ IsTables(w) /\ w.sessions = [v.sessions EXCEPT ![s] = o] /\ w.trips = v.trips
        /\ w.calls = v.calls
    BY ONLY <2>a, TablesFacts
  <2> HIDE DEF w, c
  <2>4. /\ IsTables(w) /\ w.sessions = [t.sessions EXCEPT ![s] = o] /\ w.trips = t.trips
        /\ w.calls = t.calls
    BY <2>a, <2>b
  <2>5. /\ IsTables(d) /\ d.sessions = w.sessions /\ d.calls = w.calls
        /\ d.trips = [w.trips EXCEPT ![s] = [NoTrip EXCEPT !.dist = o.dist, !.tbf = o.tbf]]
    BY <2>4 DEF IsTables
  <2> HIDE DEF d
  <2>6. Called(u, d, c)
    BY <2>1, <2>4, <2>5, <1>1, CallingFacts
  <2>7. Kept(u, s)
    BY <2>4, <2>5, <2>6, <1>1 DEF Called, Kept, Wanted
  <2>8. SameBut(u, t, s)
    <3>1. /\ u.sessions = [t.sessions EXCEPT ![s] = o]
          /\ u.trips = [t.trips EXCEPT ![s] = [NoTrip EXCEPT !.dist = o.dist, !.tbf = o.tbf]]
      BY <2>4, <2>5, <2>6 DEF Called
    <3>2. u.sessions \in [Sessions -> Options \cup {NoOptions}]
      BY <1>1, <3>1
    <3>3. u.trips = [x \in Sessions |-> u.trips[x]]
      BY <1>1, <3>1
    <3>4. \A x \in Sessions \ {s} : u.sessions[x] = t.sessions[x] /\ u.trips[x] = t.trips[x]
      BY <1>1, <3>1
    <3> QED  BY <2>6, <2>7, <3>2, <3>3, <3>4 DEF SameBut, Called
  <2>9. OwnFormed(u, c) /\ ~IsBatchCall(c) /\ Longer(u.calls, t.calls, c)
    BY <2>7, <1>1, <2>2, <2>4, <2>5, <2>6
       DEF OwnFormed, TripFormed, TripOps, TripCbs, IsBatchCall, Called
  <2> QED  BY <1>0, <2>2, <2>7, <2>8, <2>9, CallKeeps DEF Ready, Keeps
<1> QED  BY <1>2, <1>3

\* Either start, by the mode of the options.
LEMMA StartKeeps ==
  ASSUME NEW t, NEW q, NEW s, Ready(t, q, s), Gone(t, s), NEW o \in Options,
         NEW u, u = Start(t, s, o)
  PROVE  Keeps(u, t, q, s)
BY StartBatchingKeeps, StartTripKeeps DEF Start

\* Refusing a start takes the session out of the table, which the modem does not run.
LEMMA StartedKeeps ==
  ASSUME NEW t, NEW q, NEW c, Ready(t, q, c.s), NEW ok, ok \/ Off(t, c.s),
         ok \/ t.trips[c.s] = NoTrip, NEW u, u = Started(t, c, ok)
  PROVE  KeepsAll(u, t, q)
<1> DEFINE s == c.s
           v == Erasing(t, s)
           w == FullUnwanted(v, AutoReported(c.o))
<1>1. /\ IsTables(t) /\ IsSequence(t.calls) /\ t.sessions \in [Sessions -> Options \cup {NoOptions}]
      /\ t.trips = [x \in Sessions |-> t.trips[x]] /\ s \in Sessions
  BY DEF Ready, BatchInv, Formed
<1>2. CASE ok
  <2>1. u = Telling(t, s)
    BY <1>2 DEF Started
  <2>2. IsTables(u) /\ u.sessions = t.sessions /\ u.trips = t.trips /\ u.calls = t.calls
    BY <2>1, <1>1, TablesFacts
  <2> QED  BY <2>2, SameKeeps DEF Ready
<1>3. CASE ~ok
  <2>1. u = Telling(w, s)
    BY <1>3 DEF Started
  <2>2. /\ IsTables(v) /\ v.sessions = [t.sessions EXCEPT ![s] = NoOptions] /\ v.trips = t.trips
        /\ v.calls = t.calls
    BY <1>1, TablesFacts DEF Erasing
  <2> HIDE DEF v
  <2>3. Same(w, v)
    BY <2>2, TablesFacts
  <2> HIDE DEF w
  <2>4. IsTables(u) /\ u.sessions = v.sessions /\ u.trips = t.trips /\ u.calls = t.calls
    BY <2>1, <2>2, <2>3, TablesFacts DEF Same
  <2>5. Kept(u, s)
    BY <2>2, <2>4, <1>1 DEF Kept, Wanted
  <2>6. SameBut(u, t, s)
    BY <2>2, <2>4, <2>5, <1>1 DEF SameBut
  <2> QED  BY <1>3, <2>4, <2>5, <2>6, SilentKeeps DEF Ready, KeepsAll
<1> QED  BY <1>2, <1>3

\* The answer to the start of the first trip: a refusal erases it.
LEMMA TripStartedKeeps ==
  ASSUME NEW t, NEW q, NEW c, Ready(t, q, c.s), Kept(t, c.s), NEW ok,
         NEW u, u = TripStarted(t, c, ok)
  PROVE  KeepsAll(u, t, q)
<1> DEFINE s == c.s
           v == Erasing(t, s)
           w == [v EXCEPT !.trips[s] = NoTrip]
           z == FullUnwanted(w, TRUE)
           d == [t EXCEPT !.ongoing = [dist |-> c.o.dist, tbf |-> c.o.tbf]]
<1>1. /\ IsTables(t) /\ IsSequence(t.calls) /\ t.sessions \in [Sessions -> Options \cup {NoOptions}]
      /\ t.trips = [x \in Sessions |-> t.trips[x]] /\ s \in Sessions
  BY DEF Ready, BatchInv, Formed
<1>2. CASE ok
  <2>1. u = Telling(d, s)
    BY <1>2 DEF TripStarted
  <2>2. Same(d, t)
    BY <1>1, TablesFacts
  <2> HIDE DEF d
  <2>3. IsTables(u) /\ u.sessions = t.sessions /\ u.trips = t.trips /\ u.calls = t.calls
    BY <2>1, <2>2, <1>1, TablesFacts DEF Same
  <2> QED  BY <2>3, SameKeeps DEF Ready
<1>3. CASE ~ok
  <2>1. u = Telling(z, s)
    BY <1>3 DEF TripStarted
  <2>2. /\ IsTables(v) /\ v.sessions = [t.sessions EXCEPT ![s] = NoOptions] /\ v.trips = t.trips
        /\ v.calls = t.calls
    BY <1>1, TablesFacts DEF Erasing
  <2> HIDE DEF v
  <2>3. /\ IsTables(w) /\ w.sessions = v.sessions /\ w.calls = v.calls
        /\ w.trips = [v.trips EXCEPT ![s] = NoTrip]
    BY <2>2 DEF IsTables
  <2> HIDE DEF w
  <2>4. Same(z, w)
    BY <2>3, TablesFacts
  <2> HIDE DEF z
  <2>5. IsTables(u) /\ u.sessions = v.sessions /\ u.trips = w.trips /\ u.calls = t.calls
    BY <2>1, <2>2, <2>3, <2>4, TablesFacts DEF Same
  <2>6. Kept(u, s)
    BY <2>2, <2>5, <1>1 DEF Kept, Wanted
  <2>7. SameBut(u, t, s)
    BY <2>2, <2>3, <2>5, <2>6, <1>1 DEF SameBut
  <2> QED  BY <2>5, <2>6, <2>7, SilentKeeps DEF Ready, KeepsAll
<1> QED  BY <1>2, <1>3

\* The client is told.
LEMMA TellingKeeps ==
  ASSUME NEW t, NEW q, NEW s, Ready(t, q, s), NEW w, Keeps(w, t, q, s), NEW x,
         NEW u, u = Telling(w, x)
  PROVE  Keeps(u, t, q, s)
<1>1. IsTables(w)
  BY DEF Keeps, BatchInv, Formed
<1>2. IsTables(u) /\ u.sessions = w.sessions /\ u.trips = w.trips /\ u.calls = w.calls
  BY <1>1, TablesFacts
<1>3. KeepsAll(u, w, q)
  BY <1>2, SameKeeps DEF Ready, Keeps
<1> QED  BY <1>3 DEF Keeps, KeepsAll

\* The answer to a later trip's query: it is listed, and may restart the modem's trip.
LEMMA TripQueriedKeeps ==
  ASSUME NEW t, NEW q, NEW c, Ready(t, q, c.s), Kept(t, c.s), NEW ok, NEW acc,
         NEW u, u = TripQueried(t, c, ok, acc)
  PROVE  Keeps(u, t, q, c.s)
<1> DEFINE s == c.s
           trip == [ob |-> acc, tt |-> 0, tr |-> 0, dist |-> c.o.dist, tbf |-> c.o.tbf]
           listed == IF ok THEN [t EXCEPT !.trips[s] = trip] ELSE t
<1>1. /\ IsTables(t) /\ IsSequence(t.calls) /\ t.sessions \in [Sessions -> Options \cup {NoOptions}]
      /\ t.trips = [x \in Sessions |-> t.trips[x]] /\ s \in Sessions
  BY DEF Ready, BatchInv, Formed
<1>2. PICK run :
        \/ u = Telling(listed, s)
        \/ u = Calling([AllTrips(listed, Rebased) EXCEPT !.ongoing = run],
                       [Call("restartT", "tripRestarted", s, NoOptions) EXCEPT !.run = run])
  BY DEF TripQueried
<1> HIDE DEF trip
<1>3. /\ IsTables(listed) /\ listed.sessions = t.sessions /\ listed.calls = t.calls
      /\ listed.trips = t.trips \/ listed.trips = [t.trips EXCEPT ![s] = trip]
  BY <1>1 DEF IsTables
<1> HIDE DEF listed
<1>4. listed.trips = [x \in Sessions |-> listed.trips[x]]
  BY <1>1, <1>3
<1>5. \A x \in Sessions \ {s} : listed.trips[x] = t.trips[x]
  BY <1>1, <1>3
<1>6. CASE u = Telling(listed, s)
  <2>1. IsTables(u) /\ u.sessions = listed.sessions /\ u.trips = listed.trips /\ u.calls = listed.calls
    BY ONLY <1>6, <1>3, TablesFacts
  <2>2. /\ u.sessions = t.sessions /\ u.calls = t.calls /\ u.trips = [x \in Sessions |-> u.trips[x]]
        /\ \A x \in Sessions \ {s} : u.trips[x] = t.trips[x]
    BY <2>1, <1>3, <1>4, <1>5
  <2>3. Kept(u, s)
    BY <2>2 DEF Kept
  <2>4. SameBut(u, t, s)
    BY <2>1, <2>2, <2>3, <1>1 DEF SameBut
  <2> QED  BY <2>2, <2>3, <2>4, SilentKeeps DEF Ready, Keeps
<1>7. CASE u = Calling([AllTrips(listed, Rebased) EXCEPT !.ongoing = run],
                       [Call("restartT", "tripRestarted", s, NoOptions) EXCEPT !.run = run])
  <2> DEFINE b == AllTrips(listed, Rebased)
             v == [b EXCEPT !.ongoing = run]
             e == [Call("restartT", "tripRestarted", s, NoOptions) EXCEPT !.run = run]
  <2>a. b = [listed EXCEPT !.trips = [x \in Sessions |-> Rebased(listed.trips[x])]]
    BY DEF AllTrips
  <2> HIDE DEF b
  <2>b. /\ IsTables(b) /\ b.sessions = listed.sessions /\ b.calls = listed.calls
        /\ b.trips = [x \in Sessions |-> Rebased(listed.trips[x])]
    BY <1>3, <2>a DEF IsTables
  <2>1. /\ IsTables(v) /\ v.sessions = listed.sessions /\ v.calls = listed.calls
        /\ v.trips = [x \in Sessions |-> Rebased(listed.trips[x])]
    BY <2>b DEF IsTables
  <2>2. e.op = "restartT" /\ e.cb = "tripRestarted" /\ e.s = s
    BY DEF Call
  <2>3. u = Calling(v, e)
    BY <1>7 DEF b
  <2> HIDE DEF v, e
  <2>4. Called(u, v, e)
    BY <2>1, <2>3, <1>1, <1>3, CallingFacts
  <2>5. Kept(u, s)
    BY <2>1, <2>4, <1>3 DEF Called, Kept
  <2>6. \A x \in Sessions \ {s} : t.trips[x] = NoTrip => u.trips[x] = NoTrip
    BY <2>1, <2>4, <1>5 DEF Called, Rebased
  <2>7. SameBut(u, t, s)
    BY <2>1, <2>4, <2>5, <2>6, <1>1, <1>3 DEF SameBut, Called
  <2>8. OwnFormed(u, e) /\ ~IsBatchCall(e) /\ Longer(u.calls, t.calls, e)
    BY <2>1, <2>2, <2>4, <2>5, <1>1, <1>3
       DEF OwnFormed, TripFormed, TripOps, TripCbs, IsBatchCall, Called
  <2> QED  BY <2>2, <2>5, <2>7, <2>8, CallKeeps DEF Ready, Keeps
<1> QED  BY <1>2, <1>6, <1>7

\* stopBatching erases the session and calls the modem, with the options of an update.
LEMMA StopBatchingKeeps ==
  ASSUME NEW t, NEW q, NEW s, Ready(t, q, s), t.trips[s] = NoTrip, NEW restart, NEW o,
         restart => o \in Options, NEW u, u = StopBatching(t, s, restart, o)
  PROVE  Keeps(u, t, q, s)
<1> DEFINE v == Erasing(t, s)
           c == [Call("stopB", "stopped", s, o) EXCEPT
                   !.restart = restart, !.auto = AutoReported(t.sessions[s])]
<1>1. /\ IsTables(t) /\ IsSequence(t.calls) /\ t.sessions \in [Sessions -> Options \cup {NoOptions}]
      /\ t.trips = [x \in Sessions |-> t.trips[x]] /\ s \in Sessions
  BY DEF Ready, BatchInv, Formed
<1>2. CASE t.sessions[s] = NoOptions
  <2>1. u = t
    BY <1>2 DEF StopBatching
  <2> QED  BY <2>1 DEF Ready, Keeps
<1>3. CASE t.sessions[s] # NoOptions
  <2>1. u = Calling(v, c)
    BY <1>3 DEF StopBatching
  <2>2. c.op = "stopB" /\ c.cb = "stopped" /\ c.s = s /\ c.restart = restart /\ c.o = o
    BY DEF Call
  <2>3. /\ IsTables(v) /\ v.sessions = [t.sessions EXCEPT ![s] = NoOptions] /\ v.trips = t.trips
        /\ v.calls = t.calls
    BY <1>1, TablesFacts DEF Erasing
  <2> HIDE DEF v, c
  <2>4. Called(u, v, c)
    BY <2>1, <2>3, <1>1, CallingFacts
  <2>5. Gone(u, s) /\ Kept(u, s) /\ Wanted(u.sessions[s]) = NoOptions
    BY <2>3, <2>4, <1>1 DEF Called, Gone, Kept, Wanted
  <2>6. SameBut(u, t, s)
    BY <2>3, <2>4, <2>5, <1>1 DEF SameBut, Called
  <2>7. /\ OwnFormed(u, c) /\ IsBatchCall(c) /\ Outcome(c) = Wanted(u.sessions[s])
        /\ Longer(u.calls, t.calls, c)
    BY <2>2, <2>3, <2>4, <2>5, <1>1 DEF OwnFormed, StopFormed, IsBatchCall, Outcome, Called
  <2> QED  BY <2>2, <2>6, <2>7, CallKeeps DEF Ready, Keeps
<1> QED  BY <1>2, <1>3

\* The answer to the stop: an update starts the session again, a refusal saves it again,
\* which happens only while the adapter has yet to hear that the modem is up.
LEMMA StoppedKeeps ==
  ASSUME NEW t, NEW q, NEW c, Ready(t, q, c.s), Gone(t, c.s), NEW ok, NEW garbage,
         c.restart => c.o \in Options, ~ok => garbage \in Options \cup {NoOptions},
         ~ok => Opening(q), NEW u, u = Stopped(t, c, ok, garbage)
  PROVE  Keeps(u, t, q, c.s)
<1> DEFINE s == c.s
           v == FullUnwanted(t, c.auto)
<1>1. /\ IsTables(t) /\ IsSequence(t.calls) /\ t.sessions \in [Sessions -> Options \cup {NoOptions}]
      /\ t.trips = [x \in Sessions |-> t.trips[x]] /\ s \in Sessions
  BY DEF Ready, BatchInv, Formed
<1>3. ASSUME ~ok
      PROVE  Keeps(u, t, q, s)
  <2> DEFINE o == IF c.restart THEN c.o ELSE garbage
             w == Saving(t, s, o)
  <2>1. u = Telling(w, s) /\ o \in Options \cup {NoOptions}
    BY <1>3 DEF Stopped
  <2> HIDE DEF o
  <2>2. /\ IsTables(w) /\ w.sessions = [t.sessions EXCEPT ![s] = o] /\ w.trips = t.trips
        /\ w.calls = t.calls
    BY ONLY <1>1, TablesFacts
  <2> HIDE DEF w
  <2>3. SameBut(w, t, s)
    BY <2>1, <2>2, <1>1 DEF SameBut, Gone
  <2>4. Kept(t, s)
    BY DEF Gone, Kept, Wanted
  <2>5. KeepsAll(w, t, q)
    BY <2>2, <2>3, <2>4, <1>3, SilentKeeps DEF Ready, KeepsAll
  <2> QED  BY <2>1, <2>5, TellingKeeps DEF Keeps, KeepsAll
<1>4. ASSUME ok
      PROVE  Keeps(u, t, q, s)
  <2>1. Same(v, t)
    BY ONLY <1>1, TablesFacts
  <2>2. u = Telling(IF c.restart THEN Start(v, s, c.o) ELSE v, s)
    BY <1>4 DEF Stopped
  <2> HIDE DEF v
  <2>3. /\ IsTables(v) /\ v.sessions = t.sessions /\ v.trips = t.trips /\ v.calls = t.calls
    BY <2>1 DEF Same
  <2>4. KeepsAll(v, t, q)
    BY <2>3, SameKeeps DEF Ready
  <2>5. CASE ~c.restart
    BY <2>2, <2>4, <2>5, TellingKeeps DEF Keeps, KeepsAll
  <2>6. CASE c.restart
    <3> DEFINE w == Start(v, s, c.o)
    <3>1. Ready(v, q, s) /\ Gone(v, s)
      BY <2>3, <2>4 DEF Ready, KeepsAll, Gone
    <3>2. Keeps(w, v, q, s)
      BY <3>1, <2>6, StartKeeps
    <3>3. u = Telling(w, s)
      BY <2>2, <2>6
    <3> HIDE DEF w
    <3>4. Keeps(w, t, q, s)
      BY <3>2, <2>4 DEF Keeps, KeepsAll
    <3> QED  BY <3>3, <3>4, TellingKeeps
  <2> QED  BY <2>5, <2>6
<1> QED  BY <1>3, <1>4

\* A call of no session.
LEMMA ForeignKeeps ==
  ASSUME Constants, Surroundings, NEW t, NEW q, BatchInv(t, q), known, NEW u, NEW c,
         IsTables(u), u.sessions = t.sessions, u.trips = [x \in Sessions |-> u.trips[x]],
         \A x \in Sessions : t.trips[x] = NoTrip => u.trips[x] = NoTrip,
         Longer(u.calls, t.calls, c), Foreign(c)
  PROVE  KeepsAll(u, t, q)
<1>1. c.s = NoSession /\ NoSession \notin Sessions
  BY DEF Foreign, Constants, NoSession
<1>2. SameBut(u, t, NoSession)
  BY <1>1 DEF SameBut, BatchInv, Formed
<1>3. BatchInv(u, q) /\ \A x \in Sessions \ {NoSession} : Idle(t, q, x) => Idle(u, q, x)
  BY <1>1, <1>2, CallKeeps
<1> QED  BY <1>1, <1>3 DEF KeepsAll

Alike(u, t) == u.sessions = t.sessions /\ u.trips = t.trips

\* restartTripBatching: stop the modem's trip or ask how far it came.
LEMMA RestartTripsKeeps ==
  ASSUME Constants, Surroundings, NEW t, NEW q, BatchInv(t, q), known, NEW query, NEW acc,
         NEW u, u = RestartTrips(t, query, acc)
  PROVE  KeepsAll(u, t, q) /\ Alike(u, t)
<1>1. IsTables(t) /\ IsSequence(t.calls) /\ t.trips = [x \in Sessions |-> t.trips[x]]
  BY DEF BatchInv, Formed
<1>2. CASE Trips(t) = {}
  <2> DEFINE c == Call("stopT", "ignore", NoSession, NoOptions)
             v == Calling(t, c)
             w == [v EXCEPT !.ongoing = NoRun]
  <2>1. u = FullUnwanted(w, TRUE)
    BY <1>2 DEF RestartTrips
  <2>2. Foreign(c)
    BY DEF Call, Foreign, TripOps
  <2> HIDE DEF c
  <2>3. Called(v, t, c)
    BY <1>1, CallingFacts
  <2> HIDE DEF v
  <2>4. KeepsAll(v, t, q)
    BY <1>1, <2>2, <2>3, ForeignKeeps DEF Called
  <2>5. Same(w, v)
    BY <2>3, TablesFacts DEF Called
  <2> HIDE DEF w
  <2>a. IsTables(w)
    BY <2>5 DEF Same
  <2>6. Same(u, w)
    BY ONLY <2>1, <2>a, TablesFacts
  <2>7. IsTables(u) /\ u.sessions = v.sessions /\ u.trips = v.trips /\ u.calls = v.calls
    BY <2>5, <2>6 DEF Same
  <2>8. KeepsAll(u, v, q)
    BY <2>4, <2>7, SameKeeps DEF KeepsAll
  <2> QED  BY <2>3, <2>4, <2>7, <2>8 DEF KeepsAll, Called, Alike
<1>3. CASE Trips(t) # {}
  <2> DEFINE c == [Call("query", "tripsQueried", NoSession, NoOptions) EXCEPT
                     !.run = LeastRun(t), !.query = query, !.acc = acc]
  <2>1. u = Calling(t, c)
    BY <1>3 DEF RestartTrips
  <2>2. Foreign(c)
    BY DEF Call, Foreign, TripOps, CommonCbs
  <2> HIDE DEF c
  <2>3. Called(u, t, c)
    BY <1>1, <2>1, CallingFacts
  <2> QED  BY <1>1, <2>2, <2>3, ForeignKeeps DEF Called, Alike
<1> QED  BY <1>2, <1>3

\* A trip's session is erased: the modem ran no batching for it.
LEMMA ErasingKeeps ==
  ASSUME NEW t, NEW q, NEW s, Ready(t, q, s), Kept(t, s), NEW u, u = Erasing(t, s)
  PROVE  KeepsAll(u, t, q) /\ u.sessions[s] = NoOptions /\ u.trips = t.trips
<1>1. /\ IsTables(t) /\ IsSequence(t.calls) /\ t.sessions \in [Sessions -> Options \cup {NoOptions}]
      /\ t.trips = [x \in Sessions |-> t.trips[x]] /\ s \in Sessions
  BY DEF Ready, BatchInv, Formed
<1>2. /\ IsTables(u) /\ u.sessions = [t.sessions EXCEPT ![s] = NoOptions]
      /\ u.trips = t.trips /\ u.calls = t.calls
  BY <1>1, TablesFacts DEF Erasing
<1>3. u.sessions[s] = NoOptions /\ Kept(u, s)
  BY <1>1, <1>2 DEF Kept, Wanted
<1>4. SameBut(u, t, s)
  BY <1>1, <1>2, <1>3 DEF SameBut
<1>5. KeepsAll(u, t, q)
  BY <1>2, <1>3, <1>4, SilentKeeps DEF Ready, KeepsAll
<1> QED  BY <1>2, <1>3, <1>5

\* stopTripBatchingMultiplexCommon, with the start of an update at its end.
LEMMA TripEndsKeeps ==
  ASSUME NEW t, NEW q, NEW s, Ready(t, q, s), Kept(t, s), NEW restart, NEW o,
         restart => o \in Options, NEW drop, NEW u, u = TripEnds(t, s, restart, o, drop)
  PROVE  Keeps(u, t, q, s)
<1> DEFINE d == [t EXCEPT !.dropped = drop]
           gone == [d EXCEPT !.trips[s] = NoTrip]
           others == IF Trips(gone) = {} THEN [gone EXCEPT !.ongoing = NoRun]
                     ELSE RestartTrips(gone, TRUE, 0)
           w == IF restart THEN Start(Erasing(others, s), s, o) ELSE others
<1>1. /\ IsTables(t) /\ IsSequence(t.calls) /\ t.sessions \in [Sessions -> Options \cup {NoOptions}]
      /\ t.trips = [x \in Sessions |-> t.trips[x]] /\ s \in Sessions
  BY DEF Ready, BatchInv, Formed
<1>2. u = Telling(w, s)
  <2>1. gone = [t EXCEPT !.dropped = drop, !.trips[s] = NoTrip]
    BY <1>1 DEF IsTables
  <2> QED  BY <2>1 DEF TripEnds
<1>a. Same(d, t)
  BY <1>1, TablesFacts
<1> HIDE DEF d
<1>3. /\ IsTables(gone) /\ gone.sessions = t.sessions /\ gone.calls = t.calls
      /\ gone.trips = [t.trips EXCEPT ![s] = NoTrip]
  BY <1>a DEF IsTables, Same
<1> HIDE DEF gone
<1>4. KeepsAll(gone, t, q)
  <2>1. /\ gone.trips = [x \in Sessions |-> gone.trips[x]]
        /\ \A x \in Sessions : t.trips[x] = NoTrip => gone.trips[x] = NoTrip
    BY <1>1, <1>3
  <2> QED  BY <1>3, <2>1, TripsKeep DEF Ready
<1>5. KeepsAll(others, gone, q) /\ Alike(others, gone)
  <2>1. CASE Trips(gone) = {}
    <3>1. Same(others, gone)
      BY <1>3, <2>1, TablesFacts
    <3> QED  BY <1>4, <3>1, SameKeeps DEF Ready, KeepsAll, Same, Alike
  <2>2. CASE Trips(gone) # {}
    <3>1. others = RestartTrips(gone, TRUE, 0)
      BY <2>2
    <3> HIDE DEF others
    <3>2. BatchInv(gone, q) /\ Constants /\ Surroundings /\ known
      BY <1>4 DEF Ready, KeepsAll
    <3>3. KeepsAll(others, gone, q)
      BY ONLY <3>1, <3>2, RestartTripsKeeps
    <3> HIDE DEF w
    <3>4. Alike(others, gone)
      BY ONLY <3>1, <3>2, RestartTripsKeeps
    <3> QED  BY <3>3, <3>4
  <2> QED  BY <2>1, <2>2
<1> HIDE DEF others
<1>6. /\ Ready(others, q, s) /\ Kept(others, s) /\ others.trips[s] = NoTrip
      /\ Keeps(others, t, q, s)
  BY <1>1, <1>3, <1>4, <1>5 DEF Ready, KeepsAll, Keeps, Kept, Alike
<1>7. Keeps(w, t, q, s)
  <2>1. CASE ~restart
    BY <1>6, <2>1
  <2>2. CASE restart
    <3> DEFINE e == Erasing(others, s)
    <3>3. w = Start(e, s, o)
      BY <2>2
    <3>5. KeepsAll(e, others, q) /\ e.sessions[s] = NoOptions /\ e.trips = others.trips
      BY <1>6, ErasingKeeps
    <3> HIDE DEF e, w
    <3>4. Gone(e, s)
      BY <1>6, <3>5 DEF Gone
    <3>6. KeepsAll(e, others, q)
      BY <3>5
    <3>7. Ready(e, q, s)
      BY <1>6, <3>6 DEF Ready, KeepsAll
    <3>8. Keeps(w, e, q, s)
      BY <2>2, <3>3, <3>4, <3>7, StartKeeps
    <3> QED  BY <1>6, <3>6, <3>8 DEF Keeps, KeepsAll
  <2> QED  BY <2>1, <2>2
<1> HIDE DEF w
<1> QED  BY <1>2, <1>7, TellingKeeps

\* stopTripBatchingMultiplex: the last trip stops the modem's.
LEMMA StopTripKeeps ==
  ASSUME NEW t, NEW q, NEW s, Ready(t, q, s), Kept(t, s), NEW restart, NEW o,
         restart => o \in Options, NEW drop, NEW u, u = StopTrip(t, s, restart, o, drop)
  PROVE  Keeps(u, t, q, s)
<1>1. /\ IsTables(t) /\ IsSequence(t.calls) /\ t.sessions \in [Sessions -> Options \cup {NoOptions}]
      /\ t.trips = [x \in Sessions |-> t.trips[x]] /\ s \in Sessions
  BY DEF Ready, BatchInv, Formed
<1>2. CASE Cardinality(Trips(t)) = 1
  <2> DEFINE c == [Call("stopT", "tripStopped", s, o) EXCEPT !.restart = restart]
  <2>1. u = Calling(t, c)
    BY <1>2 DEF StopTrip
  <2>2. c.op = "stopT" /\ c.cb = "tripStopped" /\ c.s = s /\ c.restart = restart /\ c.o = o
    BY DEF Call
  <2> HIDE DEF c
  <2>3. Called(u, t, c)
    BY <2>1, <1>1, CallingFacts
  <2>4. SameBut(u, t, s) /\ Kept(u, s)
    BY <1>1, <2>3 DEF SameBut, Called, Kept
  <2>5. OwnFormed(u, c) /\ ~IsBatchCall(c) /\ Longer(u.calls, t.calls, c)
    BY <1>1, <2>2, <2>3, <2>4 DEF OwnFormed, TripFormed, TripOps, TripCbs, IsBatchCall, Called
  <2> QED  BY <2>2, <2>4, <2>5, CallKeeps DEF Ready, Keeps
<1>3. CASE Cardinality(Trips(t)) # 1
  BY <1>3, TripEndsKeeps DEF StopTrip
<1> QED  BY <1>2, <1>3

\* The answer to the stop of the last trip.
LEMMA TripStoppedKeeps ==
  ASSUME NEW t, NEW q, NEW c, Ready(t, q, c.s), Kept(t, c.s), c.restart => c.o \in Options,
         NEW ok, NEW drop, NEW u, u = TripStopped(t, c, ok, drop)
  PROVE  Keeps(u, t, q, c.s)
<1> DEFINE v == [t EXCEPT !.full = @ /\ ~(ok /\ AutoCount(t) = 1)]
<1>1. IsTables(t)
  BY DEF Ready, BatchInv, Formed
<1>2. u = TripEnds(v, c.s, c.restart, c.o, drop)
  BY DEF TripStopped
<1>3. Same(v, t)
  BY <1>1 DEF Same, IsTables
<1> HIDE DEF v
<1>4. KeepsAll(v, t, q)
  BY <1>3, SameKeeps DEF Ready, Same
<1>5. Ready(v, q, c.s) /\ Kept(v, c.s)
  BY <1>3, <1>4 DEF Ready, KeepsAll, Kept, Same
<1>6. Keeps(u, v, q, c.s)
  BY <1>2, <1>5, TripEndsKeeps
<1> QED  BY <1>4, <1>6 DEF Keeps, KeepsAll

\* The answer to the query of the trips that are left.
LEMMA TripsQueriedKeeps ==
  ASSUME Constants, Surroundings, NEW t, NEW q, BatchInv(t, q), known, NEW c, NEW data,
         NEW u, u = TripsQueried(t, c, data)
  PROVE  KeepsAll(u, t, q)
<1>1. IsTables(t) /\ IsSequence(t.calls) /\ t.trips = [x \in Sessions |-> t.trips[x]]
  BY DEF BatchInv, Formed
<1>2. PICK run, acc :
        \/ u = t
        \/ u = Calling(t, [Call("restartT", "tripsRestarted", NoSession, NoOptions) EXCEPT
                             !.run = run, !.acc = acc])
  BY DEF TripsQueried
<1>3. CASE u = t
  BY <1>3 DEF KeepsAll
<1>4. CASE u # t
  <2> DEFINE e == [Call("restartT", "tripsRestarted", NoSession, NoOptions) EXCEPT
                     !.run = run, !.acc = acc]
  <2>1. u = Calling(t, e)
    BY <1>2, <1>4
  <2>2. Foreign(e)
    BY DEF Call, Foreign, TripOps, CommonCbs
  <2> HIDE DEF e
  <2>3. Called(u, t, e)
    BY <1>1, <2>1, CallingFacts
  <2> QED  BY <1>1, <2>2, <2>3, ForeignKeeps DEF Called
<1> QED  BY <1>3, <1>4

\* The answer to the restart for the trips that are left.
LEMMA TripsRestartedKeeps ==
  ASSUME Constants, Surroundings, NEW t, NEW q, BatchInv(t, q), NEW c, NEW ok,
         NEW u, u = TripsRestarted(t, c, ok)
  PROVE  KeepsAll(u, t, q)
<1>1. IsTables(t) /\ IsSequence(t.calls) /\ t.trips = [x \in Sessions |-> t.trips[x]]
  BY DEF BatchInv, Formed
<1>2. CASE ~ok
  <2>1. u = t
    BY <1>2 DEF TripsRestarted
  <2> QED  BY <2>1 DEF KeepsAll
<1>3. CASE ok
  <2> DEFINE f == [x \in Sessions |-> Rebased(Credited(t.trips[x], c.acc))]
             v == [t EXCEPT !.trips = f]
  <2>1. u = [v EXCEPT !.ongoing = c.run]
    BY <1>3 DEF TripsRestarted, AllTrips
  <2> HIDE DEF f
  <2>2. IsTables(v) /\ v.sessions = t.sessions /\ v.calls = t.calls /\ v.trips = f
    BY <1>1 DEF IsTables
  <2> HIDE DEF v
  <2>a. IsTables(v)
    BY <2>2
  <2>3. Same(u, v)
    BY ONLY <2>1, <2>a, TablesFacts
  <2>4. IsTables(u) /\ u.sessions = t.sessions /\ u.calls = t.calls /\ u.trips = f
    BY <2>2, <2>3 DEF Same
  <2>5. \A x \in Sessions : t.trips[x] = NoTrip => u.trips[x] = NoTrip
    BY <2>4 DEF f, Rebased, Credited
  <2>6. u.trips = [x \in Sessions |-> u.trips[x]]
    BY <2>4 DEF f
  <2> QED  BY <2>4, <2>5, <2>6, TripsKeep
<1> QED  BY <1>2, <1>3

\* The answer to the start of the trips after the modem restarted.
LEMMA TripsResetKeeps ==
  ASSUME Constants, Surroundings, NEW t, NEW q, BatchInv(t, q), NEW ok,
         NEW u, u = TripsReset(t, ok)
  PROVE  KeepsAll(u, t, q)
<1>1. IsTables(t)
  BY DEF BatchInv, Formed
<1>2. Same(u, t)
  BY <1>1, TablesFacts DEF TripsReset, Same
<1> QED  BY <1>2, SameKeeps DEF Same

\* reportCompletedTripsEvent: trips that are complete end.
LEMMA CompleteKeeps ==
  ASSUME Constants, Surroundings, NEW t, NEW q, BatchInv(t, q), NEW acc, NEW drop,
         NEW u, u = Complete(t, acc, drop)
  PROVE  KeepsAll(u, t, q)
<1> DEFINE f == [x \in Sessions |-> Credited(t.trips[x], acc)]
           credited == [t EXCEPT !.trips = f]
           done == {s \in Trips(t) : t.trips[s].dist <= credited.trips[s].tt}
           g == [x \in Sessions |-> IF x \in done THEN NoTrip ELSE f[x]]
           dropped == IF done = {} THEN t.dropped ELSE drop
           counted == [t EXCEPT !.trips = g]
           left == [counted EXCEPT !.dropped = dropped]
<1>1. IsTables(t) /\ IsSequence(t.calls) /\ t.trips = [x \in Sessions |-> t.trips[x]]
  BY DEF BatchInv, Formed
<1>2. u = IF done = {} THEN left ELSE RestartTrips(left, FALSE, acc)
  <2>1. left = [credited EXCEPT !.trips = [x \in Sessions |-> IF x \in done THEN NoTrip ELSE credited.trips[x]],
                               !.dropped = IF done = {} THEN @ ELSE drop]
    <3>1. /\ IsTables(credited) /\ credited.sessions = t.sessions /\ credited.trips = f
          /\ credited.ongoing = t.ongoing /\ credited.dropped = t.dropped
          /\ credited.full = t.full /\ credited.calls = t.calls /\ credited.told = t.told
      BY <1>1 DEF IsTables
    <3> HIDE DEF credited, done, f
    <3> QED  BY <3>1, <1>1 DEF IsTables
  <2> QED  BY <2>1 DEF Complete, AllTrips
<1> HIDE DEF f, credited
<1>3. \A x \in Sessions : t.trips[x] = NoTrip => g[x] = NoTrip
  BY DEF f, Credited
<1>4. g = [x \in Sessions |-> g[x]]
  OBVIOUS
<1>5. done # {} => Trips(t) # {}
  OBVIOUS
<1> HIDE DEF g, done, dropped
<1>a. /\ IsTables(counted) /\ counted.sessions = t.sessions /\ counted.calls = t.calls
      /\ counted.trips = g
  BY <1>1 DEF IsTables
<1> HIDE DEF counted
<1>6. IsTables(left) /\ left.sessions = t.sessions /\ left.calls = t.calls /\ left.trips = g
  BY <1>a DEF IsTables
<1> HIDE DEF left
<1>7. KeepsAll(left, t, q)
  BY <1>3, <1>4, <1>6, TripsKeep
<1>8. CASE done = {}
  BY <1>2, <1>7, <1>8
<1>9. CASE done # {}
  <2>1. known
    BY <1>5, <1>9 DEF BatchInv, Empty, Gone, Trips
  <2>2. KeepsAll(u, left, q)
    BY <1>2, <1>7, <1>9, <2>1, RestartTripsKeeps DEF KeepsAll
  <2> QED  BY <1>7, <2>2 DEF KeepsAll
<1> QED  BY <1>8, <1>9

-----------------------------------------------------------------------------
(***************************************************************************)
(* The adapter's thread.                                                   *)
(***************************************************************************)
\* A message is taken that does not open the engine: nothing else was under way
\* for its session.
LEMMA Taken ==
  ASSUME Constants, Surroundings, NEW t, NEW q, BatchInv(t, q), q # <<>>, ~IsUp(Head(q)),
         NEW p, p = Tail(q)
  PROVE  /\ BatchInv(t, p)
         /\ \A s \in Sessions : Head(q).call.s = s => Idle(t, p, s) /\ s \in started
<1>1. /\ Formed(t, q) /\ Openings(t, q) /\ Empty(t, q) /\ Failures(t, q)
      /\ \A s \in Sessions : OneOf(t, q, s) /\ Foreseen(t, q, s)
  BY DEF BatchInv
<1>2. IsSequence(q)
  BY <1>1 DEF Formed
<1>3. Shorter(p, q)
  BY <1>2, TailFacts
<1>4. /\ IsSequence(p) /\ 1 \in DOMAIN q /\ ~IsUp(q[1]) /\ Head(q) = q[1]
      /\ \A k \in DOMAIN p : k \in Int /\ k + 1 \in DOMAIN q /\ k + 1 # 1 /\ p[k] = q[k + 1]
      /\ \A k \in DOMAIN q : k \in Int /\ (k # 1 => k - 1 \in DOMAIN p /\ q[k] = p[k - 1])
  BY <1>3 DEF Shorter
<1>5. \A s \in Sessions : Idle(t, q, s) => Idle(t, p, s)
  BY <1>4 DEF Idle
<1>6. Formed(t, p)
  BY <1>1, <1>4, <1>5 DEF Formed
<1>7. Openings(t, p)
  <2>1. known => /\ \A i, j \in DOMAIN p : IsUp(p[i]) /\ IsUp(p[j]) => i = j
                 /\ engine.restarts = 0 \/ ~engine.up => \A i \in DOMAIN p : ~IsUp(p[i])
                 /\ engine.restarts = 0 => engine.up
    BY <1>1, <1>4 DEF Openings
  <2>2. ASSUME ~known, NEW i \in DOMAIN p, NEW j \in DOMAIN p, NEW k \in DOMAIN p,
               i < j, j < k, IsUp(p[i]), IsUp(p[j]), IsUp(p[k])
        PROVE  FALSE
    <3>1. i + 1 \in DOMAIN q /\ j + 1 \in DOMAIN q /\ k + 1 \in DOMAIN q
          /\ i + 1 < j + 1 /\ j + 1 < k + 1
          /\ IsUp(q[i + 1]) /\ IsUp(q[j + 1]) /\ IsUp(q[k + 1])
      BY <1>4, <2>2
    <3> QED  BY <1>1, <2>2, <3>1 DEF Openings
  <2>3. ~known => /\ engine.restarts = 0 \/ ~engine.up =>
                       \A i, j \in DOMAIN p : IsUp(p[i]) /\ IsUp(p[j]) => i = j
                  /\ engine.restarts = 0 /\ ~engine.up => \A i \in DOMAIN p : ~IsUp(p[i])
    BY <1>1, <1>4 DEF Openings
  <2> QED  BY <1>1, <2>1, <2>2, <2>3 DEF Openings
<1>8. Empty(t, p)
  BY <1>1, <1>4 DEF Empty
<1>9. Opening(p) <=> Opening(q)
  BY <1>4 DEF Opening
<1>10. Failures(t, p)
  <2>1. ASSUME NEW i \in DOMAIN p, p[i].k = "answer", ~p[i].ok, p[i].call.cb \in {"started", "stopped"}
        PROVE  /\ ~engine.up \/ \E j \in DOMAIN p : i < j /\ IsUp(p[j])
               /\ p[i].call.cb = "started" => Off(t, p[i].call.s)
    <3>1. /\ ~engine.up \/ \E j \in DOMAIN q : i + 1 < j /\ IsUp(q[j])
          /\ p[i].call.cb = "started" => Off(t, p[i].call.s)
      BY <1>1, <1>4, <2>1 DEF Failures
    <3>2. ASSUME NEW j \in DOMAIN q, i + 1 < j, IsUp(q[j])
          PROVE  \E k \in DOMAIN p : i < k /\ IsUp(p[k])
      <4>1. i < j - 1 /\ j - 1 \in DOMAIN p /\ IsUp(p[j - 1])
        BY <1>4, <3>2
      <4> QED  BY <4>1
    <3> QED  BY <3>1, <3>2
  <2> QED  BY <1>1, <2>1 DEF Failures
<1>11. \A s \in Sessions : OneOf(t, p, s)
  <2> SUFFICES ASSUME NEW s \in Sessions PROVE OneOf(t, p, s)
    OBVIOUS
  <2>1. OneOf(t, q, s)
    BY <1>1
  <2>2. \A i, j \in DOMAIN p : p[i].call.s = s /\ p[j].call.s = s => i = j
    BY <1>4, <2>1 DEF OneOf
  <2>3. \A i \in DOMAIN t.calls, j \in DOMAIN p : ~(Of(t.calls[i], s) /\ p[j].call.s = s)
    BY <1>4, <2>1 DEF OneOf
  <2>4. \A i \in DOMAIN p, j \in DOMAIN pendingMsgs : ~(p[i].call.s = s /\ pendingMsgs[j].call.s = s)
    BY <1>4, <2>1 DEF OneOf
  <2> QED  BY <2>1, <2>2, <2>3, <2>4 DEF OneOf
<1>12. \A s \in Sessions : Foreseen(t, p, s)
  <2>1. \A s, o : Serves(t, q, s, o) <=> Serves(t, p, s, o)
    BY <1>9 DEF Serves
  <2> QED  BY <1>1, <2>1 DEF Foreseen
<1>13. ASSUME NEW s \in Sessions, Head(q).call.s = s
       PROVE  Idle(t, p, s) /\ s \in started
  <2>1. OneOf(t, q, s) /\ q[1].call.s = s
    BY <1>1, <1>4, <1>13
  <2>2. /\ \A i \in DOMAIN t.calls : ~Of(t.calls[i], s)
        /\ \A i \in DOMAIN q : i # 1 => q[i].call.s # s
        /\ \A i \in DOMAIN pendingMsgs : pendingMsgs[i].call.s # s
    BY <1>4, <2>1 DEF OneOf
  <2>3. Idle(t, p, s)
    BY <1>4, <2>2 DEF Idle
  <2>4. s \in started
    BY <1>1, <1>4, <2>1 DEF Formed, Idle
  <2> QED  BY <2>3, <2>4
<1> QED  BY <1>1, <1>6, <1>7, <1>8, <1>10, <1>11, <1>12, <1>13 DEF BatchInv

\* Every answer of the modem but the one that it is up, by the callback that it has.
LEMMA AnswerKeeps ==
  ASSUME Constants, Surroundings, BatchInv(st, inbox), HandleAnswer
  PROVE  \E u : st' = [u EXCEPT !.told = {}] /\ BatchInv(u, Tail(inbox))
<1> DEFINE m == Head(inbox)
           c == m.call
           p == Tail(inbox)
<1>1. PICK g, d :
        /\ Becomes(Answered(st, c, m.ok, m.acc, g, d))
        /\ g \in (IF c.cb = "stopped" /\ ~m.ok /\ ~c.restart THEN Options ELSE {NoOptions})
  BY DEF HandleAnswer
<1> DEFINE u == Answered(st, c, m.ok, m.acc, g, d)
<1>2. st' = [u EXCEPT !.told = {}]
  BY <1>1 DEF Becomes
<1>3. inbox # <<>> /\ m.k = "answer" /\ ~IsUp(m)
  BY DEF HandleAnswer, Received, IsUp
<1>4. /\ BatchInv(st, p)
      /\ \A s \in Sessions : c.s = s => Idle(st, p, s) /\ s \in started
  BY <1>3, Taken
<1>5. IsSequence(inbox) /\ Shorter(p, inbox)
  BY <1>3, TailFacts DEF BatchInv, Formed
<1>6. m = inbox[1] /\ 1 \in DOMAIN inbox
  BY <1>5 DEF Shorter
<1>7. CallFormed(st, c) /\ c.cb # "ignore"
  <2>1. MessageFormed(st, m)
    BY <1>6 DEF BatchInv, Formed
  <2> QED  BY <1>3, <2>1 DEF MessageFormed, CommandFormed
<1>8. known
  BY <1>3, <1>6 DEF BatchInv, Empty, Surroundings
<1>9. c.s = NoSession => c.s \notin Sessions
  BY DEF Constants, NoSession
<1>10. CASE Foreign(c)
  <2>1. c.cb \in CommonCbs
    BY <1>7, <1>10 DEF Foreign
  <2>2. c.cb = "tripsQueried" => u = TripsQueried(st, c, m.acc)
    BY DEF Answered
  <2>3. c.cb = "tripsRestarted" => u = TripsRestarted(st, c, m.ok)
    BY DEF Answered
  <2>4. c.cb = "tripsReset" => u = TripsReset(st, m.ok)
    BY DEF Answered
  <2> HIDE DEF u, c, m, p
  <2>5. KeepsAll(u, st, p)
    BY <1>4, <1>8, <2>1, <2>2, <2>3, <2>4, TripsQueriedKeeps, TripsRestartedKeeps, TripsResetKeeps
       DEF CommonCbs
  <2> QED  BY <1>2, <2>5 DEF KeepsAll, p
<1>11. CASE ~Foreign(c)
  <2>1. OwnFormed(st, c)
    BY <1>3, <1>7, <1>11 DEF CallFormed, IsUp
  <2>2. Ready(st, p, c.s)
    BY <1>4, <1>8, <2>1 DEF Ready, OwnFormed
  <2>3. c.cb = "started" => u = Started(st, c, m.ok)
    BY DEF Answered
  <2>4. c.cb = "stopped" => u = Stopped(st, c, m.ok, g)
    BY DEF Answered
  <2>5. c.cb = "tripStarted" => u = TripStarted(st, c, m.ok)
    BY DEF Answered
  <2>6. c.cb = "tripQueried" => u = TripQueried(st, c, m.ok, m.acc)
    BY DEF Answered
  <2>7. c.cb = "tripRestarted" => u = Telling(st, c.s)
    BY DEF Answered
  <2>8. c.cb = "tripStopped" => u = TripStopped(st, c, m.ok, d)
    BY DEF Answered
  <2>9. ~m.ok /\ c.cb \in {"started", "stopped"} =>
          /\ ~engine.up \/ \E j \in DOMAIN inbox : 1 < j /\ IsUp(inbox[j])
          /\ c.cb = "started" => Off(st, c.s)
    BY <1>3, <1>6 DEF BatchInv, Failures
  <2>10. ~m.ok /\ c.cb = "stopped" => Opening(p)
    <3>1. \A j \in DOMAIN inbox : 1 < j => j - 1 \in DOMAIN p /\ inbox[j] = p[j - 1]
      BY <1>5 DEF Shorter
    <3> QED  BY <2>9, <3>1 DEF Opening
  <2> HIDE DEF u, c, m, p
  <2>11. CASE c.cb = "started"
    <3>1. st.trips[c.s] = NoTrip
      <4>1. c.op = "startB" /\ ~Kept(st, c.s) /\ c.s \in Sessions
        BY <2>1, <2>11 DEF OwnFormed, StartFormed, StopFormed, TripFormed, TripCbs, Kept
      <4> QED  BY <4>1 DEF BatchInv, Formed
    <3>2. KeepsAll(u, st, p)
      BY <2>2, <2>3, <2>9, <2>11, <3>1, StartedKeeps
    <3> QED  BY <1>2, <3>2 DEF KeepsAll, p
  <2>12. CASE c.cb = "stopped"
    <3>1. Gone(st, c.s) /\ (c.restart => c.o \in Options)
      BY <2>1, <2>12 DEF OwnFormed, StartFormed, StopFormed, TripFormed, TripCbs
    <3>2. g \in Options \cup {NoOptions}
      BY <1>1
    <3>3. Keeps(u, st, p, c.s)
      BY <2>2, <2>4, <2>10, <2>12, <3>1, <3>2, StoppedKeeps
    <3> QED  BY <1>2, <3>3 DEF Keeps, p
  <2>13. CASE c.cb \notin {"started", "stopped"}
    <3>1. /\ c.cb \in TripCbs /\ Kept(st, c.s)
          /\ c.cb = "tripStopped" /\ c.restart => c.o \in Options
      BY <2>1, <2>13 DEF OwnFormed, StartFormed, StopFormed, TripFormed
    <3>2. CASE c.cb = "tripStarted"
      <4>1. KeepsAll(u, st, p)
        BY <2>2, <2>5, <3>1, <3>2, TripStartedKeeps
      <4> QED  BY <1>2, <4>1 DEF KeepsAll, p
    <3>3. CASE c.cb = "tripQueried"
      <4>1. Keeps(u, st, p, c.s)
        BY <2>2, <2>6, <3>1, <3>3, TripQueriedKeeps
      <4> QED  BY <1>2, <4>1 DEF Keeps, p
    <3>4. CASE c.cb = "tripRestarted"
      <4>1. Keeps(st, st, p, c.s)
        BY <1>4 DEF Keeps
      <4>2. Keeps(u, st, p, c.s)
        BY <2>2, <2>7, <3>4, <4>1, TellingKeeps
      <4> QED  BY <1>2, <4>2 DEF Keeps, p
    <3>5. CASE c.cb = "tripStopped"
      <4>1. Keeps(u, st, p, c.s)
        BY <2>2, <2>8, <3>1, <3>5, TripStoppedKeeps
      <4> QED  BY <1>2, <4>1 DEF Keeps, p
    <3> QED  BY <3>1, <3>2, <3>3, <3>4, <3>5 DEF TripCbs
  <2> QED  BY <2>11, <2>12, <2>13
<1> QED  BY <1>10, <1>11

BatchInvNow == Surroundings /\ BatchInv(st, inbox)

\* The invariant of the next state, where only the tables and the queue have changed.
LEMMA Unmoved ==
  ASSUME Surroundings, UNCHANGED <<known, pendingMsgs, started, engine>>,
         NEW u, NEW q, u = st', q = inbox', BatchInv(u, q)
  PROVE  BatchInvNow'
<1>1. Surroundings'
  BY DEF Surroundings
<1>2. Formed(u, q) => Formed(st, inbox)'
  BY DEF Formed, CallFormed, CommandFormed, MessageFormed, OwnFormed, Foreign, StartFormed,
         StopFormed, TripFormed, Gone, Kept, Wanted, Idle, Of, IsTables, IsSequence
<1>3. Openings(u, q) => Openings(st, inbox)'
  BY DEF Openings, IsOpen, IsUp
<1>4. Empty(u, q) => Empty(st, inbox)'
  BY DEF Empty, Gone, IsOpen, IsUp
<1>5. Failures(u, q) => Failures(st, inbox)'
  BY DEF Failures, Off, Counts, IsOpen, IsUp, IsBatchCall
<1>6. \A s : OneOf(u, q, s) => OneOf(st, inbox, s)'
  BY DEF OneOf, Of
<1>7. \A s : Foreseen(u, q, s) => Foreseen(st, inbox, s)'
  BY DEF Foreseen, IsLast, Counts, Serves, Opening, IsOpen, IsUp, IsBatchCall, Wanted, Outcome
<1> QED  BY <1>1, <1>2, <1>3, <1>4, <1>5, <1>6, <1>7 DEF BatchInvNow, BatchInv

\* The same, of a handler that leaves the tables u: who was told is no part of them.
LEMMA Settles ==
  ASSUME Constants, Surroundings, UNCHANGED <<known, pendingMsgs, started, engine>>,
         NEW u, NEW q, BatchInv(u, q), st' = [u EXCEPT !.told = {}], inbox' = q
  PROVE  BatchInvNow'
<1>1. PICK w : w = [u EXCEPT !.told = {}]
  OBVIOUS
<1>2. IsTables(w) /\ w.sessions = u.sessions /\ w.calls = u.calls /\ w.trips = u.trips
  BY <1>1 DEF BatchInv, Formed, IsTables
<1>3. BatchInv(w, q)
  BY <1>2, SameKeeps DEF KeepsAll
<1> QED  BY <1>1, <1>3, Unmoved

\* The adapter handles an answer.
LEMMA HandleAnswerKeeps ==
  ASSUME Constants, BatchInvNow, HandleAnswer
  PROVE  BatchInvNow'
<1>1. PICK u : st' = [u EXCEPT !.told = {}] /\ BatchInv(u, Tail(inbox))
  BY AnswerKeeps DEF BatchInvNow
<1>2. UNCHANGED <<known, pendingMsgs, started, engine>> /\ inbox' = Tail(inbox)
  BY DEF HandleAnswer
<1>3. PICK q : q = Tail(inbox)
  OBVIOUS
<1> QED  BY <1>1, <1>2, <1>3, Settles DEF BatchInvNow

\* The adapter handles the end of the modem's trip.
LEMMA HandleCompletedKeeps ==
  ASSUME Constants, BatchInvNow, HandleCompleted
  PROVE  BatchInvNow'
<1>1. PICK d : Becomes(Complete(st, Head(inbox).acc, d))
  BY DEF HandleCompleted
<1>2. PICK u : u = Complete(st, Head(inbox).acc, d)
  OBVIOUS
<1>3. PICK q : q = Tail(inbox)
  OBVIOUS
<1>4. inbox # <<>> /\ ~IsUp(Head(inbox))
  BY DEF HandleCompleted, Received, IsUp
<1>5. BatchInv(st, q)
  BY <1>3, <1>4, Taken DEF BatchInvNow
<1>6. BatchInv(u, q)
  BY <1>2, <1>5, CompleteKeeps DEF BatchInvNow, KeepsAll
<1>7. st' = [u EXCEPT !.told = {}] /\ inbox' = q /\ UNCHANGED <<known, pendingMsgs, started, engine>>
  BY <1>1, <1>2, <1>3 DEF Becomes, HandleCompleted
<1> QED  BY <1>6, <1>7, Settles DEF BatchInvNow

\* A command is executed: nothing else of its session is under way.
LEMMA ExecuteKeeps ==
  ASSUME NEW t, NEW q, t = st, NEW m, Ready(t, q, m.call.s), CommandFormed(t, m), NEW drop,
         NEW u, u = Execute(m.k, m.call.s, m.call.o, drop)
  PROVE  BatchInv(u, q)
<1> DEFINE s == m.call.s
           o == m.call.o
<1>1. BatchInv(t, q) /\ s \in Sessions /\ t.trips = [x \in Sessions |-> t.trips[x]]
  BY DEF Ready, BatchInv, Formed
<1>2. s \in Trips(t) => Kept(t, s)
  BY <1>1 DEF Trips, BatchInv, Formed
<1>3. s \notin Trips(t) => t.trips[s] = NoTrip
  BY <1>1 DEF Trips
<1>4. CASE m.k = "start"
  <2>1. Gone(t, s) /\ o \in Options
    BY <1>4 DEF CommandFormed
  <2>2. u = t \/ u = Start(t, s, o)
    BY <1>4 DEF Execute
  <2>3. u = Start(t, s, o) => Keeps(u, t, q, s)
    BY <2>1, StartKeeps
  <2> QED  BY <1>1, <2>2, <2>3 DEF Keeps
<1>5. CASE m.k = "update"
  <2>1. o \in Options
    BY <1>5 DEF CommandFormed
  <2>2. \/ u = t
        \/ s \in Trips(t) /\ u = StopTrip(t, s, TRUE, o, drop)
        \/ s \notin Trips(t) /\ u = StopBatching(t, s, TRUE, o)
    BY <1>5 DEF Execute
  <2> HIDE DEF s, o
  <2>3. CASE s \in Trips(t) /\ u = StopTrip(t, s, TRUE, o, drop)
    <3>1. PICK restart : restart = TRUE
      OBVIOUS
    <3>2. Keeps(u, t, q, s)
      BY <1>2, <2>1, <2>3, <3>1, StopTripKeeps DEF s
    <3> QED  BY <3>2 DEF Keeps
  <2>4. CASE s \notin Trips(t) /\ u = StopBatching(t, s, TRUE, o)
    <3>1. Keeps(u, t, q, s)
      BY <1>3, <2>1, <2>4, StopBatchingKeeps DEF s
    <3> QED  BY <3>1 DEF Keeps
  <2> QED  BY <1>1, <2>2, <2>3, <2>4
<1>6. CASE m.k = "stop"
  <2>2. \/ u = t
        \/ s \in Trips(t) /\ u = StopTrip(t, s, FALSE, NoOptions, drop)
        \/ s \notin Trips(t) /\ u = StopBatching(t, s, FALSE, NoOptions)
    BY <1>6 DEF Execute
  <2> HIDE DEF s, o
  <2>3. CASE s \in Trips(t) /\ u = StopTrip(t, s, FALSE, NoOptions, drop)
    <3>1. Keeps(u, t, q, s)
      BY <1>2, <2>3, StopTripKeeps DEF s
    <3> QED  BY <3>1 DEF Keeps
  <2>4. CASE s \notin Trips(t) /\ u = StopBatching(t, s, FALSE, NoOptions)
    <3>1. Keeps(u, t, q, s)
      BY <1>3, <2>4, StopBatchingKeeps DEF s
    <3> QED  BY <3>1 DEF Keeps
  <2> QED  BY <1>1, <2>2, <2>3, <2>4
<1> QED  BY <1>4, <1>5, <1>6 DEF CommandFormed

\* A command that waits for the engine.
LEMMA PostponedKeeps ==
  ASSUME Constants, BatchInvNow, NEW q, BatchInv(st, q), ~known, NEW m, CommandFormed(st, m),
         Idle(st, q, m.call.s), m.call.s \in started,
         pendingMsgs' = Append(pendingMsgs, m), inbox' = q,
         UNCHANGED <<st, known, started, engine>>
  PROVE  BatchInvNow'
<1>1. PICK p : p = pendingMsgs'
  OBVIOUS
<1>2. Longer(p, pendingMsgs, m)
  BY <1>1, AppendFacts DEF BatchInvNow, Surroundings
<1>3. /\ IsSequence(p) /\ \A i \in DOMAIN p : i \in DOMAIN pendingMsgs \/ p[i] = m
      /\ \A i, j \in DOMAIN p : i \notin DOMAIN pendingMsgs /\ j \notin DOMAIN pendingMsgs => i = j
      /\ \A i \in DOMAIN pendingMsgs : p[i] = pendingMsgs[i]
  BY <1>2 DEF Longer
<1>4. Surroundings'
  BY <1>1, <1>3 DEF BatchInvNow, Surroundings
<1>5. PICK u : u = st
  OBVIOUS
<1>6. BatchInv(u, q) /\ CommandFormed(u, m) /\ Idle(u, q, m.call.s) /\ u = st' /\ q = inbox'
  BY <1>5
<1>7. Formed(u, q) => Formed(st, inbox)'
  <2> SUFFICES ASSUME Formed(u, q) PROVE Formed(st, inbox)'
    OBVIOUS
  <2>1. \A c : CallFormed(u, c) <=> CallFormed(u, c)'
    BY DEF CallFormed, OwnFormed, Foreign, StartFormed, StopFormed, TripFormed, Gone, Kept, Wanted
  <2>2. \A e : CommandFormed(u, e) <=> CommandFormed(u, e)'
    BY DEF CommandFormed, Gone
  <2>3. \A e : MessageFormed(u, e) <=> MessageFormed(u, e)'
    BY <2>1, <2>2 DEF MessageFormed
  <2>4. \A i \in DOMAIN p : CommandFormed(u, p[i])
    BY <1>3, <1>6 DEF Formed
  <2>5. \A s \in Sessions \ started : Gone(u, s) /\ Idle(u, q, s)'
    <3>1. \A s \in Sessions \ started : Gone(u, s) /\ Idle(u, q, s) /\ s # m.call.s
      BY DEF Formed
    <3> QED  BY <1>1, <1>3, <3>1 DEF Idle, Of
  <2>6. \A s : Gone(u, s) <=> Gone(u, s)'
    BY DEF Gone
  <2>7. \A s : Kept(u, s) <=> Kept(u, s)'
    BY DEF Kept, Wanted
  <2> QED  BY <1>1, <1>6, <2>1, <2>2, <2>3, <2>4, <2>5, <2>6, <2>7 DEF Formed, IsTables, IsSequence
<1>8. Openings(u, q) => Openings(st, inbox)'
  BY <1>6 DEF Openings, IsOpen, IsUp
<1>9. Empty(u, q) => Empty(st, inbox)'
  BY <1>6 DEF Empty, Gone, IsOpen, IsUp
<1>10. Failures(u, q) => Failures(st, inbox)'
  BY <1>6 DEF Failures, Off, Counts, IsOpen, IsUp, IsBatchCall
<1>11. \A s \in Sessions : OneOf(u, q, s) => OneOf(st, inbox, s)'
  <2> SUFFICES ASSUME NEW s \in Sessions, OneOf(u, q, s) PROVE OneOf(st, inbox, s)'
    OBVIOUS
  <2>1. CASE s = m.call.s
    <3>1. /\ \A i \in DOMAIN u.calls : ~Of(u.calls[i], s)
          /\ \A i \in DOMAIN q : q[i].call.s # s
          /\ \A i \in DOMAIN pendingMsgs : pendingMsgs[i].call.s # s
      BY <1>6, <2>1 DEF Idle
    <3> QED  BY <1>1, <1>3, <1>6, <3>1 DEF OneOf, Of
  <2>2. CASE s # m.call.s
    <3>1. \A i \in DOMAIN p : p[i].call.s = s => i \in DOMAIN pendingMsgs /\ pendingMsgs[i].call.s = s
      BY <1>3, <2>2
    <3> QED  BY <1>1, <1>3, <1>6, <3>1 DEF OneOf, Of
  <2> QED  BY <2>1, <2>2
<1>12. \A s : Foreseen(u, q, s) => Foreseen(st, inbox, s)'
  BY <1>6 DEF Foreseen, IsLast, Counts, Serves, Opening, IsOpen, IsUp, IsBatchCall, Wanted, Outcome
<1> QED  BY <1>4, <1>6, <1>7, <1>8, <1>9, <1>10, <1>11, <1>12 DEF BatchInvNow, BatchInv

\* The adapter takes a command: it executes it, or keeps it until the engine is known.
LEMMA HandleCommandKeeps ==
  ASSUME Constants, BatchInvNow, HandleCommand
  PROVE  BatchInvNow'
<1>1. PICK q : q = Tail(inbox)
  OBVIOUS
<1>2. PICK m : m = Head(inbox)
  OBVIOUS
<1>3. inbox # <<>> /\ m.k \in {"start", "update", "stop"} /\ ~IsUp(m)
  BY <1>2 DEF HandleCommand, IsUp
<1>4. /\ BatchInv(st, q) /\ \A s \in Sessions : m.call.s = s => Idle(st, q, s) /\ s \in started
  BY <1>1, <1>2, <1>3, Taken DEF BatchInvNow
<1>5. CommandFormed(st, m)
  <2>1. Shorter(q, inbox)
    BY <1>1, <1>3, TailFacts DEF BatchInvNow, BatchInv, Formed
  <2>2. MessageFormed(st, m)
    BY <1>2, <2>1 DEF Shorter, BatchInvNow, BatchInv, Formed
  <2> QED  BY <1>3, <2>2 DEF MessageFormed
<1>6. m.call.s \in Sessions /\ Idle(st, q, m.call.s) /\ m.call.s \in started
  BY <1>4, <1>5 DEF CommandFormed
<1>7. inbox' = q /\ UNCHANGED <<known, started, engine>> /\ Handle(m)
  BY <1>1, <1>2 DEF HandleCommand
<1>8. CASE known
  <2>1. PICK drop : Becomes(Execute(m.k, m.call.s, m.call.o, drop))
    BY <1>7, <1>8 DEF Handle
  <2>2. PICK u : u = Execute(m.k, m.call.s, m.call.o, drop)
    OBVIOUS
  <2>3. Ready(st, q, m.call.s)
    BY <1>4, <1>6, <1>8 DEF Ready, BatchInvNow
  <2>a. PICK t : t = st
    OBVIOUS
  <2>4. BatchInv(u, q)
    BY <1>5, <2>2, <2>3, <2>a, ExecuteKeeps
  <2>5. st' = [u EXCEPT !.told = {}] /\ UNCHANGED pendingMsgs
    BY <1>7, <1>8, <2>1, <2>2 DEF Becomes, Handle
  <2> QED  BY <1>7, <2>4, <2>5, Settles DEF BatchInvNow
<1>9. CASE ~known
  <2>1. pendingMsgs' = Append(pendingMsgs, m) /\ UNCHANGED st
    BY <1>7, <1>9 DEF Handle
  <2> QED  BY <1>4, <1>5, <1>6, <1>7, <1>9, <2>1, PostponedKeeps
<1> QED  BY <1>8, <1>9

-----------------------------------------------------------------------------
\* A command of a client that waited.
LEMMA SendKeeps ==
  ASSUME Constants, BatchInvNow, Calm, NEW kind, NEW s \in Sessions, NEW o, Send(kind, s, o),
         \/ kind = "start" /\ o \in Options /\ Gone(st, s)
         \/ kind = "update" /\ o \in Options
         \/ kind = "stop",
         started' = started \cup {s}
  PROVE  BatchInvNow'
<1>1. PICK m : m = Command(kind, s, o)
  OBVIOUS
<1>2. m.k = kind /\ m.call.s = s /\ m.call.o = o /\ ~IsUp(m) /\ m.k # "answer"
  BY <1>1 DEF Command, Call, IsUp
<1>3. PICK q : q = inbox
  OBVIOUS
<1>4. PICK p : p = inbox'
  OBVIOUS
<1>5. PICK u : u = st
  OBVIOUS
<1>6. BatchInv(u, q) /\ u = st' /\ p = inbox' /\ Surroundings
  BY <1>3, <1>4, <1>5 DEF Send, BatchInvNow
<1>7. Longer(p, q, m)
  <2>1. p = Append(q, m) /\ IsSequence(q)
    BY <1>1, <1>3, <1>4 DEF Send, BatchInvNow, BatchInv, Formed
  <2> QED  BY <2>1, AppendFacts
<1> DEFINE n == Len(q) + 1
<1>8. /\ IsSequence(p)
      /\ \A i \in DOMAIN p : i \in Int /\ (i \in DOMAIN q \/ i = n)
      /\ \A i \in DOMAIN q : i \in DOMAIN p /\ p[i] = q[i] /\ i < n
      /\ n \in DOMAIN p /\ p[n] = m /\ n \notin DOMAIN q
  BY <1>7 DEF Longer
<1> HIDE DEF n
<1>9. CommandFormed(u, m)
  BY <1>2, <1>5 DEF CommandFormed
<1>10. UNCHANGED <<known, pendingMsgs, engine>>
  BY DEF Send
<1>11. /\ \A i \in DOMAIN u.calls : ~Of(u.calls[i], s)
       /\ \A i \in DOMAIN q : q[i].call.s # s
       /\ \A i \in DOMAIN pendingMsgs : pendingMsgs[i].call.s # s
  BY <1>3, <1>5 DEF Send, Calm, Pending, Of
<1>12. Surroundings'
  BY <1>6, <1>10 DEF Surroundings
<1>13. Formed(st, inbox)'
  <2>0. Formed(u, q)
    BY <1>6 DEF BatchInv
  <2>1. \A c : CallFormed(u, c) <=> CallFormed(u, c)'
    BY DEF CallFormed, OwnFormed, Foreign, StartFormed, StopFormed, TripFormed, Gone, Kept, Wanted
  <2>2. \A e : CommandFormed(u, e) <=> CommandFormed(u, e)'
    BY DEF CommandFormed, Gone
  <2>3. \A e : MessageFormed(u, e) <=> MessageFormed(u, e)'
    BY <2>1, <2>2 DEF MessageFormed
  <2>4. \A i \in DOMAIN p : MessageFormed(u, p[i])
    BY <1>8, <1>9, <2>0 DEF Formed, MessageFormed
  <2>5. \A x \in Sessions \ started' : Gone(u, x) /\ Idle(u, p, x)'
    <3>1. \A x \in Sessions \ started' : Gone(u, x) /\ Idle(u, q, x) /\ x # s
      BY <2>0 DEF Formed
    <3>2. \A x \in Sessions \ started' : \A i \in DOMAIN p : p[i].call.s # x
      BY <1>2, <1>8, <3>1 DEF Idle
    <3> QED  BY <1>10, <3>1, <3>2 DEF Idle, Of
  <2>6. \A x : Gone(u, x) <=> Gone(u, x)'
    BY DEF Gone
  <2>7. \A x : Kept(u, x) <=> Kept(u, x)'
    BY DEF Kept, Wanted
  <2> QED  BY <1>6, <1>8, <1>10, <2>0, <2>1, <2>2, <2>3, <2>4, <2>5, <2>6, <2>7
           DEF Formed, IsTables, IsSequence
<1>14. \A i \in DOMAIN p : IsUp(p[i]) \/ p[i].k = "answer" => i \in DOMAIN q
  BY <1>2, <1>8
<1>15. Openings(st, inbox)'
  <2>0. Openings(u, q)
    BY <1>6 DEF BatchInv
  <2>1. \A i \in DOMAIN p : IsUp(p[i]) => i \in DOMAIN q /\ IsUp(q[i])
    BY <1>8, <1>14
  <2>2. Openings(u, p)
    BY <2>0, <2>1 DEF Openings
  <2> QED  BY <1>6, <1>10, <2>2 DEF Openings, IsOpen, IsUp
<1>16. Empty(st, inbox)'
  <2>1. Empty(u, p)
    BY <1>6, <1>8, <1>14 DEF Empty, BatchInv
  <2> QED  BY <1>6, <1>10, <2>1 DEF Empty, Gone, IsOpen, IsUp
<1>17. Failures(st, inbox)'
  <2>0. Failures(u, q)
    BY <1>6 DEF BatchInv
  <2>1. ASSUME NEW i \in DOMAIN p, p[i].k = "answer", ~p[i].ok, p[i].call.cb \in {"started", "stopped"}
        PROVE  /\ ~engine.up \/ \E j \in DOMAIN p : i < j /\ IsUp(p[j])
               /\ p[i].call.cb = "started" => Off(u, p[i].call.s)
    <3>1. i \in DOMAIN q /\ p[i] = q[i]
      BY <1>8, <1>14, <2>1
    <3>2. /\ ~engine.up \/ \E j \in DOMAIN q : i < j /\ IsUp(q[j])
          /\ p[i].call.cb = "started" => Off(u, p[i].call.s)
      BY <2>0, <2>1, <3>1 DEF Failures
    <3> QED  BY <1>8, <3>2
  <2>2. Failures(u, p)
    BY <2>0, <2>1 DEF Failures
  <2> QED  BY <1>6, <1>10, <2>2 DEF Failures, Off, Counts, IsOpen, IsUp, IsBatchCall
<1>18. \A x \in Sessions : OneOf(st, inbox, x)'
  <2> SUFFICES ASSUME NEW x \in Sessions PROVE OneOf(st, inbox, x)'
    OBVIOUS
  <2>0. OneOf(u, q, x)
    BY <1>6 DEF BatchInv
  <2>1. CASE x = s
    <3>1. \A i \in DOMAIN p : p[i].call.s = x => i = n
      BY <1>8, <1>11, <2>1
    <3> QED  BY <1>6, <1>10, <1>11, <2>0, <2>1, <3>1 DEF OneOf, Of
  <2>2. CASE x # s
    <3>1. \A i \in DOMAIN p : p[i].call.s = x => i \in DOMAIN q /\ q[i].call.s = x
      BY <1>2, <1>8, <2>2
    <3> QED  BY <1>6, <1>10, <2>0, <3>1 DEF OneOf, Of
  <2> QED  BY <2>1, <2>2
<1>19. \A x \in Sessions : Foreseen(st, inbox, x)'
  <2>1. Opening(p) <=> Opening(q)
    BY <1>8, <1>14 DEF Opening
  <2>2. \A x, e : Serves(u, q, x, e) <=> Serves(u, p, x, e)
    BY <2>1 DEF Serves
  <2>3. \A x \in Sessions : Foreseen(u, p, x)
    BY <1>6, <2>2 DEF Foreseen, BatchInv
  <2> QED  BY <1>6, <1>10, <2>3
           DEF Foreseen, IsLast, Counts, Serves, Opening, IsOpen, IsUp, IsBatchCall, Wanted, Outcome
<1> QED  BY <1>12, <1>13, <1>15, <1>16, <1>17, <1>18, <1>19 DEF BatchInvNow, BatchInv

\* A client sends a command. As it waits for answers, nothing of the session is under way.
LEMMA CommandsKeep ==
  ASSUME Constants, BatchInvNow, Calm, NEW s \in Sessions,
         \/ \E o \in Options : StartBatchingCommand(s, o) \/ UpdateBatchingOptionsCommand(s, o)
         \/ StopBatchingCommand(s)
  PROVE  BatchInvNow'
<1>1. ASSUME NEW o \in Options, StartBatchingCommand(s, o)
      PROVE  BatchInvNow'
  <2>1. Gone(st, s)
    BY <1>1 DEF StartBatchingCommand, BatchInvNow, BatchInv, Formed
  <2> QED  BY <1>1, <2>1, SendKeeps DEF StartBatchingCommand
<1>2. ASSUME NEW o \in Options, UpdateBatchingOptionsCommand(s, o)
      PROVE  BatchInvNow'
  <2>1. started' = started \cup {s}
    BY <1>2 DEF UpdateBatchingOptionsCommand
  <2> QED  BY <1>2, <2>1, SendKeeps DEF UpdateBatchingOptionsCommand
<1>3. CASE StopBatchingCommand(s)
  <2>1. started' = started \cup {s}
    BY <1>3 DEF StopBatchingCommand
  <2> QED  BY <1>3, <2>1, SendKeeps DEF StopBatchingCommand
<1> QED  BY <1>1, <1>2, <1>3

-----------------------------------------------------------------------------
(***************************************************************************)
(* The modem takes a call.                                                 *)
(***************************************************************************)
CallTaken(u, p, t, q, c, ok) ==
  /\ IsTables(u) /\ u.sessions = t.sessions /\ u.trips = t.trips
  /\ IsSequence(u.calls) /\ IsSequence(p) /\ 1 \in DOMAIN t.calls /\ c = t.calls[1]
  /\ \A k \in DOMAIN u.calls :
       k \in Int /\ 1 <= k /\ k + 1 \in DOMAIN t.calls /\ u.calls[k] = t.calls[k + 1]
  /\ \A k \in DOMAIN t.calls :
       k \in Int /\ 1 <= k /\ (k # 1 => k - 1 \in DOMAIN u.calls /\ t.calls[k] = u.calls[k - 1])
  /\ \A i \in DOMAIN q : i \in DOMAIN p /\ p[i] = q[i]
  /\ \A i \in DOMAIN p : i \in Int
  /\ \A i \in DOMAIN p \ DOMAIN q :
       /\ c.cb # "ignore" /\ p[i].k = "answer" /\ p[i].call = c /\ p[i].ok = ok
       /\ \A j \in DOMAIN p \ DOMAIN q : j = i
       /\ \A j \in DOMAIN q : j < i
  /\ c.cb # "ignore" => \E i \in DOMAIN p : i \notin DOMAIN q

\* The calls that are left are those of before, one place further on.
LEMMA TakenFacts ==
  ASSUME BatchInvNow, NEW ops, NextCall(ops), NEW ok, NEW acc, Post(ok, acc),
         NEW u, NEW p, u = st', p = inbox', NEW t, NEW q, t = st, q = inbox
  PROVE  /\ CallTaken(u, p, t, q, Head(st.calls), ok)
         /\ Head(st.calls).op \in ops
<1> DEFINE c == Head(t.calls)
<1>1. /\ t.calls # <<>> /\ u = [t EXCEPT !.calls = Tail(@)] /\ c.op \in ops
      /\ p = IF c.cb = "ignore" THEN q ELSE Append(q, Answer(c, ok, acc))
  BY DEF NextCall, Post
<1>2. IsTables(t) /\ IsSequence(t.calls) /\ IsSequence(q)
  BY DEF BatchInvNow, BatchInv, Formed
<1>3. IsTables(u) /\ u.sessions = t.sessions /\ u.trips = t.trips /\ u.calls = Tail(t.calls)
  BY <1>1, <1>2 DEF IsTables
<1>4. Shorter(u.calls, t.calls)
  BY <1>1, <1>2, <1>3, TailFacts
<1>5. /\ IsSequence(u.calls) /\ 1 \in DOMAIN t.calls /\ c = t.calls[1]
      /\ \A k \in DOMAIN u.calls :
           k \in Int /\ 1 <= k /\ k + 1 \in DOMAIN t.calls /\ u.calls[k] = t.calls[k + 1]
      /\ \A k \in DOMAIN t.calls :
           k \in Int /\ 1 <= k /\ (k # 1 => k - 1 \in DOMAIN u.calls /\ t.calls[k] = u.calls[k - 1])
  BY <1>4 DEF Shorter
<1>a. t.calls = st.calls
  OBVIOUS
<1> HIDE DEF c
<1>6. CASE c.cb = "ignore"
  <2>1. p = q /\ \A i \in DOMAIN q : i \in Int
    BY <1>1, <1>2, <1>6, SequenceFacts
  <2> QED  BY <1>1, <1>2, <1>3, <1>5, <1>6, <1>a, <2>1 DEF CallTaken, c
<1>7. CASE c.cb # "ignore"
  <2> DEFINE m == Answer(c, ok, acc)
  <2>1. m.k = "answer" /\ m.call = c /\ m.ok = ok
    BY DEF Answer
  <2>2. p = Append(q, m)
    BY <1>1, <1>7
  <2> HIDE DEF m
  <2>3. Longer(p, q, m)
    BY <1>2, <2>2, AppendFacts
  <2>4. /\ IsSequence(p)
        /\ \A i \in DOMAIN q : i \in DOMAIN p /\ p[i] = q[i]
        /\ \A i \in DOMAIN p : i \in Int
        /\ \A i \in DOMAIN p \ DOMAIN q : i = Len(q) + 1 /\ p[i] = m
        /\ \A i \in DOMAIN p \ DOMAIN q : \A j \in DOMAIN q : j < i
        /\ \E i \in DOMAIN p : i \notin DOMAIN q
    BY <2>3 DEF Longer
  <2> QED  BY <1>1, <1>3, <1>5, <1>7, <1>a, <2>1, <2>4 DEF CallTaken, c
<1> QED  BY <1>6, <1>7

\* They keep their form.
LEMMA TakenFormed ==
  ASSUME Constants, NEW t, NEW q, BatchInv(t, q), NEW u, NEW p, NEW c, NEW ok,
         CallTaken(u, p, t, q, c, ok)
  PROVE  Formed(u, p) /\ (\A x \in Sessions : OneOf(u, p, x)) /\ CallFormed(t, c)
<1>0. Formed(t, q) /\ \A x \in Sessions : OneOf(t, q, x)
  BY DEF BatchInv
<1>1. /\ IsTables(u) /\ u.sessions = t.sessions /\ u.trips = t.trips
      /\ IsSequence(u.calls) /\ IsSequence(p) /\ 1 \in DOMAIN t.calls /\ c = t.calls[1]
      /\ \A k \in DOMAIN u.calls : k + 1 \in DOMAIN t.calls /\ k + 1 # 1 /\ u.calls[k] = t.calls[k + 1]
      /\ \A i \in DOMAIN q : i \in DOMAIN p /\ p[i] = q[i]
      /\ \A i \in DOMAIN p \ DOMAIN q :
           /\ c.cb # "ignore" /\ p[i].k = "answer" /\ p[i].call = c
           /\ \A j \in DOMAIN p \ DOMAIN q : j = i
      /\ \A k \in DOMAIN u.calls : k \in Int
  BY DEF CallTaken
<1>2. \A e : CallFormed(t, e) <=> CallFormed(u, e)
  BY <1>1 DEF CallFormed, OwnFormed, StartFormed, StopFormed, TripFormed, Gone, Kept
<1>3. \A e : CommandFormed(t, e) <=> CommandFormed(u, e)
  BY <1>1 DEF CommandFormed, Gone
<1>4. \A e : MessageFormed(t, e) <=> MessageFormed(u, e)
  BY <1>2, <1>3 DEF MessageFormed
<1>5. CallFormed(t, c)
  BY <1>0, <1>1 DEF Formed
<1>6. \A i \in DOMAIN p : MessageFormed(u, p[i])
  <2> SUFFICES ASSUME NEW i \in DOMAIN p PROVE MessageFormed(u, p[i])
    OBVIOUS
  <2>1. CASE i \in DOMAIN q
    BY <1>0, <1>1, <1>4, <2>1 DEF Formed
  <2>2. CASE i \notin DOMAIN q
    <3>1. p[i].k = "answer" /\ p[i].call = c /\ c.cb # "ignore"
      BY <1>1, <2>2
    <3> QED  BY <1>2, <1>5, <3>1 DEF MessageFormed
  <2> QED  BY <2>1, <2>2
<1>7. \A x \in Sessions : Idle(t, q, x) => Idle(u, p, x)
  BY <1>1 DEF Idle, Of
<1>8. \A x : (Gone(t, x) <=> Gone(u, x)) /\ (Kept(t, x) <=> Kept(u, x))
  BY <1>1 DEF Gone, Kept
<1>9. Formed(u, p)
  <2>1. \A i \in DOMAIN u.calls : CallFormed(u, u.calls[i])
    BY <1>0, <1>1, <1>2 DEF Formed
  <2>2. \A i \in DOMAIN pendingMsgs : CommandFormed(u, pendingMsgs[i])
    BY <1>0, <1>3 DEF Formed
  <2>3. /\ \A s \in Sessions : u.trips[s] # NoTrip => Kept(u, s)
        /\ \A s \in Sessions \ started : Gone(u, s) /\ Idle(u, p, s)
    BY <1>0, <1>1, <1>7, <1>8 DEF Formed
  <2>4. /\ u.sessions \in [Sessions -> Options \cup {NoOptions}]
        /\ u.trips = [s \in Sessions |-> u.trips[s]]
    BY <1>0, <1>1 DEF Formed
  <2> QED  BY <1>1, <1>6, <2>1, <2>2, <2>3, <2>4 DEF Formed
<1>10. ASSUME NEW x \in Sessions
       PROVE  OneOf(u, p, x)
  <2>0. OneOf(t, q, x)
    BY <1>0
  <2>1. \A i, j \in DOMAIN u.calls : Of(u.calls[i], x) /\ Of(u.calls[j], x) => i = j
    BY <1>1, <2>0 DEF OneOf
  <2>2. CASE Of(c, x)
    <3>1. \A i \in DOMAIN p : p[i].call.s = x => i \notin DOMAIN q
      BY <1>1, <2>0, <2>2 DEF OneOf
    <3>2. \A i \in DOMAIN u.calls : ~Of(u.calls[i], x)
      BY <1>1, <2>0, <2>2 DEF OneOf
    <3>3. \A j \in DOMAIN pendingMsgs : pendingMsgs[j].call.s # x
      BY <1>1, <2>0, <2>2 DEF OneOf
    <3> QED  BY <1>1, <3>1, <3>2, <3>3 DEF OneOf
  <2>3. CASE ~Of(c, x)
    <3>1. \A i \in DOMAIN p : p[i].call.s = x => i \in DOMAIN q /\ q[i].call.s = x
      BY <1>1, <2>3 DEF Of
    <3>2. \A i, j \in DOMAIN p : p[i].call.s = x /\ p[j].call.s = x => i = j
      BY <2>0, <3>1 DEF OneOf
    <3>3. \A i \in DOMAIN u.calls, j \in DOMAIN p : ~(Of(u.calls[i], x) /\ p[j].call.s = x)
      BY <1>1, <2>0, <3>1 DEF OneOf
    <3>4. \A i \in DOMAIN u.calls, j \in DOMAIN pendingMsgs :
            ~(Of(u.calls[i], x) /\ pendingMsgs[j].call.s = x)
      BY <1>1, <2>0 DEF OneOf
    <3>5. \A i \in DOMAIN p, j \in DOMAIN pendingMsgs :
            ~(p[i].call.s = x /\ pendingMsgs[j].call.s = x)
      BY <2>0, <3>1 DEF OneOf
    <3> QED  BY <2>0, <2>1, <3>2, <3>3, <3>4, <3>5 DEF OneOf
  <2> QED  BY <2>2, <2>3
<1> QED  BY <1>5, <1>9, <1>10

\* Which of them count: those behind the last opening still do.
LEMMA TakenCounts ==
  ASSUME NEW t, NEW q, NEW u, NEW p, NEW c, NEW ok, CallTaken(u, p, t, q, c, ok)
  PROVE  /\ \A x : \A k \in DOMAIN u.calls :
              (Counts(u, k, x) <=> Counts(t, k + 1, x)) /\ (IsLast(u, k, x) <=> IsLast(t, k + 1, x))
         /\ \A x : (\A k \in DOMAIN u.calls : ~Counts(u, k, x)) <=>
                     \A i \in DOMAIN t.calls : Counts(t, i, x) => i = 1
<1>1. /\ \A k \in DOMAIN u.calls :
           k \in Int /\ 1 <= k /\ k + 1 \in DOMAIN t.calls /\ u.calls[k] = t.calls[k + 1]
      /\ \A k \in DOMAIN t.calls :
           k \in Int /\ 1 <= k /\ (k # 1 => k - 1 \in DOMAIN u.calls /\ t.calls[k] = u.calls[k - 1])
  BY DEF CallTaken
<1>2. ASSUME NEW k \in DOMAIN u.calls
      PROVE  (\A j \in DOMAIN u.calls : IsOpen(u.calls[j]) => j < k) <=>
               (\A j \in DOMAIN t.calls : IsOpen(t.calls[j]) => j < k + 1)
  <2>1. ASSUME \A j \in DOMAIN u.calls : IsOpen(u.calls[j]) => j < k, NEW j \in DOMAIN t.calls, IsOpen(t.calls[j])
        PROVE  j < k + 1
    <3>1. CASE j = 1
      BY <1>1, <3>1
    <3>2. CASE j # 1
      <4>1. j - 1 \in DOMAIN u.calls /\ IsOpen(u.calls[j - 1])
        BY <1>1, <2>1, <3>2
      <4>2. j - 1 < k
        BY <2>1, <4>1
      <4> QED  BY <1>1, <4>2
    <3> QED  BY <3>1, <3>2
  <2>2. ASSUME \A j \in DOMAIN t.calls : IsOpen(t.calls[j]) => j < k + 1, NEW j \in DOMAIN u.calls, IsOpen(u.calls[j])
        PROVE  j < k
    <3>1. j + 1 < k + 1
      BY <1>1, <2>2
    <3> QED  BY <1>1, <3>1
  <2> QED  BY <2>1, <2>2
<1>3. \A x : \A k \in DOMAIN u.calls : Counts(u, k, x) <=> Counts(t, k + 1, x)
  BY <1>1, <1>2 DEF Counts
<1>4. ASSUME NEW x, NEW k \in DOMAIN u.calls
      PROVE  IsLast(u, k, x) <=> IsLast(t, k + 1, x)
  <2>1. ASSUME \A j \in DOMAIN u.calls : Counts(u, j, x) => j <= k, NEW j \in DOMAIN t.calls, Counts(t, j, x)
        PROVE  j <= k + 1
    <3>1. CASE j = 1
      BY <1>1, <3>1
    <3>2. CASE j # 1
      <4>1. j - 1 \in DOMAIN u.calls /\ (j - 1) + 1 = j
        BY <1>1, <2>1, <3>2
      <4>2. j - 1 <= k
        BY <1>3, <2>1, <4>1
      <4> QED  BY <1>1, <4>2
    <3> QED  BY <3>1, <3>2
  <2>2. ASSUME \A j \in DOMAIN t.calls : Counts(t, j, x) => j <= k + 1, NEW j \in DOMAIN u.calls, Counts(u, j, x)
        PROVE  j <= k
    <3>1. j + 1 <= k + 1
      BY <1>1, <1>3, <2>2
    <3> QED  BY <1>1, <3>1
  <2> QED  BY <1>3, <2>1, <2>2 DEF IsLast
<1>5. ASSUME NEW x
      PROVE  (\A k \in DOMAIN u.calls : ~Counts(u, k, x)) <=>
               \A i \in DOMAIN t.calls : Counts(t, i, x) => i = 1
  <2>1. ASSUME NEW i \in DOMAIN t.calls, Counts(t, i, x), i # 1
        PROVE  \E k \in DOMAIN u.calls : Counts(u, k, x)
    <3>1. i - 1 \in DOMAIN u.calls /\ (i - 1) + 1 = i
      BY <1>1, <2>1
    <3> QED  BY <1>3, <2>1, <3>1
  <2>2. ASSUME NEW k \in DOMAIN u.calls, Counts(u, k, x)
        PROVE  k + 1 \in DOMAIN t.calls /\ Counts(t, k + 1, x) /\ k + 1 # 1
    BY <1>1, <1>3, <2>2
  <2> QED  BY <2>1, <2>2
<1> QED  BY <1>3, <1>4, <1>5

\* A call that does not open the modem: it is executed, or refused.
LEMMA ServedKeeps ==
  ASSUME Constants, BatchInvNow, NEW t, NEW q, NEW u, NEW p, NEW e, NEW c, NEW ok,
         t = st, q = inbox, u = st', p = inbox', e = engine',
         CallTaken(u, p, t, q, c, ok), ~IsOpen(c),
         UNCHANGED <<known, pendingMsgs, started>>,
         e = [up |-> engine.up, batch |-> e.batch, trip |-> e.trip, acc |-> e.acc,
              restarts |-> engine.restarts],
         e.batch = [x \in Sessions |-> e.batch[x]],
         \A x \in Sessions :
           IF engine.up /\ IsBatchCall(c) /\ c.s = x THEN e.batch[x] = Outcome(c)
           ELSE e.batch[x] = engine.batch[x],
         ~ok => ~engine.up \/ ~IsBatchCall(c)
  PROVE  BatchInvNow'
<1>0. /\ BatchInv(t, q) /\ Surroundings /\ Formed(t, q) /\ Openings(t, q) /\ Empty(t, q)
      /\ Failures(t, q)
      /\ \A x \in Sessions : OneOf(t, q, x) /\ Foreseen(t, q, x)
  BY DEF BatchInvNow, BatchInv
<1>1. Formed(u, p) /\ (\A x \in Sessions : OneOf(u, p, x)) /\ CallFormed(t, c)
  BY <1>0, TakenFormed
<1>2. /\ \A x : \A k \in DOMAIN u.calls :
              (Counts(u, k, x) <=> Counts(t, k + 1, x)) /\ (IsLast(u, k, x) <=> IsLast(t, k + 1, x))
      /\ \A x : (\A k \in DOMAIN u.calls : ~Counts(u, k, x)) <=>
                  \A i \in DOMAIN t.calls : Counts(t, i, x) => i = 1
  BY TakenCounts
<1>3. /\ u.sessions = t.sessions /\ 1 \in DOMAIN t.calls /\ c = t.calls[1]
      /\ \A k \in DOMAIN u.calls :
           k \in Int /\ 1 <= k /\ k + 1 \in DOMAIN t.calls /\ u.calls[k] = t.calls[k + 1]
      /\ \A k \in DOMAIN t.calls :
           k \in Int /\ 1 <= k /\ (k # 1 => k - 1 \in DOMAIN u.calls /\ t.calls[k] = u.calls[k - 1])
      /\ \A i \in DOMAIN q : i \in DOMAIN p /\ p[i] = q[i]
      /\ \A i \in DOMAIN p \ DOMAIN q :
           c.cb # "ignore" /\ p[i].k = "answer" /\ p[i].call = c /\ p[i].ok = ok
  BY DEF CallTaken
<1>4. engine'.up = engine.up /\ engine'.restarts = engine.restarts /\ engine'.batch = e.batch
  OBVIOUS
<1>5. \A x \in Sessions : e.batch[x] # engine.batch[x] =>
        engine.up /\ IsBatchCall(c) /\ c.s = x /\ e.batch[x] = Outcome(c)
  OBVIOUS
<1>6. Surroundings'
  BY <1>0, <1>4, <1>5 DEF Surroundings
<1>7. UNCHANGED <<pendingMsgs, started>>
  OBVIOUS
<1>8. Formed(st, inbox)'
  BY <1>1, <1>7 DEF Formed, CallFormed, CommandFormed, MessageFormed, OwnFormed, Foreign, StartFormed,
         StopFormed, TripFormed, Gone, Kept, Wanted, Idle, Of, IsTables, IsSequence
<1>9. \A x \in Sessions : OneOf(st, inbox, x)'
  BY <1>1, <1>7 DEF OneOf, Of
<1>11. c.cb # "engineUp"
  BY <1>1 DEF CallFormed, Foreign, CommonCbs, OwnFormed, StartFormed, StopFormed, TripFormed, TripCbs, IsOpen
<1>12. \A i \in DOMAIN p : IsUp(p[i]) => i \in DOMAIN q /\ IsUp(q[i])
  BY <1>3, <1>11 DEF IsUp
<1>13. known
  BY <1>0, <1>3 DEF Empty, Surroundings
<1>14. engine.up <=> \A i \in DOMAIN u.calls : ~IsOpen(u.calls[i])
  BY <1>0, <1>3 DEF Openings
<1>15. Openings(st, inbox)'
  <2>1. \A i, j \in DOMAIN u.calls : IsOpen(u.calls[i]) /\ IsOpen(u.calls[j]) => i = j
    <3>1. \A i, j \in DOMAIN u.calls : IsOpen(u.calls[i]) /\ IsOpen(u.calls[j]) => i + 1 = j + 1
      BY <1>0, <1>3 DEF Openings
    <3> QED  BY <1>3, <3>1
  <2>2. Openings(u, p)
    BY <1>0, <1>12, <1>13, <1>14, <2>1 DEF Openings
  <2> QED  BY <1>4, <2>2 DEF Openings, IsOpen, IsUp
<1>16. Empty(st, inbox)'
  BY <1>13 DEF Empty
<1>17. engine.up => \A i \in DOMAIN t.calls : ~IsOpen(t.calls[i])
  BY <1>0 DEF Openings
<1>18. \A x \in Sessions : IsBatchCall(c) /\ c.s = x /\ engine.up => Counts(t, 1, x)
  BY <1>3, <1>17 DEF Counts
<1>19. \A x \in Sessions : Off(t, x) => e.batch[x] = NoOptions /\ \A i \in DOMAIN u.calls : ~Counts(u, i, x)
  BY <1>2, <1>3, <1>5, <1>18 DEF Off
<1>20. \A i, x : Counts(u, i, x)' <=> Counts(u, i, x)
  BY DEF Counts, IsOpen, IsBatchCall
<1>21. \A x \in Sessions : Off(t, x) => Off(u, x)'
  BY <1>4, <1>19, <1>20 DEF Off
<1>22. Failures(st, inbox)'
  <2>1. ASSUME NEW i \in DOMAIN p, p[i].k = "answer", ~p[i].ok, p[i].call.cb \in {"started", "stopped"}
        PROVE  /\ ~engine.up \/ \E j \in DOMAIN p : i < j /\ IsUp(p[j])
               /\ p[i].call.cb = "started" => Off(u, p[i].call.s)'
    <3>1. CASE i \in DOMAIN q
      <4>1. p[i] = q[i]
        BY <1>3, <3>1
      <4>2. /\ ~engine.up \/ \E j \in DOMAIN q : i < j /\ IsUp(q[j])
            /\ p[i].call.cb = "started" => Off(t, p[i].call.s)
        BY <1>0, <2>1, <3>1, <4>1 DEF Failures
      <4>3. MessageFormed(t, p[i])
        BY <1>0, <3>1, <4>1 DEF Formed
      <4>4. p[i].call.cb = "started" => p[i].call.s \in Sessions
        BY <2>1, <4>3 DEF MessageFormed, CommandFormed, CallFormed, Foreign, CommonCbs, OwnFormed
      <4> QED  BY <1>3, <1>21, <4>2, <4>4
    <3>2. CASE i \notin DOMAIN q
      <4>1. p[i].call = c /\ ~ok
        BY <1>3, <2>1, <3>2
      <4>2. IsBatchCall(c)
        BY <1>1, <2>1, <4>1 DEF CallFormed, Foreign, CommonCbs, OwnFormed, StartFormed, StopFormed,
             TripFormed, TripCbs, IsBatchCall
      <4>3. ~engine.up
        BY <4>1, <4>2
      <4>4. \E j \in DOMAIN t.calls : 1 < j /\ IsOpen(t.calls[j])
        <5>1. PICK j \in DOMAIN t.calls : IsOpen(t.calls[j])
          BY <1>0, <4>3 DEF Openings
        <5>2. j # 1 /\ j \in Int /\ 1 <= j
          BY <1>3, <5>1
        <5> QED  BY <5>1, <5>2
      <4>5. c.cb = "started" => Off(t, c.s) /\ c.s \in Sessions
        BY <1>0, <1>1, <1>3, <4>4 DEF Failures, CallFormed, Foreign, CommonCbs, OwnFormed
      <4> QED  BY <1>21, <4>1, <4>3, <4>5
    <3> QED  BY <3>1, <3>2
  <2>2. ASSUME NEW i \in DOMAIN u.calls, u.calls[i].cb = "started",
               NEW j \in DOMAIN u.calls, i < j, IsOpen(u.calls[j])
        PROVE  Off(u, u.calls[i].s)'
    <3>1. /\ i + 1 \in DOMAIN t.calls /\ j + 1 \in DOMAIN t.calls /\ i + 1 < j + 1
          /\ t.calls[i + 1] = u.calls[i] /\ IsOpen(t.calls[j + 1])
      BY <1>3, <2>2
    <3>2. Off(t, u.calls[i].s)
      BY <1>0, <2>2, <3>1 DEF Failures
    <3>3. CallFormed(t, u.calls[i])
      BY <1>0, <3>1 DEF Formed
    <3>4. u.calls[i].s \in Sessions
      BY <2>2, <3>3 DEF CallFormed, Foreign, CommonCbs, OwnFormed
    <3> QED  BY <1>21, <3>2, <3>4
  <2>3. Failures(u, p)'
    BY <1>4, <2>1, <2>2 DEF Failures, IsUp, IsOpen
  <2> QED  BY <2>3
<1>23. Opening(p)' <=> Opening(q)
  BY <1>3, <1>4, <1>12 DEF Opening, IsUp
<1>24. \A x, o : Serves(t, q, x, o) => Serves(u, p, x, o)'
  BY <1>3, <1>23 DEF Serves, Wanted
<1>25. ASSUME NEW x \in Sessions
       PROVE  Foreseen(u, p, x)'
  <2>1. \A i : IsLast(u, i, x)' <=> IsLast(u, i, x)
    BY <1>20 DEF IsLast
  <2>2. \A i \in DOMAIN u.calls : IsLast(u, i, x) => Serves(t, q, x, Outcome(u.calls[i]))
    BY <1>0, <1>2, <1>3 DEF Foreseen
  <2>3. ASSUME \A i \in DOMAIN u.calls : ~Counts(u, i, x)
        PROVE  Serves(t, q, x, e.batch[x])
    <3>1. \A i \in DOMAIN t.calls : Counts(t, i, x) => i = 1
      BY <1>2, <2>3
    <3>2. CASE Counts(t, 1, x)
      <4>1. IsLast(t, 1, x)
        BY <1>3, <3>1, <3>2 DEF IsLast
      <4>2. Serves(t, q, x, Outcome(c))
        BY <1>0, <1>3, <4>1 DEF Foreseen
      <4>3. \A j \in DOMAIN t.calls : ~IsOpen(t.calls[j])
        BY <1>3, <3>2 DEF Counts
      <4>4. engine.up /\ IsBatchCall(c) /\ c.s = x
        BY <1>0, <1>3, <3>2, <4>3 DEF Openings, Counts
      <4>5. e.batch[x] = Outcome(c)
        BY <4>4
      <4> QED  BY <4>2, <4>5
    <3>3. CASE ~Counts(t, 1, x)
      <4>1. Serves(t, q, x, engine.batch[x])
        BY <1>0, <3>1, <3>3 DEF Foreseen
      <4>2. e.batch[x] = engine.batch[x]
        BY <1>5, <1>18, <3>3
      <4> QED  BY <4>1, <4>2
    <3> QED  BY <3>2, <3>3
  <2>4. \A i : Outcome(u.calls[i])' = Outcome(u.calls[i])
    BY DEF Outcome
  <2>5. \A i \in DOMAIN u.calls : IsLast(u, i, x)' => Serves(u, p, x, Outcome(u.calls[i]))'
    <3> TAKE i \in DOMAIN u.calls
    <3>1. PICK o : o = Outcome(u.calls[i])
      OBVIOUS
    <3>2. IsLast(u, i, x) => Serves(u, p, x, o)'
      BY <1>24, <2>2, <3>1
    <3> QED  BY <2>1, <2>4, <3>1, <3>2 DEF Serves
  <2>6. (\A i \in DOMAIN u.calls : ~Counts(u, i, x)') => Serves(u, p, x, engine.batch[x])'
    <3>1. PICK o : o = e.batch[x]
      OBVIOUS
    <3>2. (\A i \in DOMAIN u.calls : ~Counts(u, i, x)) => Serves(u, p, x, o)'
      BY <1>24, <2>3, <3>1
    <3> QED  BY <1>4, <1>20, <3>1, <3>2 DEF Serves
  <2> QED  BY <2>5, <2>6 DEF Foreseen
<1>26. \A x \in Sessions : Foreseen(st, inbox, x)'
  BY <1>25
<1> QED  BY <1>6, <1>8, <1>9, <1>15, <1>16, <1>22, <1>26 DEF BatchInvNow, BatchInv

\* The modem works off a call about batching or about the trip, or refuses it.
LEMMA ModemServes ==
  ASSUME Constants, BatchInvNow, Calm, ModemBatch \/ ModemTrip \/ ModemQuery \/ ModemRefuses
  PROVE  BatchInvNow'
<1>1. PICK t : t = st
  OBVIOUS
<1>2. PICK q : q = inbox
  OBVIOUS
<1>3. PICK u : u = st'
  OBVIOUS
<1>4. PICK p : p = inbox'
  OBVIOUS
<1>5. PICK e : e = engine'
  OBVIOUS
<1>6. PICK c : c = Head(st.calls)
  OBVIOUS
<1>7. /\ engine = [up |-> engine.up, batch |-> engine.batch, trip |-> engine.trip,
                   acc |-> engine.acc, restarts |-> engine.restarts]
      /\ engine.batch = [x \in Sessions |-> engine.batch[x]]
  BY DEF BatchInvNow, Surroundings
<1>8. CASE ModemBatch
  <2>1. CallTaken(u, p, t, q, c, TRUE) /\ c.op \in {"startB", "stopB"}
    <3>1. NextCall({"startB", "stopB"}) /\ Post(TRUE, 0)
      BY <1>8 DEF ModemBatch
    <3> QED  BY <1>1, <1>2, <1>3, <1>4, <1>6, <3>1, TakenFacts
  <2>2. /\ engine.up /\ UNCHANGED <<known, pendingMsgs, started>>
        /\ e = [engine EXCEPT !.batch[c.s] = Outcome(c)]
    BY <1>5, <1>6, <1>8 DEF ModemBatch, ModemOnly, Outcome
  <2>3. /\ e = [up |-> engine.up, batch |-> e.batch, trip |-> e.trip, acc |-> e.acc,
                restarts |-> engine.restarts]
        /\ e.batch = [engine.batch EXCEPT ![c.s] = Outcome(c)]
    BY <1>7, <2>2
  <2>4. /\ e.batch = [x \in Sessions |-> e.batch[x]]
        /\ \A x \in Sessions :
             IF engine.up /\ IsBatchCall(c) /\ c.s = x THEN e.batch[x] = Outcome(c)
             ELSE e.batch[x] = engine.batch[x]
    BY <1>7, <2>1, <2>2, <2>3 DEF IsBatchCall
  <2>5. ~IsOpen(c)
    BY <2>1 DEF IsOpen
  <2>6. PICK ok : ok = TRUE
    OBVIOUS
  <2> QED  BY <1>1, <1>2, <1>3, <1>4, <1>5, <2>1, <2>2, <2>3, <2>4, <2>5, <2>6, ServedKeeps
<1>9. CASE ModemTrip \/ ModemQuery \/ ModemRefuses
  <2>1. PICK ok, acc : /\ Post(ok, acc)
                       /\ NextCall({"startB", "stopB", "startT", "restartT", "stopT", "query"})
                       /\ ok => c.op \notin {"startB", "stopB"}
                       /\ ~ok => ~engine.up \/ c.op \notin {"startB", "stopB"}
    <3>1. CASE ModemTrip
      BY <1>6, <3>1 DEF ModemTrip, NextCall
    <3>2. CASE ModemQuery
      BY <1>6, <3>2 DEF ModemQuery, NextCall
    <3>3. CASE ModemRefuses
      <4>1. Post(FALSE, 0)
        BY <3>3 DEF ModemRefuses
      <4>2. NextCall({"startB", "stopB", "startT", "restartT", "stopT", "query"})
        BY <3>3 DEF ModemRefuses
      <4>3. ~engine.up \/ c.op = "query"
        BY <1>6, <3>3 DEF ModemRefuses, Calm
      <4> QED  BY <4>1, <4>2, <4>3
    <3> QED  BY <1>9, <3>1, <3>2, <3>3
  <2>2. CallTaken(u, p, t, q, c, ok) /\ ~IsOpen(c)
    BY <1>1, <1>2, <1>3, <1>4, <1>6, <2>1, TakenFacts DEF IsOpen
  <2>3. UNCHANGED <<known, pendingMsgs, started>>
    BY <1>9 DEF ModemTrip, ModemQuery, ModemRefuses, ModemOnly
  <2>4. e = engine \/ e = [engine EXCEPT !.trip = c.run, !.acc = 0]
    BY <1>5, <1>6, <1>9 DEF ModemTrip, ModemQuery, ModemRefuses
  <2>5. /\ e = [up |-> engine.up, batch |-> e.batch, trip |-> e.trip, acc |-> e.acc,
                restarts |-> engine.restarts]
        /\ e.batch = engine.batch
    BY <1>7, <2>4
  <2>6. ~(engine.up /\ IsBatchCall(c))
    <3>1. CASE ok
      BY <2>1, <3>1 DEF IsBatchCall
    <3>2. CASE ~ok
      BY <2>1, <3>2 DEF IsBatchCall
    <3> QED  BY <3>1, <3>2
  <2> QED  BY <1>1, <1>2, <1>3, <1>4, <1>5, <1>7, <2>2, <2>3, <2>5, <2>6, ServedKeeps
<1> QED  BY <1>8, <1>9

\* The modem is up again: what is called from now on counts.
LEMMA ModemOpensKeeps ==
  ASSUME Constants, BatchInvNow, ModemOpens
  PROVE  BatchInvNow'
<1>1. PICK t : t = st
  OBVIOUS
<1>2. PICK q : q = inbox
  OBVIOUS
<1>3. PICK u : u = st'
  OBVIOUS
<1>4. PICK p : p = inbox'
  OBVIOUS
<1>5. PICK c : c = Head(st.calls)
  OBVIOUS
<1>6. CallTaken(u, p, t, q, c, TRUE) /\ IsOpen(c)
  <2>1. NextCall({"open"}) /\ Post(TRUE, 0)
    BY DEF ModemOpens
  <2>2. CallTaken(u, p, t, q, c, TRUE)
    BY <1>1, <1>2, <1>3, <1>4, <1>5, <2>1, TakenFacts
  <2>3. c.op \in {"open"}
    BY <1>5, <2>1 DEF NextCall
  <2> QED  BY <2>2, <2>3 DEF IsOpen
<1>7. /\ BatchInv(t, q) /\ Surroundings /\ Formed(t, q) /\ Openings(t, q) /\ Empty(t, q)
      /\ Failures(t, q)
      /\ \A x \in Sessions : OneOf(t, q, x) /\ Foreseen(t, q, x)
  BY <1>1, <1>2 DEF BatchInvNow, BatchInv
<1>8. Formed(u, p) /\ (\A x \in Sessions : OneOf(u, p, x)) /\ CallFormed(t, c)
  BY <1>6, <1>7, TakenFormed
<1>9. /\ u.sessions = t.sessions /\ u.trips = t.trips /\ 1 \in DOMAIN t.calls /\ c = t.calls[1]
      /\ \A k \in DOMAIN u.calls :
           k \in Int /\ 1 <= k /\ k + 1 \in DOMAIN t.calls /\ u.calls[k] = t.calls[k + 1]
      /\ \A i \in DOMAIN q : i \in DOMAIN p /\ p[i] = q[i]
      /\ \A i \in DOMAIN p : i \in Int
      /\ \A i \in DOMAIN p \ DOMAIN q :
           /\ p[i].k = "answer" /\ p[i].call = c /\ p[i].ok = TRUE
           /\ \A j \in DOMAIN p \ DOMAIN q : j = i
           /\ \A j \in DOMAIN q : j < i
      /\ c.cb # "ignore" => \E i \in DOMAIN p : i \notin DOMAIN q
  BY <1>6 DEF CallTaken
<1>10. c.cb = "engineUp"
  BY <1>6, <1>8 DEF CallFormed, Foreign, TripOps, OwnFormed, StartFormed, StopFormed, TripFormed, IsOpen
<1>11. PICK n \in DOMAIN p : /\ n \notin DOMAIN q /\ IsUp(p[n]) /\ n \in Int /\ p[n].call = c /\ p[n].ok = TRUE
                             /\ \A j \in DOMAIN p : j \in DOMAIN q \/ j = n
                             /\ \A j \in DOMAIN q : j < n
  BY <1>9, <1>10 DEF IsUp
<1>12. /\ UNCHANGED <<known, pendingMsgs, started>>
       /\ engine'.up = TRUE /\ engine'.batch = engine.batch /\ engine'.restarts = engine.restarts
       /\ engine' = [up |-> TRUE, batch |-> engine.batch, trip |-> engine.trip,
                     acc |-> engine.acc, restarts |-> engine.restarts]
  BY <1>7 DEF ModemOpens, ModemOnly, Surroundings
<1>13. ~engine.up
  BY <1>6, <1>7, <1>9 DEF Openings
<1>14. \A i \in DOMAIN u.calls : ~IsOpen(u.calls[i])
  <2>1. \A i \in DOMAIN u.calls : IsOpen(u.calls[i]) => i + 1 = 1
    BY <1>6, <1>7, <1>9 DEF Openings
  <2> QED  BY <1>9, <2>1
<1>15. Surroundings'
  BY <1>7, <1>12 DEF Surroundings
<1>16. Formed(st, inbox)'
  BY <1>3, <1>4, <1>8, <1>12 DEF Formed, CallFormed, CommandFormed, MessageFormed, OwnFormed, Foreign,
     StartFormed, StopFormed, TripFormed, Gone, Kept, Wanted, Idle, Of, IsTables, IsSequence
<1>17. \A x \in Sessions : OneOf(st, inbox, x)'
  BY <1>3, <1>4, <1>8, <1>12 DEF OneOf, Of
<1>18. Openings(u, p)'
  <2>1. known => /\ \A i, j \in DOMAIN p : IsUp(p[i]) /\ IsUp(p[j]) => i = j
                 /\ engine.restarts # 0
    <3>1. known => \A i \in DOMAIN q : ~IsUp(q[i])
      BY <1>7, <1>13 DEF Openings
    <3>2. known => engine.restarts # 0
      BY <1>7, <1>13 DEF Openings
    <3> QED  BY <1>9, <1>11, <3>1, <3>2
  <2>2. ASSUME ~known, NEW i \in DOMAIN p, NEW j \in DOMAIN p, NEW k \in DOMAIN p,
               i < j, j < k, IsUp(p[i]), IsUp(p[j]), IsUp(p[k])
        PROVE  FALSE
    <3>1. i \in DOMAIN q /\ j \in DOMAIN q /\ i # j /\ i \in Int /\ j \in Int /\ k \in Int
      BY <1>9, <1>11, <2>2
    <3>2. IsUp(q[i]) /\ IsUp(q[j])
      BY <1>9, <2>2, <3>1
    <3> QED  BY <1>7, <1>13, <2>2, <3>1, <3>2 DEF Openings
  <2>3. ~known /\ engine.restarts = 0 => \A i, j \in DOMAIN p : IsUp(p[i]) /\ IsUp(p[j]) => i = j
    <3>1. ~known /\ engine.restarts = 0 => \A i \in DOMAIN q : ~IsUp(q[i])
      BY <1>7, <1>13 DEF Openings
    <3> QED  BY <1>9, <1>11, <3>1
  <2> QED  BY <1>12, <1>14, <2>1, <2>2, <2>3 DEF Openings, IsUp, IsOpen
<1>19. Empty(u, p)'
  <2>1. ~known => /\ \A s \in Sessions : Gone(t, s) /\ engine.batch[s] = NoOptions
                  /\ \A i \in DOMAIN t.calls : IsOpen(t.calls[i])
                  /\ \A i \in DOMAIN q : q[i].k = "answer" => IsUp(q[i])
    BY <1>7 DEF Empty
  <2>2. ~known => /\ \A s \in Sessions : Gone(u, s) /\ engine.batch[s] = NoOptions
                  /\ \A i \in DOMAIN u.calls : IsOpen(u.calls[i])
                  /\ \A i \in DOMAIN p : p[i].k = "answer" => IsUp(p[i])
    BY <1>9, <1>11, <2>1 DEF Gone
  <2> QED  BY <1>12, <2>2 DEF Empty, Gone, IsOpen, IsUp
<1>20. Failures(u, p)'
  <2>1. ASSUME NEW i \in DOMAIN p, p[i].k = "answer", ~p[i].ok, p[i].call.cb \in {"started", "stopped"}
        PROVE  /\ \E j \in DOMAIN p : i < j /\ IsUp(p[j])
               /\ p[i].call.cb = "started" => Off(u, p[i].call.s)'
    <3>1. i \in DOMAIN q
      BY <1>11, <2>1
    <3>2. i < n /\ IsUp(p[n])
      BY <1>11, <3>1
    <3>3. p[i].call.cb = "started" => Off(t, p[i].call.s)
      BY <1>7, <1>9, <2>1, <3>1 DEF Failures
    <3>a. \A x : \A k \in DOMAIN u.calls : Counts(u, k, x) => Counts(t, k + 1, x)
      BY <1>6, TakenCounts
    <3>4. \A x : \A k \in DOMAIN u.calls : Counts(u, k, x) => k + 1 \in DOMAIN t.calls /\ Counts(t, k + 1, x)
      BY <1>9, <3>a
    <3>5. p[i].call.cb = "started" =>
            engine.batch[p[i].call.s] = NoOptions /\ \A k \in DOMAIN u.calls : ~Counts(u, k, p[i].call.s)
      BY <3>3, <3>4 DEF Off
    <3> QED  BY <1>12, <3>2, <3>5 DEF Off, Counts, IsOpen, IsBatchCall
  <2> QED  BY <1>14, <2>1 DEF Failures, IsUp, IsOpen
<1>21. ASSUME NEW x \in Sessions
       PROVE  Foreseen(u, p, x)'
  <2>1. /\ \A k \in DOMAIN u.calls : IsLast(u, k, x) => IsLast(t, k + 1, x)
        /\ (\A k \in DOMAIN u.calls : ~Counts(u, k, x)) =>
                  \A i \in DOMAIN t.calls : Counts(t, i, x) => i = 1
    BY <1>6, TakenCounts
  <2>2. \A o : Serves(t, q, x, o) => o = Wanted(u.sessions[x]) \/ o = NoOptions
    BY <1>9 DEF Serves
  <2>3. \A k \in DOMAIN u.calls : IsLast(u, k, x) =>
           Outcome(u.calls[k]) = Wanted(u.sessions[x]) \/ Outcome(u.calls[k]) = NoOptions
    BY <1>7, <1>9, <2>1, <2>2 DEF Foreseen
  <2>4. engine.batch[x] = NoOptions
    BY <1>7, <1>13 DEF Surroundings
  <2>5. \A o : o = Wanted(u.sessions[x]) \/ o = NoOptions => Serves(u, p, x, o)'
    BY <1>11 DEF Serves, Opening, IsUp, Wanted
  <2>6. \A k \in DOMAIN u.calls : IsLast(u, k, x)' => Serves(u, p, x, Outcome(u.calls[k]))'
    <3> TAKE k \in DOMAIN u.calls
    <3>1. PICK o : o = Outcome(u.calls[k])
      OBVIOUS
    <3>2. IsLast(u, k, x) => Serves(u, p, x, o)'
      BY <2>3, <2>5, <3>1
    <3>3. IsLast(u, k, x)' => IsLast(u, k, x)
      BY DEF IsLast, Counts, IsOpen, IsBatchCall
    <3> QED  BY <3>1, <3>2, <3>3 DEF Serves, Outcome
  <2>7. Serves(u, p, x, engine.batch[x])'
    <3>1. PICK o : o = engine.batch[x]
      OBVIOUS
    <3>2. Serves(u, p, x, o)'
      BY <2>4, <2>5, <3>1
    <3> QED  BY <1>12, <3>1, <3>2 DEF Serves
  <2> QED  BY <2>6, <2>7 DEF Foreseen
<1>22. /\ Openings(st, inbox)' /\ Empty(st, inbox)' /\ Failures(st, inbox)'
       /\ \A x \in Sessions : Foreseen(st, inbox, x)'
  BY <1>3, <1>4, <1>18, <1>19, <1>20, <1>21
<1> QED  BY <1>15, <1>16, <1>17, <1>22 DEF BatchInvNow, BatchInv

\* The modem goes down: whatever it ran, and the calls that wait, no longer count.
LEMMA ModemDownKeeps ==
  ASSUME Constants, BatchInvNow, Calm, ModemDown
  PROVE  BatchInvNow'
<1>1. PICK t : t = st
  OBVIOUS
<1>2. PICK q : q = inbox /\ q = inbox'
  BY DEF ModemDown
<1>3. PICK u : u = st'
  OBVIOUS
<1>4. /\ BatchInv(t, q) /\ Surroundings /\ Formed(t, q) /\ Openings(t, q) /\ Empty(t, q)
      /\ \A x \in Sessions : OneOf(t, q, x)
  BY <1>1, <1>2 DEF BatchInvNow, BatchInv
<1>5. IsTables(t) /\ IsSequence(t.calls)
  BY <1>4 DEF Formed
<1>6. /\ IsTables(u) /\ u.sessions = t.sessions /\ u.trips = t.trips
      /\ Longer(u.calls, t.calls, OpenCall)
  <2>1. u = [t EXCEPT !.calls = Append(@, OpenCall)]
    BY <1>1, <1>3 DEF ModemDown
  <2>2. u = Calling(t, OpenCall)
    BY <2>1 DEF Calling
  <2> QED  BY <1>5, <2>2, CallingFacts DEF Called
<1>7. PICK n : /\ IsSequence(u.calls)
               /\ \A k \in DOMAIN u.calls : k \in Int /\ (k \in DOMAIN t.calls \/ k = n) /\ k <= n
               /\ \A k \in DOMAIN t.calls : k \in DOMAIN u.calls /\ u.calls[k] = t.calls[k]
               /\ n \in DOMAIN u.calls /\ u.calls[n] = OpenCall
  BY <1>6 DEF Longer
<1>8. OpenCall.op = "open" /\ OpenCall.cb = "engineUp" /\ OpenCall.s = NoSession /\ NoSession \notin Sessions
  BY DEF OpenCall, Call, Constants, NoSession
<1>9. /\ UNCHANGED <<known, pendingMsgs, started>>
      /\ engine' = [up |-> FALSE, batch |-> [s \in Sessions |-> NoOptions], trip |-> NoRun,
                    acc |-> 0, restarts |-> 1]
      /\ engine.up /\ engine.restarts = 0 /\ MaxRestarts = 1
  <2>1. engine.restarts = 0 /\ MaxRestarts = 1
    BY <1>4 DEF ModemDown, Calm, Surroundings
  <2>2. UNCHANGED <<known, pendingMsgs, started>> /\ engine.up
    BY DEF ModemDown
  <2> DEFINE none == [s \in Sessions |-> NoOptions]
             one == engine.restarts + 1
  <2>3. engine' = [engine EXCEPT !.up = FALSE, !.batch = none, !.trip = NoRun, !.acc = 0, !.restarts = one]
    BY DEF ModemDown
  <2>4. one = 1
    BY <2>1
  <2>5. engine = [up |-> engine.up, batch |-> engine.batch, trip |-> engine.trip,
                  acc |-> engine.acc, restarts |-> engine.restarts]
    BY <1>4 DEF Surroundings
  <2> HIDE DEF none, one
  <2>6. engine' = [up |-> FALSE, batch |-> none, trip |-> NoRun, acc |-> 0, restarts |-> one]
    BY <2>3, <2>5
  <2> QED  BY <2>1, <2>2, <2>4, <2>6 DEF none
<1>10. PICK e : e = engine'
  OBVIOUS
<1>11. /\ e.up = FALSE /\ e.restarts = 1 /\ \A s \in Sessions : e.batch[s] = NoOptions
       /\ e.batch = [s \in Sessions |-> e.batch[s]]
       /\ e = [up |-> e.up, batch |-> e.batch, trip |-> e.trip, acc |-> e.acc, restarts |-> e.restarts]
  BY <1>9, <1>10
<1>12. Surroundings'
  BY <1>4, <1>9, <1>10, <1>11 DEF Surroundings
<1>13. Formed(u, q)
  <2>1. \A c : CallFormed(t, c) => CallFormed(u, c)
    BY <1>6 DEF CallFormed, OwnFormed, StartFormed, StopFormed, TripFormed, Gone, Kept
  <2>2. CallFormed(u, OpenCall)
    BY <1>8 DEF CallFormed
  <2>3. \A i \in DOMAIN u.calls : CallFormed(u, u.calls[i])
    BY <1>4, <1>7, <2>1, <2>2 DEF Formed
  <2>4. \A m : CommandFormed(t, m) => CommandFormed(u, m)
    BY <1>6 DEF CommandFormed, Gone
  <2>5. \A m : MessageFormed(t, m) => MessageFormed(u, m)
    BY <2>1, <2>4 DEF MessageFormed
  <2>6. \A s \in Sessions : Idle(t, q, s) => Idle(u, q, s)
    BY <1>7, <1>8 DEF Idle, Of
  <2>7. \A s : (Gone(t, s) <=> Gone(u, s)) /\ (Kept(t, s) <=> Kept(u, s))
    BY <1>6 DEF Gone, Kept
  <2>8. /\ \A i \in DOMAIN q : MessageFormed(u, q[i])
        /\ \A i \in DOMAIN pendingMsgs : CommandFormed(u, pendingMsgs[i])
    BY <1>4, <2>4, <2>5 DEF Formed
  <2>9. /\ u.sessions \in [Sessions -> Options \cup {NoOptions}]
        /\ u.trips = [s \in Sessions |-> u.trips[s]]
        /\ \A s \in Sessions : u.trips[s] # NoTrip => Kept(u, s)
        /\ \A s \in Sessions \ started : Gone(u, s) /\ Idle(u, q, s)
    BY <1>4, <1>6, <2>6, <2>7 DEF Formed
  <2> QED  BY <1>4, <1>6, <1>7, <2>3, <2>8, <2>9 DEF Formed
<1>14. \A x \in Sessions : OneOf(u, q, x)
  <2> SUFFICES ASSUME NEW x \in Sessions PROVE OneOf(u, q, x)
    OBVIOUS
  <2>1. \A i \in DOMAIN u.calls : Of(u.calls[i], x) => i \in DOMAIN t.calls /\ Of(t.calls[i], x)
    BY <1>7, <1>8 DEF Of
  <2> QED  BY <1>4, <2>1 DEF OneOf
<1>15. Formed(st, inbox)'
  BY <1>2, <1>3, <1>9, <1>13 DEF Formed, CallFormed, CommandFormed, MessageFormed, OwnFormed, Foreign,
     StartFormed, StopFormed, TripFormed, Gone, Kept, Wanted, Idle, Of, IsTables, IsSequence
<1>16. \A x \in Sessions : OneOf(st, inbox, x)'
  BY <1>2, <1>3, <1>9, <1>14 DEF OneOf, Of
<1>17. \A i \in DOMAIN t.calls : ~IsOpen(t.calls[i])
  BY <1>4, <1>9 DEF Openings
<1>18. \A i \in DOMAIN u.calls : IsOpen(u.calls[i]) <=> i = n
  BY <1>7, <1>8, <1>17 DEF IsOpen
<1>19. Openings(u, q)'
  <2>1. known => \A i \in DOMAIN q : ~IsUp(q[i])
    BY <1>4, <1>9 DEF Openings
  <2>2. ~known => \A i, j \in DOMAIN q : IsUp(q[i]) /\ IsUp(q[j]) => i = j
    BY <1>4, <1>9 DEF Openings
  <2>3. \A i \in DOMAIN q : i \in Int
    BY <1>4, SequenceFacts DEF Formed
  <2>4. ~known => \A i, j, k \in DOMAIN q : ~(i < j /\ j < k /\ IsUp(q[i]) /\ IsUp(q[j]) /\ IsUp(q[k]))
    BY <2>2, <2>3
  <2> QED  BY <1>7, <1>9, <1>10, <1>11, <1>18, <2>1, <2>2, <2>4 DEF Openings, IsUp, IsOpen
<1>20. Empty(u, q)'
  <2>1. ~known => /\ \A s \in Sessions : Gone(u, s)
                  /\ \A i \in DOMAIN u.calls : IsOpen(u.calls[i])
                  /\ \A i \in DOMAIN q : q[i].k = "answer" => IsUp(q[i])
    BY <1>4, <1>6, <1>17, <1>7, <1>18 DEF Empty, Gone
  <2> QED  BY <1>9, <1>10, <1>11, <2>1 DEF Empty, Gone, IsOpen, IsUp
<1>21. \A i \in DOMAIN u.calls : \A x : ~Counts(u, i, x)
  <2> SUFFICES ASSUME NEW i \in DOMAIN u.calls, NEW x, Counts(u, i, x) PROVE FALSE
    OBVIOUS
  <2>1. i # n
    BY <1>7, <1>8 DEF Counts, IsBatchCall
  <2>2. n < i /\ i <= n
    BY <1>7, <1>18 DEF Counts
  <2> QED  BY <1>7, <2>2
<1>22. \A x \in Sessions : Off(u, x)'
  BY <1>10, <1>11, <1>21 DEF Off, Counts, IsOpen, IsBatchCall
<1>23. Failures(u, q)'
  <2>1. ASSUME NEW i \in DOMAIN q, q[i].k = "answer", q[i].call.cb = "started"
        PROVE  q[i].call.s \in Sessions
    <3>1. MessageFormed(t, q[i])
      BY <1>4 DEF Formed
    <3> QED  BY <2>1, <3>1 DEF MessageFormed, CommandFormed, CallFormed, Foreign, CommonCbs, OwnFormed
  <2>2. ASSUME NEW i \in DOMAIN u.calls, u.calls[i].cb = "started"
        PROVE  u.calls[i].s \in Sessions
    <3>1. CallFormed(u, u.calls[i])
      BY <1>13 DEF Formed
    <3> QED  BY <2>2, <3>1 DEF CallFormed, Foreign, CommonCbs, OwnFormed
  <2> QED  BY <1>10, <1>11, <1>22, <2>1, <2>2 DEF Failures, IsUp, IsOpen
<1>24. \A x \in Sessions : Foreseen(u, q, x)'
  BY <1>10, <1>11, <1>21 DEF Foreseen, Serves, Opening, IsLast, Counts, IsOpen, IsBatchCall
<1>25. /\ Openings(st, inbox)' /\ Empty(st, inbox)' /\ Failures(st, inbox)'
       /\ \A x \in Sessions : Foreseen(st, inbox, x)'
  BY <1>2, <1>3, <1>19, <1>20, <1>23, <1>24
<1> QED  BY <1>12, <1>15, <1>16, <1>25 DEF BatchInvNow, BatchInv

\* The device moves.
LEMMA TripMovesKeeps ==
  ASSUME Constants, BatchInvNow, TripMoves
  PROVE  BatchInvNow'
<1>1. PICK u : u = st /\ u = st'
  BY DEF TripMoves
<1>2. PICK q : q = inbox
  OBVIOUS
<1>3. PICK p : p = inbox'
  OBVIOUS
<1>4. /\ BatchInv(u, q) /\ Surroundings /\ Formed(u, q) /\ Openings(u, q) /\ Empty(u, q)
      /\ Failures(u, q)
      /\ \A x \in Sessions : OneOf(u, q, x) /\ Foreseen(u, q, x)
  BY <1>1, <1>2 DEF BatchInvNow, BatchInv
<1>5. /\ UNCHANGED <<known, pendingMsgs, started>>
      /\ engine'.up = engine.up /\ engine'.batch = engine.batch /\ engine'.restarts = engine.restarts
      /\ engine' = [up |-> engine'.up, batch |-> engine'.batch, trip |-> engine'.trip,
                    acc |-> engine'.acc, restarts |-> engine'.restarts]
  BY <1>4 DEF TripMoves, Surroundings
<1>6. /\ IsSequence(p)
      /\ \A i \in DOMAIN q : i \in DOMAIN p /\ p[i] = q[i]
      /\ \A i \in DOMAIN p \ DOMAIN q : p[i].k = "completed" /\ p[i].call.s = NoSession
  <2>1. PICK m : p = q \/ (p = Append(q, m) /\ m.k = "completed" /\ m.call.s = NoSession)
    <3>1. Completed(engine.acc + 1).k = "completed" /\ Completed(engine.acc + 1).call.s = NoSession
      BY DEF Completed, OpenCall, Call
    <3>2. p = q \/ p = Append(q, Completed(engine.acc + 1))
      BY <1>2, <1>3 DEF TripMoves
    <3> QED  BY <3>1, <3>2
  <2>2. CASE p = q
    BY <1>4, <2>2 DEF Formed
  <2>3. CASE p # q
    <3>1. Longer(p, q, m)
      BY <1>4, <2>1, <2>3, AppendFacts DEF Formed
    <3> QED  BY <2>1, <2>3, <3>1 DEF Longer
  <2> QED  BY <2>2, <2>3
<1>7. \A i \in DOMAIN p : IsUp(p[i]) \/ p[i].k = "answer" => i \in DOMAIN q
  BY <1>6 DEF IsUp
<1>8. \A s \in Sessions : \A i \in DOMAIN p : p[i].call.s = s => i \in DOMAIN q /\ q[i].call.s = s
  BY <1>6 DEF Constants, NoSession
<1>9. Surroundings'
  BY <1>4, <1>5 DEF Surroundings
<1>10. Formed(u, p)
  <2>1. \A i \in DOMAIN p : MessageFormed(u, p[i])
    BY <1>4, <1>6 DEF Formed, MessageFormed
  <2>2. \A s \in Sessions : Idle(u, q, s) => Idle(u, p, s)
    BY <1>8 DEF Idle
  <2> QED  BY <1>4, <1>6, <2>1, <2>2 DEF Formed
<1>11. \A x \in Sessions : OneOf(u, p, x)
  BY <1>4, <1>8 DEF OneOf
<1>12. Openings(u, p)
  <2>1. \A i \in DOMAIN p : IsUp(p[i]) => i \in DOMAIN q /\ IsUp(q[i])
    BY <1>6, <1>7
  <2> QED  BY <1>4, <2>1 DEF Openings
<1>13. Empty(u, p)
  BY <1>4, <1>6, <1>7 DEF Empty
<1>14. Failures(u, p)
  <2>1. ASSUME NEW i \in DOMAIN p, p[i].k = "answer", ~p[i].ok, p[i].call.cb \in {"started", "stopped"}
        PROVE  /\ ~engine.up \/ \E j \in DOMAIN p : i < j /\ IsUp(p[j])
               /\ p[i].call.cb = "started" => Off(u, p[i].call.s)
    <3>1. i \in DOMAIN q /\ p[i] = q[i]
      BY <1>6, <1>7, <2>1
    <3>2. /\ ~engine.up \/ \E j \in DOMAIN q : i < j /\ IsUp(q[j])
          /\ p[i].call.cb = "started" => Off(u, p[i].call.s)
      BY <1>4, <2>1, <3>1 DEF Failures
    <3> QED  BY <1>6, <3>2
  <2> QED  BY <1>4, <2>1 DEF Failures
<1>15. \A x \in Sessions : Foreseen(u, p, x)
  <2>1. Opening(p) <=> Opening(q)
    BY <1>6, <1>7 DEF Opening
  <2>2. \A x, e : Serves(u, q, x, e) <=> Serves(u, p, x, e)
    BY <2>1 DEF Serves
  <2> QED  BY <1>4, <2>2 DEF Foreseen
<1>16. Formed(st, inbox)'
  BY <1>1, <1>3, <1>5, <1>10 DEF Formed, CallFormed, CommandFormed, MessageFormed, OwnFormed, Foreign,
     StartFormed, StopFormed, TripFormed, Gone, Kept, Wanted, Idle, Of, IsTables, IsSequence
<1>17. \A x \in Sessions : OneOf(st, inbox, x)'
  BY <1>1, <1>3, <1>5, <1>11 DEF OneOf, Of
<1>18. Openings(st, inbox)' /\ Empty(st, inbox)'
  BY <1>1, <1>3, <1>5, <1>12, <1>13 DEF Openings, Empty, Gone, IsOpen, IsUp
<1>19. Failures(st, inbox)'
  BY <1>1, <1>3, <1>5, <1>14 DEF Failures, Off, Counts, IsOpen, IsUp, IsBatchCall
<1>20. \A x \in Sessions : Foreseen(st, inbox, x)'
  BY <1>1, <1>3, <1>5, <1>15
     DEF Foreseen, IsLast, Counts, Serves, Opening, IsOpen, IsUp, IsBatchCall, Wanted, Outcome
<1> QED  BY <1>9, <1>16, <1>17, <1>18, <1>19, <1>20 DEF BatchInvNow, BatchInv

\* The tables w are t, with a start asked for each session that is restarted, and maybe
\* the start of the modem's trip.
Restarted(w, t) ==
  /\ IsTables(w) /\ w.sessions = t.sessions /\ w.trips = t.trips /\ IsSequence(w.calls)
  /\ \A k \in DOMAIN t.calls : k \in Int /\ k \in DOMAIN w.calls /\ w.calls[k] = t.calls[k]
  /\ \A k \in DOMAIN w.calls \ DOMAIN t.calls :
       /\ k \in Int /\ \A j \in DOMAIN t.calls : j < k
       /\ \/ Foreign(w.calls[k]) /\ Trips(t) # {}
          \/ /\ w.calls[k].op = "startB" /\ w.calls[k].cb = "ignore"
             /\ w.calls[k].s \in Restartable(t) /\ w.calls[k].o = t.sessions[w.calls[k].s]
  /\ \A s \in Restartable(t) : \E k \in DOMAIN w.calls \ DOMAIN t.calls :
       w.calls[k].s = s /\ w.calls[k].op = "startB"

\* Every session of a finite set is found once by the loop.
LEMMA InOrderFacts ==
  ASSUME NEW S, IsFiniteSet(S), NEW ids \in InOrder(S)
  PROVE  /\ Cardinality(S) \in Nat /\ ids \in [1 .. Cardinality(S) -> S]
         /\ \A i, j \in DOMAIN ids : i < j => ids[i] < ids[j]
         /\ \A i, j \in DOMAIN ids : i # j => ids[i] # ids[j]
         /\ \A s \in S : \E i \in DOMAIN ids : ids[i] = s
<1> DEFINE n == Cardinality(S)
<1>1. n \in Nat /\ ExistsBijection(1 .. n, S)
  BY FS_CardinalityType
<1>2. /\ ids \in [1 .. n -> S] /\ \A i, j \in 1 .. n : i # j => ids[i] # ids[j]
      /\ \A i, j \in DOMAIN ids : i < j => ids[i] < ids[j]
  BY DEF InOrder, SetToSeqs
<1> HIDE DEF n
<1>3. ids \in Injection(1 .. n, S)
  BY <1>2 DEF Injection, IsInjective
<1>4. Cardinality(1 .. n) = n
  BY <1>1, FS_Interval
<1>5. ids \in Surjection(1 .. n, S)
  BY <1>3, <1>4, FS_Injection DEF n
<1> QED  BY <1>1, <1>2, <1>5 DEF Surjection, n

\* RestartSessions starts each batching session that is listed, and no other.
LEMMA RestartedFacts ==
  ASSUME Constants, NEW t, IsTables(t), IsSequence(t.calls), NEW ids \in InOrder(Restartable(t)),
         NEW w, w = RestartSessions(t, ids)
  PROVE  Restarted(w, t)
<1> DEFINE S == Restartable(t)
           n == Cardinality(S)
           restarts == [i \in DOMAIN ids |-> Call("startB", "ignore", ids[i], t.sessions[ids[i]])]
           full == t.full \/ AutoCount(t) > 0
           joined == t.calls \o restarts
           batched == [t EXCEPT !.full = full, !.calls = joined]
           run == LeastRun(t)
           going == [batched EXCEPT !.ongoing = run]
           c == [Call("startT", "tripsReset", NoSession, NoOptions) EXCEPT !.run = run]
<1>1. IsFiniteSet(S)
  BY FS_Subset DEF Restartable, Batches, Constants
<1>2. /\ n \in Nat /\ ids \in [1 .. n -> S] /\ \A s \in S : \E i \in DOMAIN ids : ids[i] = s
  BY <1>1, InOrderFacts
<1>3. w = IF Trips(t) = {} THEN batched ELSE Calling(going, c)
  BY DEF RestartSessions
<1>4. /\ \A i \in DOMAIN ids : /\ restarts[i].op = "startB" /\ restarts[i].cb = "ignore"
                               /\ restarts[i].s = ids[i] /\ restarts[i].o = t.sessions[ids[i]]
      /\ DOMAIN restarts = 1 .. n /\ DOMAIN ids = 1 .. n
  BY <1>2 DEF Call
<1>5. Foreign(c)
  BY DEF Foreign, Call, TripOps, CommonCbs
<1>6. IsSequence(restarts)
  <2> DEFINE X == {restarts[i] : i \in DOMAIN ids}
  <2>1. restarts \in [1 .. n -> X]
    BY <1>4
  <2> HIDE DEF restarts, X, n
  <2>2. restarts \in Seq(X)
    BY <1>2, <2>1
  <2> QED  BY <2>2, SequenceOf
<1> HIDE DEF S, n, restarts, full, run, c
<1>7. Joined(joined, t.calls, restarts)
  BY <1>6, JoinFacts
<1> HIDE DEF joined
<1>8. IsTables(batched) /\ batched.sessions = t.sessions /\ batched.trips = t.trips /\ batched.calls = joined
  <2> DEFINE b == [t EXCEPT !.full = full]
  <2>1. /\ IsTables(b) /\ b.sessions = t.sessions /\ b.trips = t.trips
        /\ batched = [b EXCEPT !.calls = joined]
    BY DEF IsTables
  <2> HIDE DEF b, batched
  <2> QED  BY <2>1 DEF IsTables
<1> HIDE DEF batched
<1>9. IsTables(going) /\ going.sessions = t.sessions /\ going.trips = t.trips /\ going.calls = joined
  BY <1>8 DEF IsTables
<1> HIDE DEF going
<1>10. /\ IsTables(w) /\ w.sessions = t.sessions /\ w.trips = t.trips
       /\ w.calls = joined \/ (Trips(t) # {} /\ Longer(w.calls, joined, c))
  <2>1. CASE Trips(t) = {}
    BY <1>3, <1>8, <2>1
  <2>2. CASE Trips(t) # {}
    <3>1. w = Calling(going, c) /\ IsSequence(joined)
      BY <1>3, <1>7, <2>2 DEF Joined
    <3>a. IsTables(going) /\ IsSequence(going.calls)
      BY <1>9, <3>1
    <3>2. Called(w, going, c)
      BY ONLY <3>1, <3>a, CallingFacts
    <3> QED  BY <1>9, <2>2, <3>2 DEF Called
  <2> QED  BY <2>1, <2>2
<1> DEFINE l == Len(t.calls)
<1>a. Len(restarts) = n
  <2>1. Len(restarts) \in Nat /\ DOMAIN restarts = 1 .. Len(restarts)
    BY <1>6, SequenceFacts
  <2> QED  BY <1>2, <1>4, <2>1
<1>11. /\ IsSequence(joined) /\ l \in Nat /\ n \in Nat
       /\ DOMAIN t.calls = 1 .. l /\ DOMAIN joined = 1 .. l + n
       /\ \A k \in DOMAIN t.calls : joined[k] = t.calls[k]
       /\ \A k \in 1 .. n : joined[l + k] = restarts[k]
  BY <1>2, <1>4, <1>7, <1>a DEF Joined
<1> HIDE DEF l
<1>12. \A k \in DOMAIN joined \ DOMAIN t.calls :
         /\ k \in Int /\ (\A j \in DOMAIN t.calls : j < k)
         /\ \E i \in DOMAIN ids : joined[k] = restarts[i]
  <2> TAKE k \in DOMAIN joined \ DOMAIN t.calls
  <2>1. k - l \in 1 .. n /\ l + (k - l) = k /\ k \in Int /\ \A j \in DOMAIN t.calls : j < k
    BY <1>11
  <2>2. joined[k] = restarts[k - l] /\ k - l \in DOMAIN ids
    BY <1>4, <1>11, <2>1
  <2> QED  BY <2>1, <2>2
<1>13. \A i \in DOMAIN ids : \E k \in DOMAIN joined \ DOMAIN t.calls : joined[k] = restarts[i]
  <2> TAKE i \in DOMAIN ids
  <2>1. l + i \in DOMAIN joined \ DOMAIN t.calls
    BY <1>4, <1>11
  <2> QED  BY <1>4, <1>11, <2>1
<1>14. /\ IsSequence(w.calls)
       /\ \A k \in DOMAIN joined : k \in DOMAIN w.calls /\ w.calls[k] = joined[k]
       /\ \A k \in DOMAIN w.calls \ DOMAIN joined :
            /\ k \in Int /\ Trips(t) # {} /\ w.calls[k] = c
            /\ \A j \in DOMAIN joined : j < k
  <2>1. CASE w.calls = joined
    BY <1>11, <2>1
  <2>2. CASE Trips(t) # {} /\ Longer(w.calls, joined, c)
    BY <1>11, <2>2 DEF Longer
  <2> QED  BY <1>10, <2>1, <2>2
<1>15. \A k \in DOMAIN t.calls : k \in Int /\ k \in DOMAIN w.calls /\ w.calls[k] = t.calls[k]
  BY <1>11, <1>14
<1>16. ASSUME NEW k \in DOMAIN w.calls \ DOMAIN t.calls
       PROVE  /\ k \in Int /\ \A j \in DOMAIN t.calls : j < k
              /\ \/ Foreign(w.calls[k]) /\ Trips(t) # {}
                 \/ /\ w.calls[k].op = "startB" /\ w.calls[k].cb = "ignore"
                    /\ w.calls[k].s \in S /\ w.calls[k].o = t.sessions[w.calls[k].s]
  <2>1. CASE k \in DOMAIN joined
    <3>1. /\ k \in Int /\ \A j \in DOMAIN t.calls : j < k
          /\ \E i \in DOMAIN ids : joined[k] = restarts[i]
      BY <1>12, <2>1
    <3>2. PICK i \in DOMAIN ids : w.calls[k] = restarts[i]
      BY <1>14, <2>1, <3>1
    <3>3. ids[i] \in S
      BY <1>2, <1>4
    <3> QED  BY <1>4, <3>1, <3>2, <3>3
  <2>2. CASE k \notin DOMAIN joined
    <3>1. k \in Int /\ Trips(t) # {} /\ w.calls[k] = c /\ \A j \in DOMAIN joined : j < k
      BY <1>14, <2>2
    <3>2. \A j \in DOMAIN t.calls : j \in DOMAIN joined
      BY <1>11
    <3> QED  BY <1>5, <3>1, <3>2
  <2> QED  BY <2>1, <2>2
<1>17. ASSUME NEW s \in S
       PROVE  \E k \in DOMAIN w.calls \ DOMAIN t.calls : w.calls[k].s = s /\ w.calls[k].op = "startB"
  <2>1. PICK i \in DOMAIN ids : ids[i] = s
    BY <1>2
  <2>2. PICK k \in DOMAIN joined \ DOMAIN t.calls : joined[k] = restarts[i]
    BY <1>13
  <2> QED  BY <1>4, <1>14, <2>1, <2>2
<1> QED  BY <1>10, <1>14, <1>15, <1>16, <1>17 DEF Restarted, S

\* The adapter hears that the modem is up, and starts the sessions again: the starts are
\* behind every call that waits, so that each decides what the modem runs for its session.
LEMMA HandleEngineUpKeeps ==
  ASSUME Constants, BatchInvNow, HandleEngineUp
  PROVE  BatchInvNow'
<1>1. PICK t : t = st
  OBVIOUS
<1>2. PICK q : q = inbox
  OBVIOUS
<1>3. PICK u : u = st'
  OBVIOUS
<1>4. PICK p : p = inbox'
  OBVIOUS
<1>5. /\ BatchInv(t, q) /\ Surroundings /\ Formed(t, q) /\ Openings(t, q) /\ Empty(t, q)
      /\ Failures(t, q)
      /\ \A x \in Sessions : OneOf(t, q, x) /\ Foreseen(t, q, x)
  BY <1>1, <1>2 DEF BatchInvNow, BatchInv
<1>6. IsTables(t) /\ IsSequence(t.calls) /\ IsSequence(q) /\ IsSequence(pendingMsgs)
  BY <1>5 DEF Formed, Surroundings
<1>7. Restarted(u, t)
  <2>1. PICK ids \in InOrder(Restartable(t)) : Becomes(RestartSessions(t, ids))
    BY <1>1 DEF HandleEngineUp
  <2>2. PICK w : w = RestartSessions(t, ids)
    OBVIOUS
  <2>3. Restarted(w, t)
    BY <1>6, <2>2, RestartedFacts
  <2>4. u = [w EXCEPT !.told = {}]
    BY <1>3, <2>1, <2>2 DEF Becomes
  <2>5. IsTables(u) /\ u.sessions = w.sessions /\ u.trips = w.trips /\ u.calls = w.calls
    BY <2>3, <2>4 DEF Restarted, IsTables
  <2> QED  BY <2>3, <2>5 DEF Restarted
<1>8. /\ IsTables(u) /\ u.sessions = t.sessions /\ u.trips = t.trips /\ IsSequence(u.calls)
      /\ \A k \in DOMAIN t.calls : k \in Int /\ k \in DOMAIN u.calls /\ u.calls[k] = t.calls[k]
      /\ \A k \in DOMAIN u.calls \ DOMAIN t.calls :
           /\ k \in Int /\ \A j \in DOMAIN t.calls : j < k
           /\ \/ Foreign(u.calls[k]) /\ Trips(t) # {}
              \/ /\ u.calls[k].op = "startB" /\ u.calls[k].cb = "ignore"
                 /\ u.calls[k].s \in Restartable(t) /\ u.calls[k].o = t.sessions[u.calls[k].s]
  BY <1>7 DEF Restarted
<1>9. /\ q # <<>> /\ IsUp(Head(q)) /\ known' = TRUE /\ pendingMsgs' = <<>>
      /\ UNCHANGED <<started, engine>>
  BY <1>2 DEF HandleEngineUp, Received, IsUp
<1>10. PICK r : r = Tail(q)
  OBVIOUS
<1>11. Shorter(r, q)
  BY <1>6, <1>9, <1>10, TailFacts
<1>12. Joined(p, r, pendingMsgs)
  <2>1. p = r \o pendingMsgs
    BY <1>2, <1>4, <1>10 DEF HandleEngineUp
  <2> QED  BY <1>6, <1>11, <2>1, JoinFacts DEF Shorter
<1>13. /\ 1 \in DOMAIN q /\ IsUp(q[1])
       /\ \A k \in DOMAIN r : k \in Int /\ 1 <= k /\ k + 1 \in DOMAIN q /\ r[k] = q[k + 1]
       /\ \A k \in DOMAIN q : k \in Int /\ 1 <= k
  <2>1. /\ Len(q) \in Nat /\ DOMAIN q = 1 .. Len(q) /\ DOMAIN r = 1 .. Len(q) - 1
        /\ \A k \in DOMAIN r : k + 1 \in DOMAIN q /\ r[k] = q[k + 1]
        /\ Head(q) = q[1] /\ 1 \in DOMAIN q
    BY <1>11 DEF Shorter
  <2>2. IsUp(q[1])
    BY <1>9, <2>1
  <2>3. \A k \in DOMAIN q : k \in Int /\ 1 <= k
    BY <2>1
  <2>4. \A k \in DOMAIN r : k \in Int /\ 1 <= k
    BY <2>1
  <2> QED  BY <2>1, <2>2, <2>3, <2>4
<1>a. IsSequence(p)
  BY <1>12 DEF Joined
<1>14. PICK l \in Int :
         /\ \A k \in DOMAIN p : k \in DOMAIN r \/ (k \in Int /\ k - l \in DOMAIN pendingMsgs /\ p[k] = pendingMsgs[k - l])
         /\ \A k \in DOMAIN r : p[k] = r[k]
  <2>1. PICK n : n = Len(r)
    OBVIOUS
  <2>2. PICK o : o = Len(pendingMsgs)
    OBVIOUS
  <2>3. /\ n \in Nat /\ o \in Nat /\ DOMAIN r = 1 .. n /\ DOMAIN pendingMsgs = 1 .. o
        /\ DOMAIN p = 1 .. n + o /\ \A k \in DOMAIN r : p[k] = r[k]
        /\ \A k \in DOMAIN pendingMsgs : p[n + k] = pendingMsgs[k]
    BY <1>12, <2>1, <2>2 DEF Joined
  <2>4. ASSUME NEW k \in DOMAIN p, k \notin DOMAIN r
        PROVE  k \in Int /\ k - n \in DOMAIN pendingMsgs /\ p[k] = pendingMsgs[k - n]
    <3>1. k \in Int /\ k - n \in DOMAIN pendingMsgs /\ n + (k - n) = k
      BY <2>3, <2>4
    <3> QED  BY <2>3, <3>1
  <2>5. \A k \in DOMAIN p : k \in DOMAIN r \/ (k \in Int /\ k - n \in DOMAIN pendingMsgs /\ p[k] = pendingMsgs[k - n])
    BY <2>4
  <2>6. n \in Int
    BY <2>3
  <2> QED  BY <2>3, <2>5, <2>6
\* Its messages, the ones that waited after the others.
<1>15. \A k \in DOMAIN p : \/ k \in Int /\ k \in DOMAIN r /\ 1 <= k /\ k + 1 \in DOMAIN q /\ p[k] = q[k + 1]
                           \/ k \in Int /\ k \notin DOMAIN r /\ k - l \in DOMAIN pendingMsgs /\ p[k] = pendingMsgs[k - l]
  BY <1>13, <1>14
<1>16. \A k \in DOMAIN pendingMsgs : ~IsUp(pendingMsgs[k]) /\ pendingMsgs[k].k # "answer"
  BY <1>5 DEF Formed, CommandFormed, IsUp
<1>17. \A k \in DOMAIN p : IsUp(p[k]) \/ p[k].k = "answer" =>
         k \in Int /\ 1 <= k /\ k + 1 \in DOMAIN q /\ p[k] = q[k + 1]
  BY <1>15, <1>16
<1>18. NoSession \notin Sessions
  BY DEF Constants, NoSession
<1>19. \A k \in DOMAIN u.calls : k \notin DOMAIN t.calls =>
         /\ ~IsOpen(u.calls[k]) /\ u.calls[k].cb # "started" /\ CallFormed(u, u.calls[k])
         /\ \A x \in Sessions : ~Of(u.calls[k], x)
  <2> TAKE k \in DOMAIN u.calls
  <2> HAVE k \notin DOMAIN t.calls
  <2>1. CASE Foreign(u.calls[k])
    BY <1>18, <2>1 DEF Foreign, TripOps, CommonCbs, IsOpen, CallFormed, Of
  <2>2. CASE ~Foreign(u.calls[k])
    <3>1. u.calls[k].op = "startB" /\ u.calls[k].cb = "ignore" /\ u.calls[k].s \in Restartable(t)
      BY <1>8, <2>2
    <3> QED  BY <3>1 DEF Restartable, Batches, IsOpen, CallFormed, Of
  <2> QED  BY <2>1, <2>2
<1>20. Formed(u, p)'
  <2>1. \A e : CallFormed(t, e) => CallFormed(u, e)'
    BY <1>8 DEF CallFormed, OwnFormed, Foreign, StartFormed, StopFormed, TripFormed, Gone, Kept, Wanted
  <2>2. \A e : CallFormed(u, e) => CallFormed(u, e)'
    BY DEF CallFormed, OwnFormed, Foreign, StartFormed, StopFormed, TripFormed, Gone, Kept, Wanted
  <2>3. \A i \in DOMAIN u.calls : CallFormed(u, u.calls[i])'
    <3> TAKE i \in DOMAIN u.calls
    <3>1. PICK c : c = u.calls[i]
      OBVIOUS
    <3>2. CallFormed(u, c)'
      BY <1>5, <1>8, <1>19, <2>1, <2>2, <3>1 DEF Formed
    <3> QED  BY <3>1, <3>2
  <2>4. \A m : CommandFormed(t, m) => CommandFormed(u, m)'
    BY <1>8 DEF CommandFormed, Gone
  <2>5. \A m : MessageFormed(t, m) => MessageFormed(u, m)'
    BY <2>1, <2>4 DEF MessageFormed
  <2>6. \A i \in DOMAIN p : MessageFormed(u, p[i])'
    <3> TAKE i \in DOMAIN p
    <3>1. PICK m : m = p[i]
      OBVIOUS
    <3>2. MessageFormed(t, m)
      BY <1>5, <1>15, <3>1 DEF Formed, MessageFormed
    <3> QED  BY <2>5, <3>1, <3>2
  <2>7. \A x \in Sessions : Idle(t, q, x) => Idle(u, p, x)'
    <3> TAKE x \in Sessions
    <3> HAVE Idle(t, q, x)
    <3>1. \A i \in DOMAIN u.calls : ~Of(u.calls[i], x)
      BY <1>8, <1>19 DEF Idle
    <3>2. \A i \in DOMAIN p : p[i].call.s # x
      BY <1>15 DEF Idle
    <3>3. DOMAIN pendingMsgs' = {}
      BY <1>9
    <3> QED  BY <3>1, <3>2, <3>3 DEF Idle, Of
  <2>8. \A x : (Gone(t, x) => Gone(u, x)') /\ (Kept(t, x) => Kept(u, x)')
    BY <1>8 DEF Gone, Kept, Wanted
  <2>9. /\ u.sessions \in [Sessions -> Options \cup {NoOptions}]
        /\ u.trips = [s \in Sessions |-> u.trips[s]]
        /\ \A s \in Sessions : u.trips[s] # NoTrip => Kept(u, s)'
        /\ \A s \in Sessions \ started : Gone(u, s)' /\ Idle(u, p, s)'
    BY <1>5, <1>8, <2>7, <2>8 DEF Formed
  <2>10. DOMAIN pendingMsgs' = {}
    BY <1>9
  <2> QED  BY <1>8, <1>9, <1>a, <2>3, <2>6, <2>9, <2>10 DEF Formed, IsTables, IsSequence
<1>21. ASSUME NEW x \in Sessions
       PROVE  OneOf(u, p, x)'
  <2>0. OneOf(t, q, x)
    BY <1>5
  <2>1. \A i \in DOMAIN u.calls : Of(u.calls[i], x) => i \in DOMAIN t.calls /\ Of(t.calls[i], x)
    BY <1>8, <1>19
  <2>2. \A i, j \in DOMAIN u.calls : Of(u.calls[i], x) /\ Of(u.calls[j], x) => i = j
    BY <2>0, <2>1 DEF OneOf
  <2>3. ASSUME NEW i \in DOMAIN p, NEW j \in DOMAIN p, p[i].call.s = x, p[j].call.s = x
        PROVE  i = j
    <3>1. CASE i \in DOMAIN r /\ j \in DOMAIN r
      <4>1. i + 1 = j + 1 /\ i \in Int /\ j \in Int
        BY <1>15, <2>0, <2>3, <3>1 DEF OneOf
      <4> QED  BY <4>1
    <3>2. CASE i \notin DOMAIN r /\ j \notin DOMAIN r
      <4>1. i - l = j - l /\ i \in Int /\ j \in Int
        BY <1>15, <2>0, <2>3, <3>2 DEF OneOf
      <4> QED  BY <4>1
    <3>3. CASE i \in DOMAIN r /\ j \notin DOMAIN r
      BY <1>15, <2>0, <2>3, <3>3 DEF OneOf
    <3>4. CASE i \notin DOMAIN r /\ j \in DOMAIN r
      BY <1>15, <2>0, <2>3, <3>4 DEF OneOf
    <3> QED  BY <3>1, <3>2, <3>3, <3>4
  <2>4. \A i \in DOMAIN u.calls, j \in DOMAIN p : ~(Of(u.calls[i], x) /\ p[j].call.s = x)
    BY <1>15, <2>0, <2>1 DEF OneOf
  <2>5. DOMAIN pendingMsgs' = {}
    BY <1>9
  <2> QED  BY <2>2, <2>3, <2>4, <2>5 DEF OneOf, Of
<1>22. known => /\ \A k \in DOMAIN q : IsUp(q[k]) => k = 1
                /\ engine.up /\ engine.restarts # 0
  BY <1>5, <1>13 DEF Openings, Surroundings
<1>23. \A k \in DOMAIN u.calls : IsOpen(u.calls[k]) => k \in DOMAIN t.calls /\ IsOpen(t.calls[k])
  BY <1>8, <1>19
<1>24. known => \A k \in DOMAIN p : ~IsUp(p[k])
  <2> HAVE known
  <2> TAKE k \in DOMAIN p
  <2>1. IsUp(p[k]) => k \in Int /\ 1 <= k /\ k + 1 = 1
    BY <1>17, <1>22
  <2> QED  BY <2>1
<1>25. Openings(u, p)'
  <2>1. \A i, j \in DOMAIN u.calls : IsOpen(u.calls[i]) /\ IsOpen(u.calls[j]) => i = j
    BY <1>5, <1>8, <1>23 DEF Openings
  <2>2. engine.up <=> \A i \in DOMAIN u.calls : ~IsOpen(u.calls[i])
    BY <1>5, <1>8, <1>23 DEF Openings
  <2>3. CASE known
    BY <1>9, <1>22, <1>24, <2>1, <2>2, <2>3 DEF Openings, IsUp, IsOpen
  <2>4. CASE ~known
    <3>1. ASSUME NEW i \in DOMAIN p, NEW j \in DOMAIN p, i < j, IsUp(p[i]), IsUp(p[j])
          PROVE  FALSE
      <4>1. /\ i + 1 \in DOMAIN q /\ j + 1 \in DOMAIN q /\ 1 < i + 1 /\ i + 1 < j + 1
            /\ IsUp(q[i + 1]) /\ IsUp(q[j + 1])
        BY <1>17, <3>1
      <4> QED  BY <1>5, <1>13, <2>4, <4>1 DEF Openings
    <3>2. \A i, j \in DOMAIN p : IsUp(p[i]) /\ IsUp(p[j]) => i = j
      <4>1. \A i \in DOMAIN p : i \in Int
        BY <1>15
      <4> QED  BY <3>1, <4>1
    <3>3. engine.restarts = 0 \/ ~engine.up => \A i \in DOMAIN p : ~IsUp(p[i])
      <4>1. engine.restarts = 0 \/ ~engine.up => \A i \in DOMAIN q : IsUp(q[i]) => i = 1
        BY <1>5, <1>13, <2>4 DEF Openings
      <4>2. \A i \in DOMAIN p : IsUp(p[i]) => i \in Int /\ 1 <= i /\ i + 1 \in DOMAIN q /\ IsUp(q[i + 1])
        BY <1>17
      <4>3. \A i : i \in Int /\ 1 <= i => i + 1 # 1
        OBVIOUS
      <4> QED  BY <4>1, <4>2, <4>3
    <3>4. engine.restarts = 0 => engine.up
      BY <1>5, <1>13, <2>4 DEF Openings
    <3> QED  BY <1>9, <2>1, <2>2, <3>2, <3>3, <3>4 DEF Openings, IsUp, IsOpen
  <2> QED  BY <2>3, <2>4
<1>26. Empty(u, p)'
  BY <1>9 DEF Empty
<1>27. Failures(u, p)'
  <2>1. ASSUME NEW i \in DOMAIN p, p[i].k = "answer", ~p[i].ok, p[i].call.cb \in {"started", "stopped"}
        PROVE  FALSE
    <3>1. i \in Int /\ 1 <= i /\ i + 1 \in DOMAIN q /\ p[i] = q[i + 1]
      BY <1>17, <2>1
    <3>2. CASE known
      <4>1. \E j \in DOMAIN q : i + 1 < j /\ IsUp(q[j])
        BY <1>5, <1>22, <2>1, <3>1, <3>2 DEF Failures
      <4> QED  BY <1>22, <3>1, <3>2, <4>1
    <3>3. CASE ~known
      BY <1>5, <2>1, <3>1, <3>3 DEF Empty, IsUp
    <3> QED  BY <3>2, <3>3
  <2>2. ASSUME NEW i \in DOMAIN u.calls, u.calls[i].cb = "started",
               NEW j \in DOMAIN u.calls, i < j, IsOpen(u.calls[j])
        PROVE  FALSE
    <3>1. i \in DOMAIN t.calls /\ u.calls[i] = t.calls[i]
      BY <1>8, <1>19, <2>2
    <3>2. j \in DOMAIN t.calls /\ IsOpen(t.calls[j])
      BY <1>23, <2>2
    <3>3. CASE known
      BY <1>5, <1>22, <3>2, <3>3 DEF Openings
    <3>4. CASE ~known
      <4>1. IsOpen(t.calls[i]) /\ CallFormed(t, t.calls[i])
        BY <1>5, <3>1, <3>4 DEF Empty, Formed
      <4> QED  BY <2>2, <3>1, <4>1
               DEF CallFormed, Foreign, TripOps, CommonCbs, OwnFormed, StartFormed, StopFormed, TripFormed, IsOpen
    <3> QED  BY <3>3, <3>4
  <2> QED  BY <2>1, <2>2 DEF Failures, IsUp, IsOpen
<1>28. ASSUME NEW x \in Sessions
       PROVE  /\ \A i \in DOMAIN u.calls : IsLast(u, i, x) => Outcome(u.calls[i]) = Wanted(t.sessions[x])
              /\ (\A i \in DOMAIN u.calls : ~Counts(u, i, x)) => engine.batch[x] = Wanted(t.sessions[x])
  <2>1. CASE ~known
    <3>1. Gone(t, x) /\ engine.batch[x] = NoOptions /\ \A i \in DOMAIN t.calls : IsOpen(t.calls[i])
      BY <1>5, <2>1 DEF Empty
    <3>2. Wanted(t.sessions[x]) = NoOptions
      BY <3>1 DEF Gone, Wanted
    <3>3. Restartable(t) = {} /\ Trips(t) = {}
      BY <1>5, <2>1 DEF Empty, Gone, Restartable, Batches, Trips
    <3>4. \A i \in DOMAIN u.calls : IsOpen(u.calls[i])
      BY <1>8, <3>1, <3>3
    <3>5. \A i \in DOMAIN u.calls : ~Counts(u, i, x)
      BY <3>4 DEF Counts, IsOpen, IsBatchCall
    <3> QED  BY <3>1, <3>2, <3>5 DEF IsLast
  <2>2. CASE known
    <3>1. \A i \in DOMAIN u.calls : ~IsOpen(u.calls[i])
      BY <1>5, <1>22, <1>23, <2>2 DEF Openings
    <3>2. \A i \in DOMAIN t.calls : ~IsOpen(t.calls[i])
      BY <1>5, <1>22, <2>2 DEF Openings
    <3>3. \A i \in DOMAIN u.calls : Counts(u, i, x) <=> u.calls[i].s = x /\ IsBatchCall(u.calls[i])
      BY <3>1 DEF Counts
    <3>4. \A i \in DOMAIN t.calls : Counts(t, i, x) <=> t.calls[i].s = x /\ IsBatchCall(t.calls[i])
      BY <3>2 DEF Counts
    <3>5. \A i \in DOMAIN u.calls : i \notin DOMAIN t.calls /\ Counts(u, i, x) =>
            x \in Restartable(t) /\ Outcome(u.calls[i]) = t.sessions[x]
      BY <1>8, <3>3 DEF Foreign, TripOps, IsBatchCall, Outcome
    <3>6. CASE x \in Restartable(t)
      <4>1. Wanted(t.sessions[x]) = t.sessions[x]
        BY <3>6 DEF Restartable, Batches, Wanted
      <4>2. PICK k \in DOMAIN u.calls \ DOMAIN t.calls : u.calls[k].s = x /\ u.calls[k].op = "startB"
        BY <1>7, <3>6 DEF Restarted
      <4>3. Counts(u, k, x) /\ k \in Int /\ \A j \in DOMAIN t.calls : j < k
        BY <1>8, <3>3, <4>2 DEF IsBatchCall
      <4>4. \A i \in DOMAIN u.calls : IsLast(u, i, x) => i \notin DOMAIN t.calls /\ Counts(u, i, x)
        <5>1. \A i \in DOMAIN u.calls : IsLast(u, i, x) => k <= i
          BY <4>2, <4>3 DEF IsLast
        <5>2. \A i \in DOMAIN t.calls : i \in Int /\ ~(k <= i)
          BY <1>8, <4>3
        <5> QED  BY <5>1, <5>2 DEF IsLast
      <4> QED  BY <3>5, <4>1, <4>2, <4>3, <4>4
    <3>7. CASE x \notin Restartable(t)
      <4>1. Wanted(t.sessions[x]) = NoOptions
        BY <3>7 DEF Restartable, Batches, Wanted
      <4>2. \A o : Serves(t, q, x, o) => o = NoOptions
        BY <4>1 DEF Serves
      <4>3. \A i \in DOMAIN u.calls : Counts(u, i, x) => i \in DOMAIN t.calls
        BY <3>5, <3>7
      <4>4. \A i \in DOMAIN t.calls : Counts(u, i, x) <=> Counts(t, i, x)
        BY <1>8, <3>3, <3>4
      <4>5. \A i \in DOMAIN u.calls : IsLast(u, i, x) => i \in DOMAIN t.calls /\ IsLast(t, i, x)
        BY <1>8, <4>3, <4>4 DEF IsLast
      <4>6. (\A i \in DOMAIN u.calls : ~Counts(u, i, x)) => \A i \in DOMAIN t.calls : ~Counts(t, i, x)
        BY <1>8, <4>4
      <4>7. \A i \in DOMAIN u.calls : IsLast(u, i, x) => Outcome(u.calls[i]) = NoOptions
        BY <1>5, <1>8, <4>2, <4>5 DEF Foreseen
      <4>8. (\A i \in DOMAIN u.calls : ~Counts(u, i, x)) => engine.batch[x] = NoOptions
        BY <1>5, <4>2, <4>6 DEF Foreseen
      <4> QED  BY <4>1, <4>7, <4>8
    <3> QED  BY <3>6, <3>7
  <2> QED  BY <2>1, <2>2
<1>29. ASSUME NEW x \in Sessions
       PROVE  Foreseen(u, p, x)'
  BY <1>8, <1>9, <1>28
     DEF Foreseen, Serves, IsLast, Counts, Outcome, Wanted, IsOpen, IsBatchCall
<1>30. Surroundings'
  <2>1. IsSequence(pendingMsgs)'
    BY <1>9 DEF IsSequence
  <2> QED  BY <1>5, <1>9, <2>1 DEF Surroundings
<1>31. /\ Formed(st, inbox)' /\ Openings(st, inbox)' /\ Empty(st, inbox)' /\ Failures(st, inbox)'
       /\ \A x \in Sessions : OneOf(st, inbox, x)' /\ Foreseen(st, inbox, x)'
  BY <1>3, <1>4, <1>20, <1>21, <1>25, <1>26, <1>27, <1>29
<1> QED  BY <1>30, <1>31 DEF BatchInvNow, BatchInv

\* The initial segments 0 .. x of the members of T are ordered by inclusion,
\* which is well founded on finite sets.
LEMMA LeastNatural ==
  ASSUME NEW T, T \subseteq Nat, T # {}
  PROVE  \E x \in T : \A y \in T : x <= y
<1> DEFINE W == {0 .. x : x \in T}
<1>1. W \subseteq FiniteSubsetsOf(Nat) /\ W # {}
  <2>1. ASSUME NEW x \in T PROVE 0 .. x \in FiniteSubsetsOf(Nat)
    <3>1. x \in Int /\ 0 \in Int
      OBVIOUS
    <3>2. IsFiniteSet(0 .. x)
      BY <3>1, FS_Interval
    <3>3. 0 .. x \subseteq Nat
      BY <3>1
    <3> QED  BY <3>2, <3>3 DEF FiniteSubsetsOf
  <2> QED  BY <2>1
<1>2. PICK U \in W : \A V \in W : ~(<<V, U>> \in StrictSubsetOrdering(Nat))
  <2> HIDE DEF W
  <2> QED  BY <1>1, FS_StrictSubsetOrderingWellFounded, WFMin
<1>3. PICK x \in T : U = 0 .. x
  BY <1>2
<1>4. ASSUME NEW y \in T, y < x PROVE FALSE
  <2>1. 0 .. y \in W /\ (0 .. y) \subseteq (0 .. x) /\ (0 .. y) # (0 .. x)
    BY <1>3, <1>4
  <2>2. <<0 .. y, U>> \in StrictSubsetOrdering(Nat)
    BY <2>1, <1>3 DEF StrictSubsetOrdering
  <2> QED  BY <1>2, <2>1, <2>2
<1> QED  BY <1>3, <1>4

\* The tables after each of the sessions, in the order of the loop.
LEMMA AllStoppedFacts ==
  ASSUME NEW ids, NEW drops, Len(ids) \in Nat, NEW f, f = AllStopped(ids, drops)
  PROVE  f[0] = st /\ \A i \in 1 .. Len(ids) : f[i] = StopSaved(f[i - 1], ids[i], drops[i])
<1> DEFINE n == Len(ids)
           step(g, i) == IF i = 0 THEN st ELSE StopSaved(g[i - 1], ids[i], drops[i])
           T == {k \in 0 .. n : ~\E g : g = [i \in 0 .. k |-> step(g, i)]}
<1>1. T = {}
  <2> SUFFICES ASSUME T # {} PROVE FALSE
    OBVIOUS
  <2>1. T \subseteq Nat
    OBVIOUS
  <2> HIDE DEF T
  <2>2. PICK m \in T : \A y \in T : m <= y
    BY <2>1, LeastNatural
  <2>a. m \in 0 .. n
    BY <2>2 DEF T
  <2> USE DEF T
  <2>3. m # 0
    <3>1. [j \in {0} |-> st] = [i \in 0 .. 0 |-> step([j \in {0} |-> st], i)]
      OBVIOUS
    <3> QED  BY <2>2, <3>1
  <2>4. m - 1 \in 0 .. n /\ m - 1 \notin T /\ m \in Nat
    <3> HIDE DEF T
    <3>1. m - 1 \in 0 .. n /\ m \in Nat /\ ~(m <= m - 1)
      BY <2>a, <2>3
    <3> QED  BY <2>2, <3>1
  <2>5. PICK g : g = [i \in 0 .. m - 1 |-> step(g, i)]
    BY <2>4
  <2> DEFINE h == [i \in 0 .. m |-> IF i < m THEN g[i] ELSE StopSaved(g[m - 1], ids[m], drops[m])]
  <2>6. h = [i \in 0 .. m |-> step(h, i)]
    <3>1. ASSUME NEW i \in 0 .. m
          PROVE  h[i] = step(h, i)
      <4>1. CASE i = m
        <5>1. h[m] = StopSaved(g[m - 1], ids[m], drops[m]) /\ h[m - 1] = g[m - 1]
          BY <2>3, <2>4
        <5> QED  BY <4>1, <5>1, <2>3
      <4>2. CASE i < m
        <5>1. h[i] = g[i] /\ g[i] = step(g, i) /\ (i # 0 => h[i - 1] = g[i - 1])
          BY <2>4, <2>5, <4>2
        <5> QED  BY <5>1
      <4> QED  BY <2>4, <4>1, <4>2
    <3> QED  BY <3>1
  <2> QED  BY <2>2, <2>6
<1>2. PICK g : g = [i \in 0 .. n |-> step(g, i)]
  BY <1>1
<1>3. f = CHOOSE h : h = [i \in 0 .. n |-> step(h, i)]
  BY DEF AllStopped
<1> HIDE DEF step
<1>4. f = [i \in 0 .. n |-> step(f, i)]
  BY <1>2, <1>3
<1> QED  BY <1>4 DEF step

\* One of the sessions of a client that goes is stopped, by the mode it is saved with.
LEMMA StopSavedKeeps ==
  ASSUME NEW t, NEW q, NEW s, Ready(t, q, s), NEW drop, NEW u, u = StopSaved(t, s, drop)
  PROVE  Keeps(u, t, q, s)
<1>1. CASE t.sessions[s].mode = "trip"
  <2>1. Kept(t, s)
    BY <1>1 DEF Kept, Wanted
  <2>2. u = StopTrip(t, s, FALSE, NoOptions, drop)
    BY <1>1 DEF StopSaved
  <2> QED  BY <2>1, <2>2, StopTripKeeps
<1>2. CASE t.sessions[s].mode # "trip"
  <2>1. u = StopBatching(t, s, FALSE, NoOptions)
    BY <1>2 DEF StopSaved
  <2>2. CASE t.sessions[s] = NoOptions
    <3>1. u = t
      BY <2>1, <2>2 DEF StopBatching
    <3> QED  BY <3>1 DEF Ready, Keeps
  <2>3. CASE t.sessions[s] # NoOptions
    <3>1. t.trips[s] = NoTrip
      BY <1>2, <2>3 DEF Ready, BatchInv, Formed, Kept, Wanted
    <3> QED  BY <2>1, <3>1, StopBatchingKeeps
  <2> QED  BY <2>2, <2>3
<1> QED  BY <1>1, <1>2

\* The tables after each of them keep the invariant: nothing is under way for those that
\* are left, and stopping one leaves the others alone.
LEMMA AllStoppedKeeps ==
  ASSUME Constants, BatchInvNow, NEW S, S \subseteq Batches(st), NEW mine \in InOrder(S),
         \A s \in S : Idle(st, inbox, s), NEW drops, NEW f, f = AllStopped(mine, drops)
  PROVE  BatchInv(f[Len(mine)], inbox)
<1> DEFINE n == Len(mine)
<1>1. IsFiniteSet(S) /\ S \subseteq Sessions
  BY FS_Subset DEF Batches, Constants
<1>2. /\ Cardinality(S) \in Nat /\ mine \in [1 .. Cardinality(S) -> S]
      /\ \A i, j \in DOMAIN mine : i # j => mine[i] # mine[j]
  BY <1>1, InOrderFacts
<1>3. n = Cardinality(S)
  <2>1. mine \in Seq(S)
    BY <1>2
  <2> QED  BY <1>2, <2>1
<1>4. n \in Nat /\ mine \in [1 .. n -> S] /\ \A i, j \in 1 .. n : i # j => mine[i] # mine[j]
  BY <1>2, <1>3
<1>5. f[0] = st /\ \A i \in 1 .. n : f[i] = StopSaved(f[i - 1], mine[i], drops[i])
  BY <1>4, AllStoppedFacts
<1> HIDE DEF n
<1>6. ASSUME NEW s \in S
      PROVE  known /\ s \in started
  <2>1. ~Gone(st, s) /\ s \in Sessions
    BY <1>1 DEF Batches, Gone
  <2> QED  BY <2>1 DEF BatchInvNow, BatchInv, Formed, Empty
<1>7. PICK q : q = inbox
  OBVIOUS
<1> DEFINE Good(i) == BatchInv(f[i], q) /\ \A j \in 1 .. n : i < j => Idle(f[i], q, mine[j])
           T == {i \in 0 .. n : ~Good(i)}
<1>8. Good(0)
  BY <1>4, <1>5, <1>7 DEF BatchInvNow
<1>9. ASSUME NEW i \in 1 .. n, Good(i - 1)
      PROVE  Good(i)
  <2>1. mine[i] \in S /\ i - 1 < i /\ f[i] = StopSaved(f[i - 1], mine[i], drops[i])
    BY <1>4, <1>5
  <2>2. Ready(f[i - 1], q, mine[i])
    BY <1>1, <1>6, <1>9, <2>1 DEF Ready, BatchInvNow
  <2>3. Keeps(f[i], f[i - 1], q, mine[i])
    BY <2>1, <2>2, StopSavedKeeps
  <2>4. ASSUME NEW j \in 1 .. n, i < j
        PROVE  Idle(f[i], q, mine[j])
    <3>1. mine[j] \in Sessions \ {mine[i]} /\ i - 1 < j
      BY <1>1, <1>4, <2>4
    <3> QED  BY <1>9, <2>3, <3>1 DEF Keeps
  <2> QED  BY <2>3, <2>4 DEF Keeps
<1> HIDE DEF Good
<1>10. T = {}
  <2> SUFFICES ASSUME T # {} PROVE FALSE
    OBVIOUS
  <2>1. T \subseteq Nat
    BY <1>4
  <2> HIDE DEF T
  <2>2. PICK m \in T : \A y \in T : m <= y
    BY <2>1, LeastNatural
  <2> USE DEF T
  <2>3. m # 0 /\ m \in 0 .. n
    BY <1>8, <2>2
  <2>4. m \in 1 .. n /\ m - 1 \in 0 .. n /\ ~(m <= m - 1)
    BY <1>4, <2>3
  <2>5. Good(m - 1)
    BY <2>2, <2>4
  <2>6. Good(m)
    BY <1>9, <2>4, <2>5
  <2> QED  BY <2>2, <2>6
<1>11. Good(n)
  BY <1>4, <1>10
<1> QED  BY <1>7, <1>11 DEF Good, n

\* A client goes, and its sessions are stopped one after the other.
LEMMA RemoveClientKeeps ==
  ASSUME Constants, Calm, BatchInvNow, NEW c, RemoveClient(c)
  PROVE  BatchInvNow'
<1> DEFINE S == {s \in Batches(st) : Owner[s] = c}
<1>0. PICK mine \in InOrder(S) : \E drops \in [DOMAIN mine -> Flags] :
        Becomes([AllStopped(mine, drops)[Len(mine)] EXCEPT
                   !.full = AutoCount(AllStopped(mine, drops)[Len(mine)]) > 0])
  BY DEF RemoveClient
<1>1. PICK drops \in [DOMAIN mine -> Flags] :
        Becomes([AllStopped(mine, drops)[Len(mine)] EXCEPT
                   !.full = AutoCount(AllStopped(mine, drops)[Len(mine)]) > 0])
  BY <1>0
<1>2. PICK f : f = AllStopped(mine, drops)
  OBVIOUS
<1>3. PICK t : t = f[Len(mine)]
  OBVIOUS
<1>4. \A s \in S : Idle(st, inbox, s)
  BY DEF RemoveClient, Calm, Pending, Idle, Of, Batches
<1>5. S \subseteq Batches(st)
  OBVIOUS
<1> HIDE DEF S
<1>6. BatchInv(t, inbox)
  BY <1>2, <1>3, <1>4, <1>5, AllStoppedKeeps
<1>7. PICK u : u = [t EXCEPT !.full = AutoCount(t) > 0]
  OBVIOUS
<1>8. Same(u, t)
  BY <1>6, <1>7, TablesFacts DEF BatchInv, Formed
<1>9. PICK q : q = inbox
  OBVIOUS
<1>10. BatchInv(u, q)
  BY <1>6, <1>8, <1>9, SameKeeps DEF BatchInvNow, KeepsAll, Same
<1>11. st' = [u EXCEPT !.told = {}]
  BY <1>1, <1>2, <1>3, <1>7 DEF Becomes
<1>12. inbox' = q /\ UNCHANGED <<known, pendingMsgs, started, engine>>
  BY <1>9 DEF RemoveClient
<1> QED  BY <1>10, <1>11, <1>12, Settles DEF BatchInvNow

\* The invariant holds in the initial state, with the call that opens the modem.
LEMMA BatchInvStarts ==
  ASSUME Constants, Calm, BatchingInit
  PROVE  BatchInvNow
<1>1. PICK t : t = st
  OBVIOUS
<1>2. PICK q : q = inbox
  OBVIOUS
<1>3. /\ t.sessions = [s \in Sessions |-> NoOptions] /\ t.trips = [s \in Sessions |-> NoTrip]
      /\ t.calls = <<OpenCall>> /\ IsTables(t)
  BY <1>1 DEF BatchingInit, IsTables
<1>4. /\ ~known /\ pendingMsgs = <<>> /\ q = <<>> /\ started = {}
      /\ engine = [up |-> FALSE, batch |-> [s \in Sessions |-> NoOptions], trip |-> NoRun,
                   acc |-> 0, restarts |-> 0]
  BY <1>2 DEF BatchingInit
<1>5. IsOpen(OpenCall) /\ ~IsBatchCall(OpenCall) /\ OpenCall.s = NoSession /\ OpenCall.cb = "engineUp"
  BY DEF OpenCall, Call, IsOpen, IsBatchCall
<1> HIDE DEF OpenCall
<1>6. IsSequence(<<>>) /\ IsSequence(t.calls)
  <2>1. <<OpenCall>> \in Seq({OpenCall}) /\ <<>> \in Seq({OpenCall})
    OBVIOUS
  <2> QED  BY <1>3, <2>1, SequenceOf
<1>7. DOMAIN t.calls = {1} /\ t.calls[1] = OpenCall /\ DOMAIN q = {} /\ DOMAIN pendingMsgs = {}
  BY <1>3, <1>4
<1>8. \A x \in Sessions : /\ t.sessions[x] = NoOptions /\ Gone(t, x) /\ Kept(t, x)
                          /\ Wanted(t.sessions[x]) = NoOptions
                          /\ engine.batch[x] = NoOptions /\ Idle(t, q, x)
  <2>1. NoSession \notin Sessions
    BY DEF Constants, NoSession
  <2> QED  BY <2>1, <1>3, <1>4, <1>5, <1>7 DEF Gone, Kept, Wanted, Idle, Of
<1>9. Surroundings
  <2>1. PICK e : e = engine
    OBVIOUS
  <2>2. e = [up |-> FALSE, batch |-> [s \in Sessions |-> NoOptions], trip |-> NoRun, acc |-> 0,
             restarts |-> 0]
    BY <1>4, <2>1
  <2>3. e.up = FALSE /\ e.batch = [s \in Sessions |-> NoOptions] /\ e.restarts = 0
    BY <2>2
  <2>4. e = [up |-> e.up, batch |-> e.batch, trip |-> e.trip, acc |-> e.acc, restarts |-> e.restarts]
    BY <2>2
  <2>5. e.batch = [s \in Sessions |-> e.batch[s]] /\ \A s \in Sessions : e.batch[s] = NoOptions
    BY <2>3
  <2>6. 0 <= MaxRestarts
    BY DEF Calm
  <2>7. IsSequence(pendingMsgs) /\ pendingMsgs = <<>> /\ known = FALSE /\ started = {}
    BY <1>4, <1>6 DEF BatchingInit
  <2>8. IsSequence(pendingMsgs) /\ known \in BOOLEAN /\ started \subseteq Sessions /\ (known => pendingMsgs = <<>>)
    BY <2>7
  <2>9. e.up \in BOOLEAN /\ e.restarts \in {0, 1} /\ e.restarts <= MaxRestarts
    BY <2>3, <2>6
  <2>10. engine = [up |-> engine.up, batch |-> engine.batch, trip |-> engine.trip,
                   acc |-> engine.acc, restarts |-> engine.restarts]
    BY ONLY <2>1, <2>4
  <2>11. /\ engine.up \in BOOLEAN /\ engine.restarts \in {0, 1} /\ engine.restarts <= MaxRestarts
         /\ engine.batch = [s \in Sessions |-> engine.batch[s]]
         /\ \A s \in Sessions : engine.batch[s] = NoOptions
    BY ONLY <2>1, <2>5, <2>9
  <2> QED  BY ONLY <2>8, <2>10, <2>11 DEF Surroundings
<1>10. Formed(t, q)
  <2>1. CallFormed(t, t.calls[1])
    BY <1>5, <1>7 DEF CallFormed, IsOpen
  <2> QED  BY <2>1, <1>3, <1>4, <1>6, <1>7, <1>8 DEF Formed
<1>11. Openings(t, q) /\ Empty(t, q) /\ Failures(t, q)
  BY <1>4, <1>5, <1>7, <1>8 DEF Openings, Empty, Failures
<1>12. ASSUME NEW x \in Sessions
       PROVE  OneOf(t, q, x) /\ Foreseen(t, q, x)
  <2>1. \A i \in DOMAIN t.calls : ~Counts(t, i, x)
    BY <1>5, <1>7 DEF Counts
  <2>2. Serves(t, q, x, engine.batch[x])
    BY <1>8 DEF Serves
  <2> QED  BY <2>1, <2>2, <1>7 DEF OneOf, Foreseen, IsLast
<1> QED  BY <1>1, <1>2, <1>9, <1>10, <1>11, <1>12 DEF BatchInvNow, BatchInv

\* It holds when nothing changes.
LEMMA BatchInvStutters ==
  ASSUME BatchInvNow, UNCHANGED batchingVars
  PROVE  BatchInvNow'
<1>1. PICK u : u = st /\ u = st'
  BY DEF batchingVars
<1>2. PICK q : q = inbox /\ q = inbox'
  BY DEF batchingVars
<1>3. BatchInv(u, q) /\ Surroundings
  BY <1>1, <1>2 DEF BatchInvNow
<1>4. UNCHANGED <<known, pendingMsgs, started, engine>>
  BY DEF batchingVars
<1> QED  BY <1>1, <1>2, <1>3, <1>4, Unmoved

\* With nothing under way there are no calls that count, so the modem runs what is wanted.
LEMMA BatchInvAgrees ==
  ASSUME BatchInvNow
  PROVE  BatchesAgree
<1> SUFFICES ASSUME Quiet, NEW s \in Sessions
             PROVE  engine.batch[s] = Wanted(st.sessions[s])
  BY DEF BatchesAgree, Wanted
<1>1. /\ IsSequence(st.calls) /\ IsSequence(inbox) /\ IsSequence(pendingMsgs)
      /\ Foreseen(st, inbox, s)
  BY DEF BatchInvNow, BatchInv, Formed, Surroundings
<1>2. /\ Len(st.calls) \in Nat /\ Len(inbox) \in Nat
      /\ DOMAIN st.calls = 1 .. Len(st.calls) /\ DOMAIN inbox = 1 .. Len(inbox)
      /\ Len(pendingMsgs) \in Nat
  BY <1>1, SequenceFacts
<1>3. Len(st.calls) = 0 /\ Len(inbox) = 0
  BY <1>2 DEF Quiet, Underway
<1>4. DOMAIN st.calls = {} /\ DOMAIN inbox = {}
  BY <1>2, <1>3
<1>5. Serves(st, inbox, s, engine.batch[s])
  BY <1>1, <1>4 DEF Foreseen
<1>6. ~Opening(inbox)
  BY <1>4 DEF Opening, Quiet
<1> QED  BY <1>5, <1>6 DEF Serves

\* Every step keeps the invariant: one part per action.
LEMMA BatchInvSteps ==
  ASSUME Constants, Calm, BatchInvNow, [BatchingNext]_batchingVars
  PROVE  BatchInvNow'
<1>1. ASSUME NEW s \in Sessions,
             \/ \E o \in Options : StartBatchingCommand(s, o) \/ UpdateBatchingOptionsCommand(s, o)
             \/ StopBatchingCommand(s)
      PROVE  BatchInvNow'
  BY <1>1, CommandsKeep
<1>2. ASSUME NEW c \in Subscribers, RemoveClient(c)
      PROVE  BatchInvNow'
  BY <1>2, RemoveClientKeeps
<1>3. CASE HandleAnswer
  BY <1>3, HandleAnswerKeeps
<1>4. CASE HandleCompleted
  BY <1>4, HandleCompletedKeeps
<1>5. CASE HandleCommand
  BY <1>5, HandleCommandKeeps
<1>6. CASE HandleEngineUp
  BY <1>6, HandleEngineUpKeeps
<1>7. CASE ModemBatch \/ ModemTrip \/ ModemQuery \/ ModemRefuses
  BY <1>7, ModemServes
<1>8. CASE ModemOpens
  BY <1>8, ModemOpensKeeps
<1>9. CASE TripMoves
  BY <1>9, TripMovesKeeps
<1>10. CASE ModemDown
  BY <1>10, ModemDownKeeps
<1>11. CASE UNCHANGED batchingVars
  BY <1>11, BatchInvStutters
<1> QED
  BY <1>1, <1>2, <1>3, <1>4, <1>5, <1>6, <1>7, <1>8, <1>9, <1>10, <1>11 DEF BatchingNext

\* Once nothing is under way, the modem batches for exactly the routine and manual sessions
\* that the adapter lists, with their latest options (BatchesAgree): no order in which updates,
\* stops, clients that go and a restart of the modem cross each other makes the adapter's table
\* and the modem differ for good.
THEOREM BatchesAlwaysAgree ==
  ASSUME Constants, Calm
  PROVE  BatchingSpec => []BatchesAgree
<1>1. BatchingInit => BatchInvNow
  BY BatchInvStarts
<1>2. BatchInvNow /\ [BatchingNext]_batchingVars => BatchInvNow'
  BY BatchInvSteps
<1>3. BatchInvNow => BatchesAgree
  BY BatchInvAgrees
<1> QED  BY <1>1, <1>2, <1>3, PTL DEF BatchingSpec

-----------------------------------------------------------------------------
(***************************************************************************)
(* Answers.  A handler asks the modem for the session of its message, or   *)
(* tells the client.                                                       *)
(***************************************************************************)
\* The tables u are t after more was asked and told; the session s was told, or something
\* is asked for it.
Grown(u, t) ==
  /\ IsTables(u) /\ IsSequence(u.calls) /\ t.told \subseteq u.told
  /\ \A k \in DOMAIN t.calls : k \in DOMAIN u.calls /\ u.calls[k] = t.calls[k]
Heard(u, s) == s \in u.told \/ \E k \in DOMAIN u.calls : Of(u.calls[k], s)

\* Nothing was asked or told.
LEMMA GrownOnce ==
  ASSUME NEW t, IsSequence(t.calls), NEW u, IsTables(u), u.calls = t.calls, u.told = t.told
  PROVE  Grown(u, t)
BY DEF Grown

\* What was asked and told stays.
LEMMA GrownTwice ==
  ASSUME NEW t, NEW u, Grown(u, t), NEW w, Grown(w, u)
  PROVE  Grown(w, t) /\ \A s : Heard(u, s) => Heard(w, s)
<1>1. Grown(w, t)
  BY DEF Grown
<1>2. ASSUME NEW s, Heard(u, s)
      PROVE  Heard(w, s)
  BY <1>2 DEF Grown, Heard
<1> QED  BY <1>1, <1>2

\* A call with a callback is heard of.
LEMMA CallingGrows ==
  ASSUME NEW t, IsTables(t), IsSequence(t.calls), NEW c, NEW u, u = Calling(t, c)
  PROVE  Grown(u, t) /\ (c.cb # "ignore" => Heard(u, c.s))
<1>1. Called(u, t, c)
  BY CallingFacts
<1>2. Len(t.calls) + 1 \in DOMAIN u.calls /\ u.calls[Len(t.calls) + 1] = c
  BY <1>1 DEF Called, Longer
<1>3. Grown(u, t)
  BY <1>1 DEF Called, Longer, Grown
<1> QED  BY <1>2, <1>3 DEF Heard, Of

\* So is the client that is told.
LEMMA TellingGrows ==
  ASSUME NEW t, IsTables(t), IsSequence(t.calls), NEW s, NEW u, u = Telling(t, s)
  PROVE  Grown(u, t) /\ Heard(u, s)
<1>1. IsTables(u) /\ u.calls = t.calls /\ u.told = t.told \cup {s}
  BY TablesFacts
<1> QED  BY <1>1 DEF Grown, Heard

\* Saving options neither asks nor tells.
LEMMA SavingFacts ==
  ASSUME NEW t, IsTables(t), NEW s, NEW o, NEW u, u = Saving(t, s, o)
  PROVE  IsTables(u) /\ u.calls = t.calls /\ u.told = t.told
BY DEF Saving, IsTables

\* A start always calls the modem for its session.
LEMMA StartGrows ==
  ASSUME NEW t, IsTables(t), IsSequence(t.calls), NEW s, NEW o, NEW u, u = Start(t, s, o)
  PROVE  Grown(u, t) /\ Heard(u, s)
<1>1. PICK v, c : u = Calling(v, c) /\ IsTables(v) /\ v.calls = t.calls /\ v.told = t.told
                  /\ c.s = s /\ c.cb # "ignore"
  <2>1. CASE o.mode # "trip"
    <3> DEFINE a == FullWanted(t, AutoReported(o))
               b == Saving(a, s, o)
               c == Call("startB", "started", s, o)
    <3>1. Same(a, t)
      BY TablesFacts
    <3>2. u = Calling(b, c)
      BY <2>1 DEF Start, StartBatching
    <3> HIDE DEF a
    <3>3. IsTables(a) /\ a.calls = t.calls /\ a.told = t.told
      BY <3>1 DEF Same
    <3>4. IsTables(b) /\ b.calls = a.calls /\ b.told = a.told
      BY ONLY <3>3, SavingFacts
    <3>5. c.s = s /\ c.cb # "ignore"
      BY DEF Call
    <3> HIDE DEF b, c
    <3> QED  BY <3>2, <3>3, <3>4, <3>5
  <2>2. CASE o.mode = "trip" /\ Trips(t) # {}
    <3> DEFINE c == Call("query", "tripQueried", s, o)
    <3>1. u = Calling(t, c) /\ c.s = s /\ c.cb # "ignore"
      BY <2>2 DEF Start, StartTrip, Call
    <3> QED  BY <3>1
  <2>3. CASE o.mode = "trip" /\ Trips(t) = {}
    <3> DEFINE a == FullWanted(t, TRUE)
               b == Saving(a, s, o)
               d == [b EXCEPT !.trips[s] = [NoTrip EXCEPT !.dist = o.dist, !.tbf = o.tbf]]
               c == [Call("startT", "tripStarted", s, o) EXCEPT !.run = [dist |-> o.dist, tbf |-> o.tbf]]
    <3>1. Same(a, t)
      BY TablesFacts
    <3>2. u = Calling(d, c)
      BY <2>3 DEF Start, StartTrip
    <3> HIDE DEF a
    <3>3. IsTables(a) /\ a.calls = t.calls /\ a.told = t.told
      BY <3>1 DEF Same
    <3>4. IsTables(b) /\ b.calls = a.calls /\ b.told = a.told
      BY ONLY <3>3, SavingFacts
    <3>5. c.s = s /\ c.cb # "ignore"
      BY DEF Call
    <3> HIDE DEF b, c
    <3>6. IsTables(d) /\ d.calls = b.calls /\ d.told = b.told
      BY <3>4 DEF IsTables
    <3> HIDE DEF d
    <3> QED  BY <3>2, <3>3, <3>4, <3>5, <3>6
  <2> QED  BY <2>1, <2>2, <2>3
<1>2. Grown(u, v) /\ Heard(u, s)
  BY <1>1, CallingGrows
<1>3. Grown(v, t)
  BY <1>1, GrownOnce
<1> QED  BY <1>2, <1>3, GrownTwice

\* Its answer tells the client, whether it was refused or not.
LEMMA StartedGrows ==
  ASSUME NEW t, IsTables(t), IsSequence(t.calls), NEW c, NEW ok, NEW u, u = Started(t, c, ok)
  PROVE  Grown(u, t) /\ Heard(u, c.s)
<1> DEFINE v == Erasing(t, c.s)
           w == FullUnwanted(v, AutoReported(c.o))
           x == IF ok THEN t ELSE w
<1>1. IsTables(v) /\ v.calls = t.calls /\ v.told = t.told
  BY SavingFacts DEF Erasing
<1> HIDE DEF v
<1>2. Same(w, v)
  BY <1>1, TablesFacts
<1> HIDE DEF w
<1>3. IsTables(x) /\ x.calls = t.calls /\ x.told = t.told
  BY <1>1, <1>2 DEF Same
<1>4. u = Telling(x, c.s)
  BY DEF Started, v, w
<1> HIDE DEF x
<1>5. Grown(u, x) /\ Heard(u, c.s)
  BY <1>3, <1>4, TellingGrows
<1>6. Grown(x, t)
  BY <1>3, GrownOnce
<1> QED  BY <1>5, <1>6, GrownTwice

\* So does that to the first trip.
LEMMA TripStartedGrows ==
  ASSUME NEW t, IsTables(t), IsSequence(t.calls), NEW c, NEW ok, NEW u, u = TripStarted(t, c, ok)
  PROVE  Grown(u, t) /\ Heard(u, c.s)
<1> DEFINE v == Erasing(t, c.s)
           w == [v EXCEPT !.trips[c.s] = NoTrip]
           z == FullUnwanted(w, TRUE)
           d == [t EXCEPT !.ongoing = [dist |-> c.o.dist, tbf |-> c.o.tbf]]
           x == IF ok THEN d ELSE z
<1>1. IsTables(v) /\ v.calls = t.calls /\ v.told = t.told
  BY SavingFacts DEF Erasing
<1>2. Same(d, t)
  BY TablesFacts
<1>3. u = Telling(x, c.s)
  BY DEF TripStarted
<1> HIDE DEF v, d
<1>4. IsTables(w) /\ w.calls = v.calls /\ w.told = v.told
  BY <1>1 DEF IsTables
<1> HIDE DEF w
<1>5. Same(z, w)
  BY <1>4, TablesFacts
<1> HIDE DEF z
<1>6. IsTables(x) /\ x.calls = t.calls /\ x.told = t.told
  BY <1>1, <1>2, <1>4, <1>5 DEF Same
<1> HIDE DEF x
<1>7. Grown(u, x) /\ Heard(u, c.s)
  BY <1>3, <1>6, TellingGrows
<1>8. Grown(x, t)
  BY <1>6, GrownOnce
<1> QED  BY <1>7, <1>8, GrownTwice

\* A later trip tells the client at once, or once the modem's trip has restarted.
LEMMA TripQueriedGrows ==
  ASSUME NEW t, IsTables(t), IsSequence(t.calls), NEW c, NEW ok, NEW acc,
         NEW u, u = TripQueried(t, c, ok, acc)
  PROVE  Grown(u, t) /\ Heard(u, c.s)
<1> DEFINE s == c.s
           trip == [ob |-> acc, tt |-> 0, tr |-> 0, dist |-> c.o.dist, tbf |-> c.o.tbf]
           listed == IF ok THEN [t EXCEPT !.trips[s] = trip] ELSE t
<1>1. PICK run :
        \/ u = Telling(listed, s)
        \/ u = Calling([AllTrips(listed, Rebased) EXCEPT !.ongoing = run],
                       [Call("restartT", "tripRestarted", s, NoOptions) EXCEPT !.run = run])
  BY DEF TripQueried
<1> HIDE DEF trip
<1>2. IsTables(listed) /\ listed.calls = t.calls /\ listed.told = t.told
  BY DEF IsTables
<1> HIDE DEF listed
<1>3. CASE u = Telling(listed, s)
  <2>1. Grown(u, listed) /\ Heard(u, s)
    BY <1>2, <1>3, TellingGrows
  <2>2. Grown(listed, t)
    BY <1>2, GrownOnce
  <2> QED  BY <2>1, <2>2, GrownTwice
<1>4. CASE u = Calling([AllTrips(listed, Rebased) EXCEPT !.ongoing = run],
                       [Call("restartT", "tripRestarted", s, NoOptions) EXCEPT !.run = run])
  <2> DEFINE b == AllTrips(listed, Rebased)
             v == [b EXCEPT !.ongoing = run]
             e == [Call("restartT", "tripRestarted", s, NoOptions) EXCEPT !.run = run]
  <2>1. IsTables(b) /\ b.calls = listed.calls /\ b.told = listed.told
    BY <1>2 DEF IsTables, AllTrips
  <2>2. u = Calling(v, e) /\ e.s = s /\ e.cb # "ignore"
    BY <1>4 DEF Call
  <2> HIDE DEF b, e
  <2>3. IsTables(v) /\ v.calls = b.calls /\ v.told = b.told
    BY <2>1 DEF IsTables
  <2> HIDE DEF v
  <2>4. Grown(u, v) /\ Heard(u, s)
    BY <1>2, <2>1, <2>2, <2>3, CallingGrows
  <2>5. Grown(v, t)
    BY <1>2, <2>1, <2>3, GrownOnce
  <2> QED  BY <2>4, <2>5, GrownTwice
<1> QED  BY <1>1, <1>3, <1>4

\* The stop of a session that is listed calls the modem.
LEMMA StopBatchingGrows ==
  ASSUME NEW t, IsTables(t), IsSequence(t.calls), NEW s, NEW restart, NEW o,
         NEW u, u = StopBatching(t, s, restart, o)
  PROVE  Grown(u, t) /\ (t.sessions[s] # NoOptions => Heard(u, s))
<1> DEFINE v == Erasing(t, s)
           c == [Call("stopB", "stopped", s, o) EXCEPT
                   !.restart = restart, !.auto = AutoReported(t.sessions[s])]
<1>1. IsTables(v) /\ v.calls = t.calls /\ v.told = t.told
  BY SavingFacts DEF Erasing
<1>2. u = IF t.sessions[s] = NoOptions THEN t ELSE Calling(v, c)
  BY DEF StopBatching
<1>3. c.s = s /\ c.cb # "ignore"
  BY DEF Call
<1> HIDE DEF v, c
<1>4. CASE t.sessions[s] = NoOptions
  BY <1>2, <1>4, GrownOnce
<1>5. CASE t.sessions[s] # NoOptions
  <2>1. Grown(u, v) /\ Heard(u, s)
    BY <1>1, <1>2, <1>3, <1>5, CallingGrows
  <2>2. Grown(v, t)
    BY <1>1, GrownOnce
  <2> QED  BY <2>1, <2>2, GrownTwice
<1> QED  BY <1>4, <1>5

\* The answer to it tells the client, after the start of an update too.
LEMMA StoppedGrows ==
  ASSUME NEW t, IsTables(t), IsSequence(t.calls), NEW c, NEW ok, NEW garbage,
         NEW u, u = Stopped(t, c, ok, garbage)
  PROVE  Grown(u, t) /\ Heard(u, c.s)
<1> DEFINE s == c.s
           v == FullUnwanted(t, c.auto)
           w == Saving(t, s, IF c.restart THEN c.o ELSE garbage)
           x == IF ~ok THEN w ELSE IF c.restart THEN Start(v, s, c.o) ELSE v
<1>1. u = Telling(x, s)
  BY DEF Stopped
<1>2. Same(v, t)
  BY TablesFacts
<1>3. IsTables(w) /\ w.calls = t.calls /\ w.told = t.told
  BY SavingFacts
<1>4. Grown(w, t)
  BY <1>3, GrownOnce
<1> HIDE DEF v, w
<1>5. IsTables(v) /\ v.calls = t.calls /\ v.told = t.told
  BY <1>2 DEF Same
<1>6. Grown(v, t)
  BY <1>5, GrownOnce
<1>7. Grown(Start(v, s, c.o), v)
  BY <1>5, StartGrows
<1>8. Grown(Start(v, s, c.o), t)
  BY <1>6, <1>7, GrownTwice
<1>9. Grown(x, t)
  BY <1>4, <1>6, <1>8
<1> HIDE DEF x
<1>10. Grown(u, x) /\ Heard(u, s)
  BY <1>1, <1>9, TellingGrows DEF Grown
<1> QED  BY <1>9, <1>10, GrownTwice

\* The trips that are left ask for no session.
LEMMA RestartTripsGrows ==
  ASSUME NEW t, IsTables(t), IsSequence(t.calls), NEW query, NEW acc,
         NEW u, u = RestartTrips(t, query, acc)
  PROVE  Grown(u, t)
<1>1. CASE Trips(t) = {}
  <2> DEFINE c == Call("stopT", "ignore", NoSession, NoOptions)
             v == Calling(t, c)
             w == [v EXCEPT !.ongoing = NoRun]
  <2>1. u = FullUnwanted(w, TRUE)
    BY <1>1 DEF RestartTrips
  <2>2. Grown(v, t)
    BY CallingGrows
  <2> HIDE DEF v
  <2>3. IsTables(v) /\ IsSequence(v.calls)
    BY <2>2 DEF Grown
  <2>4. Same(w, v)
    BY <2>3, TablesFacts
  <2> HIDE DEF w
  <2>a. IsTables(w) /\ w.calls = v.calls /\ w.told = v.told
    BY <2>4 DEF Same
  <2>5. IsTables(u) /\ u.calls = w.calls /\ u.told = w.told
    BY ONLY <2>1, <2>a, TablesFacts DEF Same
  <2>6. Grown(u, v)
    BY <2>3, <2>a, <2>5, GrownOnce
  <2> QED  BY <2>2, <2>6, GrownTwice
<1>2. CASE Trips(t) # {}
  <2> DEFINE c == [Call("query", "tripsQueried", NoSession, NoOptions) EXCEPT
                     !.run = LeastRun(t), !.query = query, !.acc = acc]
  <2>1. u = Calling(t, c)
    BY <1>2 DEF RestartTrips
  <2> HIDE DEF c
  <2> QED  BY <2>1, CallingGrows
<1> QED  BY <1>1, <1>2

\* A trip that ends tells the client.
LEMMA TripEndsGrows ==
  ASSUME NEW t, IsTables(t), IsSequence(t.calls), NEW s, NEW restart, NEW o, NEW drop,
         NEW u, u = TripEnds(t, s, restart, o, drop)
  PROVE  Grown(u, t) /\ Heard(u, s)
<1> DEFINE d == [t EXCEPT !.dropped = drop]
           gone == [d EXCEPT !.trips[s] = NoTrip]
           ended == [gone EXCEPT !.ongoing = NoRun]
           others == IF Trips(gone) = {} THEN ended ELSE RestartTrips(gone, TRUE, 0)
           e == Erasing(others, s)
           w == IF restart THEN Start(e, s, o) ELSE others
<1>1. u = Telling(w, s)
  <2>1. gone = [t EXCEPT !.dropped = drop, !.trips[s] = NoTrip]
    BY DEF IsTables
  <2> QED  BY <2>1 DEF TripEnds
<1>2. IsTables(d) /\ d.calls = t.calls /\ d.told = t.told
  BY DEF IsTables
<1> HIDE DEF d
<1>3. IsTables(gone) /\ gone.calls = t.calls /\ gone.told = t.told
  BY <1>2 DEF IsTables
<1> HIDE DEF gone
<1>4. Same(ended, gone)
  BY <1>3, TablesFacts
<1> HIDE DEF ended
<1>5. IsTables(ended) /\ ended.calls = t.calls /\ ended.told = t.told
  BY <1>3, <1>4 DEF Same
<1>6. Grown(gone, t) /\ Grown(ended, t)
  BY <1>3, <1>5, GrownOnce
<1>7. Grown(RestartTrips(gone, TRUE, 0), gone)
  BY <1>3, RestartTripsGrows
<1>8. Grown(RestartTrips(gone, TRUE, 0), t)
  BY <1>6, <1>7, GrownTwice
<1>9. Grown(others, t)
  BY <1>6, <1>8
<1> HIDE DEF others
<1>10. IsTables(e) /\ e.calls = others.calls /\ e.told = others.told
  BY <1>9, SavingFacts DEF Grown, Erasing
<1> HIDE DEF e
<1>11. Grown(e, others)
  BY <1>9, <1>10, GrownOnce DEF Grown
<1>12. Grown(e, t)
  BY <1>9, <1>11, GrownTwice
<1>13. Grown(Start(e, s, o), e)
  BY <1>12, StartGrows DEF Grown
<1>14. Grown(Start(e, s, o), t)
  BY <1>12, <1>13, GrownTwice
<1>15. Grown(w, t)
  BY <1>9, <1>14
<1> HIDE DEF w
<1>16. Grown(u, w) /\ Heard(u, s)
  BY <1>1, <1>15, TellingGrows DEF Grown
<1> QED  BY <1>15, <1>16, GrownTwice

\* The stop of a trip calls the modem or tells the client.
LEMMA StopTripGrows ==
  ASSUME NEW t, IsTables(t), IsSequence(t.calls), NEW s, NEW restart, NEW o, NEW drop,
         NEW u, u = StopTrip(t, s, restart, o, drop)
  PROVE  Grown(u, t) /\ Heard(u, s)
<1>1. CASE Cardinality(Trips(t)) = 1
  <2> DEFINE c == [Call("stopT", "tripStopped", s, o) EXCEPT !.restart = restart]
  <2>1. u = Calling(t, c) /\ c.s = s /\ c.cb # "ignore"
    BY <1>1 DEF StopTrip, Call
  <2> HIDE DEF c
  <2> QED  BY <2>1, CallingGrows
<1>2. CASE Cardinality(Trips(t)) # 1
  <2>1. u = TripEnds(t, s, restart, o, drop)
    BY <1>2 DEF StopTrip
  <2> QED  BY <2>1, TripEndsGrows
<1> QED  BY <1>1, <1>2

\* The answer to it tells the client.
LEMMA TripStoppedGrows ==
  ASSUME NEW t, IsTables(t), IsSequence(t.calls), NEW c, NEW ok, NEW drop,
         NEW u, u = TripStopped(t, c, ok, drop)
  PROVE  Grown(u, t) /\ Heard(u, c.s)
<1> DEFINE full == t.full /\ ~(ok /\ AutoCount(t) = 1)
           v == [t EXCEPT !.full = full]
<1>1. u = TripEnds(v, c.s, c.restart, c.o, drop)
  BY DEF TripStopped
<1>2. Same(v, t)
  <2> HIDE DEF full
  <2> QED  BY TablesFacts
<1> HIDE DEF v
<1>3. IsTables(v) /\ v.calls = t.calls /\ v.told = t.told
  BY <1>2 DEF Same
<1>4. Grown(v, t)
  BY <1>3, GrownOnce
<1>5. Grown(u, v) /\ Heard(u, c.s)
  BY <1>1, <1>3, TripEndsGrows
<1> QED  BY <1>4, <1>5, GrownTwice

\* What is told about the trips that are left.
LEMMA TripsQueriedGrows ==
  ASSUME NEW t, IsTables(t), IsSequence(t.calls), NEW c, NEW data, NEW u, u = TripsQueried(t, c, data)
  PROVE  Grown(u, t)
<1>1. PICK e : u = t \/ u = Calling(t, e)
  BY DEF TripsQueried
<1> QED  BY <1>1, GrownOnce, CallingGrows

\* Their restart.
LEMMA TripsRestartedGrows ==
  ASSUME NEW t, IsTables(t), IsSequence(t.calls), NEW c, NEW ok, NEW u, u = TripsRestarted(t, c, ok)
  PROVE  Grown(u, t)
<1> DEFINE f == [x \in Sessions |-> Rebased(Credited(t.trips[x], c.acc))]
           v == [t EXCEPT !.trips = f]
<1>1. u = IF ok THEN [v EXCEPT !.ongoing = c.run] ELSE t
  BY DEF TripsRestarted, AllTrips
<1> HIDE DEF f
<1>2. IsTables(v) /\ v.calls = t.calls /\ v.told = t.told
  BY DEF IsTables
<1> HIDE DEF v
<1>3. IsTables(u) /\ u.calls = t.calls /\ u.told = t.told
  BY <1>1, <1>2 DEF IsTables
<1> QED  BY <1>3, GrownOnce

\* Their start after the modem restarted.
LEMMA TripsResetGrows ==
  ASSUME NEW t, IsTables(t), IsSequence(t.calls), NEW ok, NEW u, u = TripsReset(t, ok)
  PROVE  Grown(u, t)
<1>1. IsTables(u) /\ u.calls = t.calls /\ u.told = t.told
  BY DEF TripsReset, IsTables
<1> QED  BY <1>1, GrownOnce

\* Trips that are complete.
LEMMA CompleteGrows ==
  ASSUME NEW t, IsTables(t), IsSequence(t.calls), NEW acc, NEW drop, NEW u, u = Complete(t, acc, drop)
  PROVE  Grown(u, t)
<1> DEFINE credited == AllTrips(t, LAMBDA trip : Credited(trip, acc))
           done == {s \in Trips(t) : t.trips[s].dist <= credited.trips[s].tt}
<1>1. PICK g, dropped : \/ u = [credited EXCEPT !.trips = g, !.dropped = dropped]
                        \/ u = RestartTrips([credited EXCEPT !.trips = g, !.dropped = dropped], FALSE, acc)
  <2> DEFINE g == [s \in Sessions |-> IF s \in done THEN NoTrip ELSE credited.trips[s]]
             dropped == IF done = {} THEN credited.dropped ELSE drop
  <2>1. \/ u = [credited EXCEPT !.trips = g, !.dropped = dropped]
        \/ u = RestartTrips([credited EXCEPT !.trips = g, !.dropped = dropped], FALSE, acc)
    BY DEF Complete
  <2> QED  BY <2>1
<1> DEFINE f == [s \in Sessions |-> Credited(t.trips[s], acc)]
<1>2. credited = [t EXCEPT !.trips = f]
  BY DEF AllTrips
<1> HIDE DEF credited, f
<1>3. IsTables(credited) /\ credited.calls = t.calls /\ credited.told = t.told
  BY <1>2 DEF IsTables
<1> DEFINE left == [credited EXCEPT !.trips = g, !.dropped = dropped]
<1>4. IsTables(left) /\ left.calls = t.calls /\ left.told = t.told
  <2> DEFINE b == [credited EXCEPT !.trips = g]
  <2>1. IsTables(b) /\ b.calls = t.calls /\ b.told = t.told
    BY <1>3 DEF IsTables
  <2>2. left = [b EXCEPT !.dropped = dropped]
    BY <1>3 DEF IsTables
  <2> HIDE DEF b, left
  <2> QED  BY <2>1, <2>2 DEF IsTables
<1>5. u = left \/ u = RestartTrips(left, FALSE, acc)
  BY <1>1
<1> HIDE DEF left
<1>6. Grown(left, t)
  BY <1>4, GrownOnce
<1>7. Grown(RestartTrips(left, FALSE, acc), left)
  BY <1>4, RestartTripsGrows
<1>8. Grown(RestartTrips(left, FALSE, acc), t)
  BY <1>6, <1>7, GrownTwice
<1> QED  BY <1>5, <1>6, <1>8

\* An answer of the modem: the callback of a session's call tells its client or calls again.
LEMMA AnsweredGrows ==
  ASSUME Constants, NEW t, IsTables(t), IsSequence(t.calls), NEW c, CallFormed(t, c),
         c.cb \notin {"ignore", "engineUp"}, NEW ok, NEW acc, NEW g, NEW d,
         NEW u, u = Answered(t, c, ok, acc, g, d)
  PROVE  Grown(u, t) /\ (c.s \in Sessions => Heard(u, c.s))
<1>1. NoSession \notin Sessions
  BY DEF Constants, NoSession
<1>2. CASE Foreign(c)
  <2>1. c.cb \in CommonCbs /\ c.s \notin Sessions
    BY <1>1, <1>2 DEF Foreign
  <2>2. c.cb = "tripsQueried" => u = TripsQueried(t, c, acc)
    BY DEF Answered
  <2>3. c.cb = "tripsRestarted" => u = TripsRestarted(t, c, ok)
    BY DEF Answered
  <2>4. c.cb = "tripsReset" => u = TripsReset(t, ok)
    BY DEF Answered
  <2> QED
    BY <2>1, <2>2, <2>3, <2>4, TripsQueriedGrows, TripsRestartedGrows, TripsResetGrows
       DEF CommonCbs
<1>3. CASE ~Foreign(c)
  <2>1. c.cb \in {"started", "stopped"} \cup TripCbs
    BY <1>3 DEF CallFormed, OwnFormed, StartFormed, StopFormed, TripFormed
  <2>2. c.cb = "started" => u = Started(t, c, ok)
    BY DEF Answered
  <2>3. c.cb = "stopped" => u = Stopped(t, c, ok, g)
    BY DEF Answered
  <2>4. c.cb = "tripStarted" => u = TripStarted(t, c, ok)
    BY DEF Answered
  <2>5. c.cb = "tripQueried" => u = TripQueried(t, c, ok, acc)
    BY DEF Answered
  <2>6. c.cb = "tripRestarted" => u = Telling(t, c.s)
    BY DEF Answered
  <2>7. c.cb = "tripStopped" => u = TripStopped(t, c, ok, d)
    BY DEF Answered
  <2> QED
    BY <2>1, <2>2, <2>3, <2>4, <2>5, <2>6, <2>7, StartedGrows, StoppedGrows, TripStartedGrows,
       TripQueriedGrows, TellingGrows, TripStoppedGrows DEF TripCbs
<1> QED  BY <1>2, <1>3

\* A command: the start of a session whose client is there calls the modem.
LEMMA ExecuteGrows ==
  ASSUME NEW t, t = st, IsTables(t), IsSequence(t.calls), NEW m, NEW drop,
         m.k \in {"start", "update", "stop"}, NEW u, u = Execute(m.k, m.call.s, m.call.o, drop)
  PROVE  /\ Grown(u, t)
         /\ m.k = "start" /\ Owner[m.call.s] \in subscribers => Heard(u, m.call.s)
<1> DEFINE s == m.call.s
           o == m.call.o
<1>1. Grown(t, t)
  BY GrownOnce
<1>2. CASE m.k = "start"
  <2>1. u = IF Owner[s] \in subscribers THEN Start(t, s, o) ELSE t
    BY <1>2 DEF Execute
  <2> QED  BY <1>1, <2>1, StartGrows
<1>3. CASE m.k = "update"
  <2>1. \/ u = t
        \/ u = StopTrip(t, s, TRUE, o, drop)
        \/ u = StopBatching(t, s, TRUE, o)
    BY <1>3 DEF Execute
  <2>2. Grown(StopTrip(t, s, TRUE, o, drop), t) /\ Grown(StopBatching(t, s, TRUE, o), t)
    BY StopTripGrows, StopBatchingGrows
  <2> QED  BY <1>1, <1>3, <2>1, <2>2
<1>4. CASE m.k = "stop"
  <2>1. \/ u = t
        \/ u = StopTrip(t, s, FALSE, NoOptions, drop)
        \/ u = StopBatching(t, s, FALSE, NoOptions)
    BY <1>4 DEF Execute
  <2>2. /\ Grown(StopTrip(t, s, FALSE, NoOptions, drop), t)
        /\ Grown(StopBatching(t, s, FALSE, NoOptions), t)
    BY StopTripGrows, StopBatchingGrows
  <2> QED  BY <1>1, <1>4, <2>1, <2>2
<1> QED  BY <1>2, <1>3, <1>4

\* A client goes.
LEMMA AllStoppedGrows ==
  ASSUME IsTables(st), IsSequence(st.calls), NEW ids, Len(ids) \in Nat, NEW drops,
         NEW f, f = AllStopped(ids, drops)
  PROVE  Grown(f[Len(ids)], st)
<1> DEFINE n == Len(ids)
           T == {i \in 0 .. n : ~Grown(f[i], st)}
<1>1. f[0] = st /\ \A i \in 1 .. n : f[i] = StopSaved(f[i - 1], ids[i], drops[i])
  BY AllStoppedFacts
<1>2. Grown(f[0], st)
  BY <1>1, GrownOnce
<1>3. ASSUME NEW i \in 1 .. n, Grown(f[i - 1], st)
      PROVE  Grown(f[i], st)
  <2>1. IsTables(f[i - 1]) /\ IsSequence(f[i - 1].calls)
    BY <1>3 DEF Grown
  <2>2. \/ f[i] = StopTrip(f[i - 1], ids[i], FALSE, NoOptions, drops[i])
        \/ f[i] = StopBatching(f[i - 1], ids[i], FALSE, NoOptions)
    BY <1>1 DEF StopSaved
  <2>a. PICK t : t = f[i - 1]
    OBVIOUS
  <2>b. /\ Grown(StopTrip(t, ids[i], FALSE, NoOptions, drops[i]), t)
        /\ Grown(StopBatching(t, ids[i], FALSE, NoOptions), t)
    BY <2>1, <2>a, StopTripGrows, StopBatchingGrows
  <2>3. Grown(f[i], f[i - 1])
    BY <2>2, <2>a, <2>b
  <2> QED  BY <1>3, <2>3, GrownTwice
<1>4. T = {}
  <2> SUFFICES ASSUME T # {} PROVE FALSE
    OBVIOUS
  <2>1. T \subseteq Nat
    OBVIOUS
  <2> HIDE DEF T
  <2>2. PICK m \in T : \A y \in T : m <= y
    BY <2>1, LeastNatural
  <2>3. m \in 0 .. n /\ ~Grown(f[m], st)
    BY <2>2 DEF T
  <2>4. m # 0
    BY <1>2, <2>3
  <2>5. m \in 1 .. n /\ m - 1 \in 0 .. n /\ ~(m <= m - 1)
    BY <2>3, <2>4
  <2>6. Grown(f[m - 1], st)
    BY <2>2, <2>5 DEF T
  <2> QED  BY <1>3, <2>3, <2>5, <2>6
<1> QED  BY <1>4

-----------------------------------------------------------------------------
\* A start that waits for its answer has something under way, and its client does not ask
\* for more meanwhile.
Due(s) == s \in awaiting /\ Owner[s] \in subscribers
NoMore(q, s) == \A i \in DOMAIN q : q[i].call.s = s => q[i].k \notin {"update", "stop"}
Answering(t, q, s) == ~Idle(t, q, s) /\ NoMore(q, s) /\ NoMore(pendingMsgs, s)
AnswerInv == awaiting \subseteq started /\ \A s \in Sessions : Due(s) => Answering(st, inbox, s)

\* Nobody waits in the initial state.
LEMMA AnswerInvStarts ==
  ASSUME BatchingInit
  PROVE  AnswerInv
BY DEF BatchingInit, AnswerInv, Due

\* With nothing under way nobody waits for an answer.
LEMMA AnswerInvAnswers ==
  ASSUME BatchInvNow, AnswerInv
  PROVE  StartsAnswered
<1> SUFFICES ASSUME Quiet, NEW s \in awaiting
             PROVE  Owner[s] \notin subscribers
  BY DEF StartsAnswered
<1>1. IsSequence(st.calls) /\ IsSequence(inbox) /\ IsSequence(pendingMsgs) /\ started \subseteq Sessions
  BY DEF BatchInvNow, BatchInv, Formed, Surroundings
<1>2. /\ Len(st.calls) \in Nat /\ Len(inbox) \in Nat /\ Len(pendingMsgs) \in Nat
      /\ DOMAIN st.calls = 1 .. Len(st.calls) /\ DOMAIN inbox = 1 .. Len(inbox)
      /\ DOMAIN pendingMsgs = 1 .. Len(pendingMsgs)
  BY <1>1, SequenceFacts
<1>3. Len(st.calls) = 0 /\ Len(inbox) = 0 /\ Len(pendingMsgs) = 0
  BY <1>2 DEF Quiet, Underway
<1>4. DOMAIN st.calls = {} /\ DOMAIN inbox = {} /\ DOMAIN pendingMsgs = {}
  BY <1>2, <1>3
<1> QED  BY <1>1, <1>4 DEF AnswerInv, Due, Answering, Idle

\* A message is handled.
LEMMA HandledAnswers ==
  ASSUME Constants, BatchInvNow, AnswerInv, inbox # <<>>, NEW m, m = Head(inbox),
         NEW u, Grown(u, st), m.call.s \in Sessions /\ Due(m.call.s) => Heard(u, m.call.s),
         Becomes(u), inbox' = Tail(inbox), UNCHANGED <<pendingMsgs, subscribers, started>>
  PROVE  AnswerInv'
<1>1. PICK p : p = inbox'
  OBVIOUS
<1>2. Shorter(p, inbox)
  BY <1>1, TailFacts DEF BatchInvNow, BatchInv, Formed
<1>3. /\ 1 \in DOMAIN inbox /\ m = inbox[1]
      /\ \A k \in DOMAIN p : k + 1 \in DOMAIN inbox /\ p[k] = inbox[k + 1]
      /\ \A k \in DOMAIN inbox : k # 1 => k - 1 \in DOMAIN p /\ inbox[k] = p[k - 1]
  BY <1>2 DEF Shorter
<1>4. IsTables(u)
  BY DEF Grown
<1>5. st'.calls = u.calls /\ awaiting' = awaiting \ u.told
  BY <1>4 DEF Becomes, IsTables
<1>6. ASSUME NEW s \in Sessions, Due(s)'
      PROVE  Answering(st, inbox, s)'
  <2>1. Due(s) /\ s \notin u.told /\ Answering(st, inbox, s)
    BY <1>5, <1>6 DEF Due, AnswerInv
  <2>2. NoMore(p, s) /\ NoMore(pendingMsgs, s)
    BY <1>3, <2>1 DEF Answering, NoMore
  <2>3. CASE \E k \in DOMAIN st.calls : Of(st.calls[k], s)
    <3>1. \E k \in DOMAIN u.calls : Of(u.calls[k], s)
      BY <2>3 DEF Grown
    <3> QED  BY <1>1, <1>5, <2>2, <3>1 DEF Answering, NoMore, Idle, Of
  <2>4. CASE \E k \in DOMAIN inbox : inbox[k].call.s = s
    <3>1. PICK k \in DOMAIN inbox : inbox[k].call.s = s
      BY <2>4
    <3>2. CASE k = 1
      <4>1. \E j \in DOMAIN u.calls : Of(u.calls[j], s)
        BY <1>3, <2>1, <3>1, <3>2 DEF Heard
      <4> QED  BY <1>1, <1>5, <2>2, <4>1 DEF Answering, NoMore, Idle, Of
    <3>3. CASE k # 1
      <4>1. \E j \in DOMAIN p : p[j].call.s = s
        BY <1>3, <3>1, <3>3
      <4> QED  BY <1>1, <1>5, <2>2, <4>1 DEF Answering, NoMore, Idle
    <3> QED  BY <3>2, <3>3
  <2>5. CASE \E k \in DOMAIN pendingMsgs : pendingMsgs[k].call.s = s
    BY <1>1, <2>2, <2>5 DEF Answering, NoMore, Idle
  <2> QED  BY <2>1, <2>3, <2>4, <2>5 DEF Answering, Idle
<1>7. (awaiting \subseteq started)'
  BY <1>5 DEF AnswerInv
<1> QED  BY <1>6, <1>7 DEF AnswerInv

\* The adapter handles an answer: whoever waits is told, or something is asked again.
LEMMA HandleAnswerAnswers ==
  ASSUME Constants, BatchInvNow, AnswerInv, HandleAnswer
  PROVE  AnswerInv'
<1> DEFINE m == Head(inbox)
           c == m.call
<1>1. PICK g, d : Becomes(Answered(st, c, m.ok, m.acc, g, d))
  BY DEF HandleAnswer
<1>2. inbox # <<>> /\ m.k = "answer" /\ c.cb # "engineUp"
  BY DEF HandleAnswer, Received
<1>3. Shorter(Tail(inbox), inbox)
  BY <1>2, TailFacts DEF BatchInvNow, BatchInv, Formed
<1>4. MessageFormed(st, m)
  BY <1>3 DEF Shorter, BatchInvNow, BatchInv, Formed
<1>5. CallFormed(st, c) /\ c.cb # "ignore"
  BY <1>2, <1>4 DEF MessageFormed, CommandFormed
<1>6. PICK u : u = Answered(st, c, m.ok, m.acc, g, d)
  OBVIOUS
<1>7. PICK t : t = st
  OBVIOUS
<1>8. IsTables(t) /\ IsSequence(t.calls)
  BY <1>7 DEF BatchInvNow, BatchInv, Formed
<1>9. Grown(u, t) /\ (c.s \in Sessions => Heard(u, c.s))
  <2> HIDE DEF c, m
  <2> QED  BY <1>2, <1>5, <1>6, <1>7, <1>8, AnsweredGrows
<1>10. Becomes(u) /\ inbox' = Tail(inbox) /\ UNCHANGED <<pendingMsgs, subscribers, started>>
  BY <1>1, <1>6 DEF HandleAnswer
<1> QED  BY <1>2, <1>7, <1>9, <1>10, HandledAnswers

\* The end of the modem's trip is about no session.
LEMMA HandleCompletedAnswers ==
  ASSUME Constants, BatchInvNow, AnswerInv, HandleCompleted
  PROVE  AnswerInv'
<1>1. PICK d : Becomes(Complete(st, Head(inbox).acc, d))
  BY DEF HandleCompleted
<1>2. PICK m : m = Head(inbox)
  OBVIOUS
<1>3. inbox # <<>> /\ m.k = "completed"
  BY <1>2 DEF HandleCompleted, Received
<1>4. Shorter(Tail(inbox), inbox)
  BY <1>3, TailFacts DEF BatchInvNow, BatchInv, Formed
<1>5. MessageFormed(st, m)
  BY <1>2, <1>4 DEF Shorter, BatchInvNow, BatchInv, Formed
<1>6. m.call.s \notin Sessions
  BY <1>3, <1>5 DEF MessageFormed, CommandFormed, Constants, NoSession
<1>7. PICK u : u = Complete(st, Head(inbox).acc, d)
  OBVIOUS
<1>8. Grown(u, st)
  BY <1>7, CompleteGrows DEF BatchInvNow, BatchInv, Formed
<1>9. Becomes(u) /\ inbox' = Tail(inbox) /\ UNCHANGED <<pendingMsgs, subscribers, started>>
  BY <1>1, <1>7 DEF HandleCompleted
<1> QED  BY <1>2, <1>3, <1>6, <1>8, <1>9, HandledAnswers

\* A command is executed, or kept until the engine is known.
LEMMA HandleCommandAnswers ==
  ASSUME Constants, BatchInvNow, AnswerInv, HandleCommand
  PROVE  AnswerInv'
<1>1. PICK m : m = Head(inbox)
  OBVIOUS
<1>2. /\ inbox # <<>> /\ m.k \in {"start", "update", "stop"} /\ Handle(m) /\ inbox' = Tail(inbox)
      /\ UNCHANGED <<known, subscribers, started>>
  BY <1>1 DEF HandleCommand
<1>3. PICK p : p = Tail(inbox)
  OBVIOUS
<1>4. Shorter(p, inbox)
  BY <1>2, <1>3, TailFacts DEF BatchInvNow, BatchInv, Formed
<1>5. /\ 1 \in DOMAIN inbox /\ m = inbox[1]
      /\ \A k \in DOMAIN p : k + 1 \in DOMAIN inbox /\ p[k] = inbox[k + 1]
      /\ \A k \in DOMAIN inbox : k # 1 => k - 1 \in DOMAIN p /\ inbox[k] = p[k - 1]
  BY <1>1, <1>4 DEF Shorter
<1>6. m.call.s \in Sessions /\ Due(m.call.s) => m.k = "start" /\ Owner[m.call.s] \in subscribers
  BY <1>2, <1>5 DEF AnswerInv, Answering, NoMore, Due
<1>7. CASE known
  <2>1. PICK drop : Becomes(Execute(m.k, m.call.s, m.call.o, drop))
    BY <1>2, <1>7 DEF Handle
  <2>2. PICK u : u = Execute(m.k, m.call.s, m.call.o, drop)
    OBVIOUS
  <2>3. PICK t : t = st
    OBVIOUS
  <2>4. IsTables(t) /\ IsSequence(t.calls)
    BY <2>3 DEF BatchInvNow, BatchInv, Formed
  <2>5. Grown(u, t) /\ (m.k = "start" /\ Owner[m.call.s] \in subscribers => Heard(u, m.call.s))
    BY <1>2, <2>2, <2>3, <2>4, ExecuteGrows
  <2>6. UNCHANGED pendingMsgs
    BY <1>2, <1>7 DEF Handle
  <2> QED  BY <1>1, <1>2, <1>6, <2>1, <2>2, <2>3, <2>5, <2>6, HandledAnswers
\* It waits for the engine.
<1>8. CASE ~known
  <2>1. pendingMsgs' = Append(pendingMsgs, m) /\ UNCHANGED <<st, awaiting>>
    BY <1>2, <1>8 DEF Handle
  <2>2. PICK w : w = pendingMsgs'
    OBVIOUS
  <2>3. Longer(w, pendingMsgs, m)
    BY <2>1, <2>2, AppendFacts DEF BatchInvNow, Surroundings
  <2>4. /\ \A k \in DOMAIN w : w[k] = m \/ (k \in DOMAIN pendingMsgs /\ w[k] = pendingMsgs[k])
        /\ \A k \in DOMAIN pendingMsgs : k \in DOMAIN w /\ w[k] = pendingMsgs[k]
        /\ \E k \in DOMAIN w : w[k] = m
    BY <2>3 DEF Longer
  <2>5. ASSUME NEW s \in Sessions, Due(s)'
        PROVE  Answering(st, inbox, s)'
    <3>1. Due(s) /\ Answering(st, inbox, s)
      BY <1>2, <2>1, <2>5 DEF Due, AnswerInv
    <3>2. NoMore(p, s) /\ NoMore(w, s)
      BY <1>5, <2>4, <3>1 DEF Answering, NoMore
    <3>3. \/ \E k \in DOMAIN st.calls : Of(st.calls[k], s)
          \/ \E k \in DOMAIN p : p[k].call.s = s
          \/ \E k \in DOMAIN w : w[k].call.s = s
      <4>1. CASE \E k \in DOMAIN inbox : inbox[k].call.s = s
        BY <1>5, <2>4, <4>1
      <4>2. CASE ~\E k \in DOMAIN inbox : inbox[k].call.s = s
        BY <2>4, <3>1, <4>2 DEF Answering, Idle
      <4> QED  BY <4>1, <4>2
    <3> QED  BY <1>2, <1>3, <2>1, <2>2, <3>2, <3>3 DEF Answering, NoMore, Idle, Of
  <2> QED  BY <1>2, <2>1, <2>5 DEF AnswerInv
<1> QED  BY <1>7, <1>8

\* A client sends a command, when it waits for no answer.
LEMMA SendAnswers ==
  ASSUME Constants, BatchInvNow, Calm, AnswerInv, NEW kind, NEW x \in Sessions, NEW o, Send(kind, x, o),
         \/ kind = "start" /\ started' = started \cup {x} /\ awaiting' = awaiting \cup {x}
         \/ UNCHANGED <<started, awaiting>>
  PROVE  AnswerInv'
<1>1. PICK m : m = Command(kind, x, o)
  OBVIOUS
<1>2. m.k = kind /\ m.call.s = x
  BY <1>1 DEF Command, Call
<1>3. PICK p : p = inbox'
  OBVIOUS
<1>4. p = Append(inbox, m) /\ UNCHANGED <<st, pendingMsgs, subscribers>>
  BY <1>1, <1>3 DEF Send
<1>5. Longer(p, inbox, m)
  BY <1>4, AppendFacts DEF BatchInvNow, BatchInv, Formed
<1>6. /\ \A k \in DOMAIN p : p[k] = m \/ (k \in DOMAIN inbox /\ p[k] = inbox[k])
      /\ \A k \in DOMAIN inbox : k \in DOMAIN p /\ p[k] = inbox[k]
      /\ \E k \in DOMAIN p : p[k] = m
  BY <1>5 DEF Longer
<1>7. Idle(st, inbox, x) /\ \A k \in DOMAIN pendingMsgs : pendingMsgs[k].call.s # x
  BY DEF Send, Calm, Pending, Idle, Of
<1>8. ASSUME NEW s \in Sessions, Due(s)'
      PROVE  Answering(st, inbox, s)'
  <2>1. CASE s = x
    <3>1. ~Due(s)
      BY <1>7, <2>1 DEF AnswerInv, Answering
    <3>2. kind = "start"
      BY <1>4, <1>8, <3>1 DEF Due
    <3>3. NoMore(p, s) /\ NoMore(pendingMsgs, s)
      BY <1>2, <1>6, <1>7, <2>1, <3>2 DEF NoMore, Idle
    <3>4. \E k \in DOMAIN p : p[k].call.s = s
      BY <1>2, <1>6, <2>1
    <3> QED  BY <1>3, <1>4, <3>3, <3>4 DEF Answering, NoMore, Idle
  <2>2. CASE s # x
    <3>1. Due(s) /\ Answering(st, inbox, s)
      BY <1>4, <1>8, <2>2 DEF Due, AnswerInv
    <3>2. NoMore(p, s) /\ NoMore(pendingMsgs, s)
      BY <1>2, <1>6, <2>2, <3>1 DEF Answering, NoMore
    <3>3. \/ \E k \in DOMAIN st.calls : Of(st.calls[k], s)
          \/ \E k \in DOMAIN p : p[k].call.s = s
          \/ \E k \in DOMAIN pendingMsgs : pendingMsgs[k].call.s = s
      BY <1>6, <3>1 DEF Answering, Idle
    <3> QED  BY <1>3, <1>4, <3>2, <3>3 DEF Answering, NoMore, Idle, Of
  <2> QED  BY <2>1, <2>2
<1> QED  BY <1>8 DEF AnswerInv

\* A client goes: its sessions are stopped, and it waits no more.
LEMMA RemoveClientAnswers ==
  ASSUME Constants, BatchInvNow, AnswerInv, NEW c, RemoveClient(c)
  PROVE  AnswerInv'
<1> DEFINE S == {s \in Batches(st) : Owner[s] = c}
<1>0. PICK mine \in InOrder(S) : \E drops \in [DOMAIN mine -> Flags] :
        Becomes([AllStopped(mine, drops)[Len(mine)] EXCEPT
                   !.full = AutoCount(AllStopped(mine, drops)[Len(mine)]) > 0])
  BY DEF RemoveClient
<1>1. PICK drops \in [DOMAIN mine -> Flags] :
        Becomes([AllStopped(mine, drops)[Len(mine)] EXCEPT
                   !.full = AutoCount(AllStopped(mine, drops)[Len(mine)]) > 0])
  BY <1>0
<1>2. PICK f : f = AllStopped(mine, drops)
  OBVIOUS
<1>3. PICK t : t = f[Len(mine)]
  OBVIOUS
<1>4. Len(mine) \in Nat
  <2>1. IsFiniteSet(S)
    BY FS_Subset DEF Batches, Constants
  <2>2. Cardinality(S) \in Nat /\ mine \in [1 .. Cardinality(S) -> S]
    BY <2>1, InOrderFacts
  <2>3. mine \in Seq(S)
    BY <2>2
  <2> QED  BY <2>3
<1> HIDE DEF S
<1>5. Grown(t, st)
  BY <1>2, <1>3, <1>4, AllStoppedGrows DEF BatchInvNow, BatchInv, Formed
<1>6. PICK u : u = [t EXCEPT !.full = AutoCount(t) > 0]
  OBVIOUS
<1>7. u.calls = t.calls /\ u.told = t.told /\ IsTables(u)
  BY <1>5, <1>6 DEF Grown, IsTables
<1>8. st' = [u EXCEPT !.told = {}] /\ awaiting' = awaiting \ u.told
  BY <1>1, <1>2, <1>3, <1>6 DEF Becomes
<1>9. st'.calls = t.calls
  BY <1>7, <1>8 DEF IsTables
<1>10. UNCHANGED <<pendingMsgs, inbox, started>> /\ subscribers' \subseteq subscribers
  BY DEF RemoveClient
<1>11. ASSUME NEW s \in Sessions, Due(s)'
       PROVE  Answering(st, inbox, s)'
  <2>1. Answering(st, inbox, s)
    BY <1>8, <1>10, <1>11 DEF Due, AnswerInv
  <2>2. (\E k \in DOMAIN st.calls : Of(st.calls[k], s)) => \E k \in DOMAIN t.calls : Of(t.calls[k], s)
    BY <1>5 DEF Grown
  <2> QED  BY <1>9, <1>10, <2>1, <2>2 DEF Answering, NoMore, Idle, Of
<1> QED  BY <1>8, <1>10, <1>11 DEF AnswerInv

\* The adapter hears that the modem is up: the commands it kept join its queue.
LEMMA HandleEngineUpAnswers ==
  ASSUME Constants, BatchInvNow, AnswerInv, HandleEngineUp
  PROVE  AnswerInv'
<1>1. PICK t : t = st
  OBVIOUS
<1>2. PICK ids \in InOrder(Restartable(t)) : Becomes(RestartSessions(t, ids))
  BY <1>1 DEF HandleEngineUp
<1>3. PICK w : w = RestartSessions(t, ids)
  OBVIOUS
<1>4. IsTables(t) /\ IsSequence(t.calls) /\ IsSequence(inbox) /\ IsSequence(pendingMsgs)
  BY <1>1 DEF BatchInvNow, BatchInv, Formed, Surroundings
<1>5. Restarted(w, t)
  BY <1>3, <1>4, RestartedFacts
<1>6. st'.calls = w.calls /\ awaiting' \subseteq awaiting
  BY <1>2, <1>3, <1>5 DEF Becomes, Restarted, IsTables
<1>7. /\ inbox # <<>> /\ Head(inbox).k = "answer" /\ Head(inbox).call.cb = "engineUp"
      /\ inbox' = Tail(inbox) \o pendingMsgs /\ pendingMsgs' = <<>> /\ UNCHANGED <<subscribers, started>>
  BY DEF HandleEngineUp, Received
<1>8. PICK r : r = Tail(inbox)
  OBVIOUS
<1>9. PICK p : p = inbox'
  OBVIOUS
<1>10. Shorter(r, inbox)
  BY <1>4, <1>7, <1>8, TailFacts
<1>11. Joined(p, r, pendingMsgs)
  BY <1>4, <1>7, <1>8, <1>9, <1>10, JoinFacts DEF Shorter
<1>12. /\ 1 \in DOMAIN inbox /\ Head(inbox) = inbox[1]
       /\ \A k \in DOMAIN r : k + 1 \in DOMAIN inbox /\ r[k] = inbox[k + 1]
       /\ \A k \in DOMAIN inbox : k # 1 => k - 1 \in DOMAIN r /\ inbox[k] = r[k - 1]
  BY <1>10 DEF Shorter
<1>13. inbox[1].call.s \notin Sessions
  <2>1. MessageFormed(st, inbox[1])
    BY <1>12 DEF BatchInvNow, BatchInv, Formed
  <2> QED
    BY <1>7, <1>12, <2>1
       DEF MessageFormed, CommandFormed, CallFormed, Foreign, CommonCbs, OwnFormed, StartFormed,
           StopFormed, TripFormed, TripCbs, Constants, NoSession
<1>14. /\ \A k \in DOMAIN r : k \in DOMAIN p /\ p[k] = r[k]
       /\ \A k \in DOMAIN pendingMsgs : \E j \in DOMAIN p : p[j] = pendingMsgs[k]
       /\ \A j \in DOMAIN p : \/ j \in DOMAIN r /\ p[j] = r[j]
                              \/ \E k \in DOMAIN pendingMsgs : p[j] = pendingMsgs[k]
  <2>1. PICK n : n = Len(r)
    OBVIOUS
  <2>2. PICK o : o = Len(pendingMsgs)
    OBVIOUS
  <2>3. /\ n \in Nat /\ o \in Nat /\ DOMAIN r = 1 .. n /\ DOMAIN pendingMsgs = 1 .. o
        /\ DOMAIN p = 1 .. n + o /\ \A k \in DOMAIN r : p[k] = r[k]
        /\ \A k \in DOMAIN pendingMsgs : p[n + k] = pendingMsgs[k]
    BY <1>11, <2>1, <2>2 DEF Joined
  <2>4. \A k \in DOMAIN pendingMsgs : n + k \in DOMAIN p
    BY <2>3
  <2>5. ASSUME NEW j \in DOMAIN p, j \notin DOMAIN r
        PROVE  \E k \in DOMAIN pendingMsgs : p[j] = pendingMsgs[k]
    <3>1. j - n \in DOMAIN pendingMsgs /\ n + (j - n) = j
      BY <2>3, <2>5
    <3> QED  BY <2>3, <3>1
  <2>6. \A k \in DOMAIN r : k \in DOMAIN p
    BY <2>3
  <2> QED  BY <2>3, <2>4, <2>5, <2>6
<1>15. ASSUME NEW s \in Sessions, Due(s)'
       PROVE  Answering(st, inbox, s)'
  <2>1. Answering(t, inbox, s)
    BY <1>1, <1>6, <1>7, <1>15 DEF Due, AnswerInv
  <2>2. NoMore(p, s)
    BY <1>12, <1>14, <2>1 DEF Answering, NoMore
  <2>3. DOMAIN pendingMsgs' = {}
    BY <1>7
  <2>4. \/ \E k \in DOMAIN w.calls : Of(w.calls[k], s)
        \/ \E k \in DOMAIN p : p[k].call.s = s
    <3>1. CASE \E k \in DOMAIN t.calls : Of(t.calls[k], s)
      BY <1>5, <3>1 DEF Restarted
    <3>2. CASE \E k \in DOMAIN inbox : inbox[k].call.s = s
      <4>1. PICK k \in DOMAIN inbox : inbox[k].call.s = s
        BY <3>2
      <4>2. k # 1
        BY <1>13, <4>1
      <4>3. k - 1 \in DOMAIN p /\ p[k - 1].call.s = s
        BY <1>12, <1>14, <4>1, <4>2
      <4> QED  BY <4>3
    <3>3. CASE \E k \in DOMAIN pendingMsgs : pendingMsgs[k].call.s = s
      BY <1>14, <3>3
    <3> QED  BY <2>1, <3>1, <3>2, <3>3 DEF Answering, Idle
  <2> QED  BY <1>6, <1>9, <2>2, <2>3, <2>4 DEF Answering, NoMore, Idle, Of
<1> QED  BY <1>6, <1>7, <1>15 DEF AnswerInv

\* The modem takes a call, and posts the answer if the call has one.
LEMMA PostAnswers ==
  ASSUME BatchInvNow, AnswerInv, NEW ops, NextCall(ops), NEW ok, NEW acc, Post(ok, acc), ModemOnly
  PROVE  AnswerInv'
<1>1. PICK c : c = Head(st.calls)
  OBVIOUS
<1>2. PICK r : r = Tail(st.calls)
  OBVIOUS
<1>3. IsTables(st) /\ IsSequence(st.calls) /\ IsSequence(inbox) /\ st.calls # <<>>
  BY DEF BatchInvNow, BatchInv, Formed, NextCall
<1>4. Shorter(r, st.calls)
  BY <1>2, <1>3, TailFacts
<1>5. st'.calls = r
  BY <1>2, <1>3 DEF NextCall, IsTables
<1>6. PICK p : p = inbox'
  OBVIOUS
<1>7. PICK m : m = Answer(c, ok, acc)
  OBVIOUS
<1>8. m.k = "answer" /\ m.call = c
  BY <1>7 DEF Answer
<1>9. (c.cb = "ignore" /\ p = inbox) \/ (c.cb # "ignore" /\ p = Append(inbox, m))
  BY <1>1, <1>6, <1>7 DEF Post
<1>10. /\ \A k \in DOMAIN p : p[k] = m \/ (k \in DOMAIN inbox /\ p[k] = inbox[k])
       /\ \A k \in DOMAIN inbox : k \in DOMAIN p /\ p[k] = inbox[k]
       /\ c.cb # "ignore" => \E k \in DOMAIN p : p[k] = m
  <2>1. CASE c.cb = "ignore"
    BY <1>9, <2>1
  <2>2. CASE c.cb # "ignore"
    <3>1. Longer(p, inbox, m)
      BY <1>3, <1>9, <2>2, AppendFacts
    <3> QED  BY <3>1 DEF Longer
  <2> QED  BY <2>1, <2>2
<1>11. \A k \in DOMAIN st.calls : st.calls[k] = c \/ (k - 1 \in DOMAIN r /\ st.calls[k] = r[k - 1])
  BY <1>1, <1>4 DEF Shorter
<1>12. UNCHANGED <<pendingMsgs, subscribers, started, awaiting>>
  BY DEF ModemOnly
<1>13. ASSUME NEW s \in Sessions, Due(s)'
       PROVE  Answering(st, inbox, s)'
  <2>1. Answering(st, inbox, s)
    BY <1>12, <1>13 DEF Due, AnswerInv
  <2>2. NoMore(p, s) /\ NoMore(pendingMsgs, s)
    BY <1>8, <1>10, <2>1 DEF Answering, NoMore
  <2>3. \/ \E k \in DOMAIN r : Of(r[k], s)
        \/ \E k \in DOMAIN p : p[k].call.s = s
        \/ \E k \in DOMAIN pendingMsgs : pendingMsgs[k].call.s = s
    <3>1. CASE \E k \in DOMAIN st.calls : Of(st.calls[k], s)
      <4>1. PICK k \in DOMAIN st.calls : Of(st.calls[k], s)
        BY <3>1
      <4>2. CASE st.calls[k] = c
        BY <1>8, <1>10, <4>1, <4>2 DEF Of
      <4>3. CASE st.calls[k] # c
        BY <1>11, <4>1, <4>3
      <4> QED  BY <4>2, <4>3
    <3>2. CASE ~\E k \in DOMAIN st.calls : Of(st.calls[k], s)
      BY <1>10, <2>1, <3>2 DEF Answering, Idle
    <3> QED  BY <3>1, <3>2
  <2> QED  BY <1>5, <1>6, <1>12, <2>2, <2>3 DEF Answering, NoMore, Idle, Of
<1> QED  BY <1>12, <1>13 DEF AnswerInv

\* The modem goes down: the calls that wait stay, to be refused.
LEMMA ModemDownAnswers ==
  ASSUME BatchInvNow, AnswerInv, ModemDown
  PROVE  AnswerInv'
<1>1. IsTables(st) /\ IsSequence(st.calls)
  BY DEF BatchInvNow, BatchInv, Formed
<1>2. PICK r : r = Append(st.calls, OpenCall)
  OBVIOUS
<1>3. st'.calls = r
  BY <1>1, <1>2 DEF ModemDown, IsTables
<1>4. Longer(r, st.calls, OpenCall)
  BY <1>1, <1>2, AppendFacts
<1>5. \A k \in DOMAIN st.calls : k \in DOMAIN r /\ r[k] = st.calls[k]
  BY <1>4 DEF Longer
<1>6. UNCHANGED <<pendingMsgs, subscribers, started, awaiting, inbox>>
  BY DEF ModemDown
<1>7. ASSUME NEW s \in Sessions, Due(s)'
      PROVE  Answering(st, inbox, s)'
  <2>1. Answering(st, inbox, s)
    BY <1>6, <1>7 DEF Due, AnswerInv
  <2> QED  BY <1>3, <1>5, <1>6, <2>1 DEF Answering, NoMore, Idle, Of
<1> QED  BY <1>6, <1>7 DEF AnswerInv

\* The device moves.
LEMMA TripMovesAnswers ==
  ASSUME Constants, BatchInvNow, AnswerInv, TripMoves
  PROVE  AnswerInv'
<1>1. PICK p : p = inbox'
  OBVIOUS
<1>2. PICK m : m = Completed(engine.acc + 1)
  OBVIOUS
<1>3. m.k = "completed"
  BY <1>2 DEF Completed
<1>4. p = inbox \/ p = Append(inbox, m)
  BY <1>1, <1>2 DEF TripMoves
<1>5. IsSequence(inbox)
  BY DEF BatchInvNow, BatchInv, Formed
<1>6. /\ \A k \in DOMAIN p : p[k] = m \/ (k \in DOMAIN inbox /\ p[k] = inbox[k])
      /\ \A k \in DOMAIN inbox : k \in DOMAIN p /\ p[k] = inbox[k]
  <2>1. CASE p = inbox
    BY <2>1
  <2>2. CASE p = Append(inbox, m)
    <3>1. Longer(p, inbox, m)
      BY <1>5, <2>2, AppendFacts
    <3> QED  BY <3>1 DEF Longer
  <2> QED  BY <1>4, <2>1, <2>2
<1>7. UNCHANGED <<st, pendingMsgs, subscribers, started, awaiting>>
  BY DEF TripMoves
<1>8. ASSUME NEW s \in Sessions, Due(s)'
      PROVE  Answering(st, inbox, s)'
  <2>1. Answering(st, inbox, s)
    BY <1>7, <1>8 DEF Due, AnswerInv
  <2>2. NoMore(p, s) /\ NoMore(pendingMsgs, s)
    BY <1>3, <1>6, <2>1 DEF Answering, NoMore
  <2> QED  BY <1>1, <1>6, <1>7, <2>1, <2>2 DEF Answering, NoMore, Idle, Of
<1> QED  BY <1>7, <1>8 DEF AnswerInv

\* It holds when nothing changes.
LEMMA AnswerInvStutters ==
  ASSUME AnswerInv, UNCHANGED batchingVars
  PROVE  AnswerInv'
BY DEF batchingVars, AnswerInv, Due, Answering, NoMore, Idle, Of

\* Every step keeps it, as BatchInv holds.
LEMMA AnswerInvSteps ==
  ASSUME Constants, Calm, BatchInvNow, AnswerInv, [BatchingNext]_batchingVars
  PROVE  AnswerInv'
<1>1. ASSUME NEW s \in Sessions,
             \/ \E o \in Options : StartBatchingCommand(s, o) \/ UpdateBatchingOptionsCommand(s, o)
             \/ StopBatchingCommand(s)
      PROVE  AnswerInv'
  <2>1. PICK kind, o :
          /\ Send(kind, s, o)
          /\ \/ kind = "start" /\ started' = started \cup {s} /\ awaiting' = awaiting \cup {s}
             \/ UNCHANGED <<started, awaiting>>
    BY <1>1 DEF StartBatchingCommand, UpdateBatchingOptionsCommand, StopBatchingCommand
  <2> QED  BY <2>1, SendAnswers
<1>2. ASSUME NEW c \in Subscribers, RemoveClient(c)
      PROVE  AnswerInv'
  BY <1>2, RemoveClientAnswers
<1>3. CASE HandleAnswer
  BY <1>3, HandleAnswerAnswers
<1>4. CASE HandleCompleted
  BY <1>4, HandleCompletedAnswers
<1>5. CASE HandleCommand
  BY <1>5, HandleCommandAnswers
<1>6. CASE HandleEngineUp
  BY <1>6, HandleEngineUpAnswers
<1>7. CASE ModemBatch \/ ModemTrip \/ ModemQuery \/ ModemRefuses \/ ModemOpens
  <2>1. PICK ops, ok, acc : NextCall(ops) /\ Post(ok, acc) /\ ModemOnly
    BY <1>7 DEF ModemBatch, ModemTrip, ModemQuery, ModemRefuses, ModemOpens
  <2> QED  BY <2>1, PostAnswers
<1>8. CASE TripMoves
  BY <1>8, TripMovesAnswers
<1>9. CASE ModemDown
  BY <1>9, ModemDownAnswers
<1>10. CASE UNCHANGED batchingVars
  BY <1>10, AnswerInvStutters
<1> QED
  BY <1>1, <1>2, <1>3, <1>4, <1>5, <1>6, <1>7, <1>8, <1>9, <1>10 DEF BatchingNext

\* Every start that was taken is answered (StartsAnswered): once nothing is under way, nobody
\* whose client is still there waits, whatever updates, trips and a restart of the modem came
\* between the start and its answer.
THEOREM StartsAlwaysAnswered ==
  ASSUME Constants, Calm
  PROVE  BatchingSpec => []StartsAnswered
<1>1. BatchingInit => BatchInvNow /\ AnswerInv
  BY BatchInvStarts, AnswerInvStarts
<1>2. BatchInvNow /\ AnswerInv /\ [BatchingNext]_batchingVars => BatchInvNow' /\ AnswerInv'
  BY BatchInvSteps, AnswerInvSteps
<1>3. BatchInvNow /\ AnswerInv => StartsAnswered
  BY AnswerInvAnswers
<1> QED  BY <1>1, <1>2, <1>3, PTL DEF BatchingSpec
=============================================================================
