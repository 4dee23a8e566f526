---------------------------- MODULE AdaptersProofs ----------------------------
(***************************************************************************)
(* Proofs about GeofenceAdapter and Ntrip, for all sets of clients,        *)
(* geofences, requests and sources and any number of restarts.             *)
(*                                                                         *)
(* Geofences.  The adapter's messages and LocApi's calls are one sequence, *)
(* from which a step takes the first and to which it adds at the end.  In  *)
(* it an id is added once, behind all that drop it, and a geofence of a    *)
(* request has no result exactly while it has an item there.  The tables   *)
(* lag behind the modem by the messages: there is a view of them behind    *)
(* each message, from the present one to what the modem runs, and every    *)
(* message that is handled makes the next view the present one.            *)
(*                                                                         *)
(* NTRIP.                                                                  *)
(* That the daemon reads what it was asked for last needs no more than the *)
(* daemon: it reads that, or nothing while it is down or a request for the *)
(* status waits.  That this is the source it should read needs the bits:   *)
(* the stream runs only for an enabled source and a session, a stream that *)
(* could run and does not waits for an answer of the modem or a restart of *)
(* the sessions, and the bit that nothing is pending means, of a source    *)
(* that wants the position, that a sentence of the session was made.       *)
(***************************************************************************)
EXTENDS GeofenceAdapter, Ntrip, FiniteSetTheorems, SequenceTheorems, TLAPS

-----------------------------------------------------------------------------
(***************************************************************************)
(* Everything under way, in one sequence: the adapter's messages, which    *)
(* are ahead, and LocApi's calls.                                          *)
(***************************************************************************)
Item(call, live) == [call |-> call, live |-> live]

Pipe(ms, cs) ==
  [j \in 1 .. Len(ms) + Len(cs) |->
     IF j <= Len(ms) THEN Item(ms[j].call, ms[j].ok) ELSE Item(cs[j - Len(ms)], TRUE)]

\* A call that was made keeps all but the hardware id, and may fail.
Same(y, x) ==
  /\ y.call.op = x.call.op /\ y.call.fence = x.call.fence /\ y.call.cb = x.call.cb
  /\ y.call.r = x.call.r /\ y.call.i = x.call.i
  /\ y.live => x.live

Pends(x) == x.call.cb \in {"turn", "done"}

\* q is p from its item `first` on, in the same order, and then the new calls; what
\* is left out is nothing that a request waits for.
Embeds(p, q, new, first, m, n, e) ==
  /\ m \in Nat /\ DOMAIN p = 1 .. m
  /\ n \in Nat /\ e \in [1 .. n -> first .. m]
  /\ DOMAIN q = 1 .. n + Len(new)
  /\ \A i, j \in 1 .. n : i < j => e[i] < e[j]
  /\ \A j \in 1 .. n : Same(q[j], p[e[j]])
  /\ \A j \in 1 .. Len(new) : q[n + j] = Item(new[j], TRUE)
  /\ \A j \in first .. m : Pends(p[j]) => \E i \in 1 .. n : e[i] = j

Follows(p, q, new, first) == \E m, n, e : Embeds(p, q, new, first, m, n, e)

Messages == [ok : BOOLEAN, call : Calls]

LEMMA ConcatFacts ==
  ASSUME NEW S, NEW q \in Seq(S), NEW r \in Seq(S)
  PROVE  /\ q \o r \in Seq(S) /\ Len(q \o r) = Len(q) + Len(r)
         /\ Len(q) \in Nat /\ Len(r) \in Nat
         /\ \A j \in 1 .. Len(q) : (q \o r)[j] = q[j]
         /\ \A j \in 1 .. Len(r) : (q \o r)[Len(q) + j] = r[j]
<1>1. \A j \in 1 .. Len(r) : Len(q) + j \in 1 .. Len(q) + Len(r)
                              /\ ~(Len(q) + j <= Len(q)) /\ (Len(q) + j) - Len(q) = j
  OBVIOUS
<1> QED  BY <1>1, ConcatProperties

LEMMA TailFacts ==
  ASSUME NEW S, NEW q \in Seq(S), q # <<>>
  PROVE  /\ Tail(q) \in Seq(S) /\ Len(Tail(q)) = Len(q) - 1 /\ Len(q) \in Nat /\ Len(q) >= 1
         /\ Head(q) = q[1] /\ q[1] \in S
         /\ \A j \in 1 .. Len(q) - 1 : Tail(q)[j] = q[j + 1]
OBVIOUS

LEMMA PipeType ==
  ASSUME NEW ms \in Seq(Messages), NEW cs \in Seq(Calls)
  PROVE  /\ DOMAIN Pipe(ms, cs) = 1 .. Len(ms) + Len(cs)
         /\ Len(ms) \in Nat /\ Len(cs) \in Nat
         /\ \A j \in 1 .. Len(ms) : Pipe(ms, cs)[j] = Item(ms[j].call, ms[j].ok)
         /\ \A j \in 1 .. Len(cs) : Pipe(ms, cs)[Len(ms) + j] = Item(cs[j], TRUE)
<1>1. Len(ms) \in Nat /\ Len(cs) \in Nat
  OBVIOUS
<1> DEFINE n == Len(ms)
           l == Len(cs)
<1>2. DOMAIN Pipe(ms, cs) = 1 .. n + l
  BY DEF Pipe
<1>3. ASSUME NEW j \in 1 .. l PROVE Pipe(ms, cs)[n + j] = Item(cs[j], TRUE)
  <2>1. n + j \in 1 .. n + l /\ ~(n + j <= n) /\ (n + j) - n = j
    <3> HIDE DEF n, l
    <3> QED  BY <1>1, <1>3 DEF n, l
  <2> QED  BY <2>1 DEF Pipe
<1>4. ASSUME NEW j \in 1 .. n PROVE Pipe(ms, cs)[j] = Item(ms[j].call, ms[j].ok)
  <2>1. j \in 1 .. n + l /\ j <= n
    <3> HIDE DEF n, l
    <3> QED  BY <1>1, <1>4 DEF n, l
  <2> QED  BY <2>1 DEF Pipe
<1> QED  BY <1>1, <1>2, <1>3, <1>4

LEMMA SameItem == \A x : Same(x, x)
BY DEF Same

\* A place of a pipe is one of the messages or one of the calls.
LEMMA PipePlaces ==
  ASSUME NEW a \in Nat, NEW b \in Nat, NEW j \in 1 .. a + b
  PROVE  j \in 1 .. a \/ \E k \in 1 .. b : j = a + k
<1>1. CASE j > a
  <2>1. j - a \in 1 .. b /\ j = a + (j - a)
    BY <1>1
  <2> QED  BY <2>1
<1> QED  BY <1>1

\* Calls are added at the end.
LEMMA PipeGrows ==
  ASSUME NEW ms \in Seq(Messages), NEW cs \in Seq(Calls), NEW new \in Seq(Calls)
  PROVE  Follows(Pipe(ms, cs), Pipe(ms, cs \o new), new, 1)
<1> DEFINE p == Pipe(ms, cs)
           q == Pipe(ms, cs \o new)
           a == Len(ms)
           b == Len(cs)
           c == Len(new)
           n == a + b
           e == [j \in 1 .. n |-> j]
<1>1. /\ DOMAIN p = 1 .. n /\ a \in Nat /\ b \in Nat /\ c \in Nat
      /\ \A j \in 1 .. a : p[j] = Item(ms[j].call, ms[j].ok)
      /\ \A j \in 1 .. b : p[a + j] = Item(cs[j], TRUE)
  BY PipeType
<1>2. /\ cs \o new \in Seq(Calls) /\ Len(cs \o new) = b + c
      /\ \A j \in 1 .. b : (cs \o new)[j] = cs[j]
      /\ \A j \in 1 .. c : (cs \o new)[b + j] = new[j]
  BY ConcatFacts
<1>3. /\ DOMAIN q = 1 .. a + (b + c)
      /\ \A j \in 1 .. a : q[j] = Item(ms[j].call, ms[j].ok)
      /\ \A j \in 1 .. b + c : q[a + j] = Item((cs \o new)[j], TRUE)
  BY <1>2, PipeType
<1>4. e \in [1 .. n -> 1 .. n] /\ \A j \in 1 .. n : e[j] = j
  OBVIOUS
<1> HIDE DEF p, q, a, b, c, e
<1>5. \A j \in 1 .. n : q[j] = p[j]
  <2>1. \A k \in 1 .. b : k \in 1 .. b + c
    BY <1>1
  <2>2. ASSUME NEW j \in 1 .. n PROVE j \in 1 .. a \/ \E k \in 1 .. b : j = a + k
    BY <1>1, PipePlaces
  <2>3. ASSUME NEW j \in 1 .. a PROVE q[j] = p[j]
    BY <1>1, <1>3
  <2>4. ASSUME NEW k \in 1 .. b PROVE q[a + k] = p[a + k]
    BY <1>1, <1>2, <1>3, <2>1
  <2> QED  BY <2>2, <2>3, <2>4
<1>6. \A j \in 1 .. c : q[n + j] = Item(new[j], TRUE)
  <2>1. \A j \in 1 .. c : b + j \in 1 .. b + c /\ n + j = a + (b + j)
    BY <1>1
  <2> QED  BY <1>2, <1>3, <2>1
<1>7. n \in Nat /\ 1 .. n + c = 1 .. a + (b + c)
  BY <1>1
<1> HIDE DEF n
<1>8. Embeds(p, q, new, 1, n, n, e)
  BY <1>1, <1>3, <1>4, <1>5, <1>6, <1>7, SameItem DEF Embeds, c
<1> QED  BY <1>8 DEF Follows, p, q

\* The adapter takes the message at the head, and makes calls.
LEMMA PipeTakes ==
  ASSUME NEW ms \in Seq(Messages), NEW cs \in Seq(Calls), NEW new \in Seq(Calls), ms # <<>>
  PROVE  Follows(Pipe(ms, cs), Pipe(Tail(ms), cs \o new), new, 2)
<1> DEFINE p == Pipe(ms, cs)
           q == Pipe(Tail(ms), cs \o new)
           a == Len(ms)
           b == Len(cs)
           c == Len(new)
           m == a + b
           n == (a - 1) + b
           e == [j \in 1 .. n |-> j + 1]
<1>1. /\ DOMAIN p = 1 .. m /\ a \in Nat /\ b \in Nat /\ c \in Nat
      /\ \A j \in 1 .. a : p[j] = Item(ms[j].call, ms[j].ok)
      /\ \A j \in 1 .. b : p[a + j] = Item(cs[j], TRUE)
  BY PipeType
<1>2. /\ cs \o new \in Seq(Calls) /\ Len(cs \o new) = b + c
      /\ \A j \in 1 .. b : (cs \o new)[j] = cs[j]
      /\ \A j \in 1 .. c : (cs \o new)[b + j] = new[j]
  BY ConcatFacts
<1>3. /\ Tail(ms) \in Seq(Messages) /\ Len(Tail(ms)) = a - 1 /\ a >= 1
      /\ \A j \in 1 .. a - 1 : Tail(ms)[j] = ms[j + 1]
  BY TailFacts
<1>4. /\ DOMAIN q = 1 .. (a - 1) + (b + c)
      /\ \A j \in 1 .. a - 1 : q[j] = Item(Tail(ms)[j].call, Tail(ms)[j].ok)
      /\ \A j \in 1 .. b + c : q[(a - 1) + j] = Item((cs \o new)[j], TRUE)
  <2> DEFINE t == Tail(ms)
             d == cs \o new
  <2>1. t \in Seq(Messages) /\ d \in Seq(Calls) /\ Len(t) = a - 1 /\ Len(d) = b + c
    BY <1>2, <1>3
  <2> HIDE DEF t, d, a, b, c
  <2>2. /\ DOMAIN Pipe(t, d) = 1 .. Len(t) + Len(d)
        /\ \A j \in 1 .. Len(t) : Pipe(t, d)[j] = Item(t[j].call, t[j].ok)
        /\ \A j \in 1 .. Len(d) : Pipe(t, d)[Len(t) + j] = Item(d[j], TRUE)
    BY <2>1, PipeType
  <2> QED  BY <2>1, <2>2 DEF t, d
<1>5. \A j \in 1 .. n : e[j] = j + 1
  OBVIOUS
<1>6. e \in [1 .. n -> 2 .. m]
  <2>1. \A j \in 1 .. n : j + 1 \in 2 .. m
    <3> HIDE DEF a, b
    <3> QED  BY <1>1, <1>3
  <2> QED  BY <2>1
<1> HIDE DEF p, q, a, b, c, e
<1>7. \A j \in 1 .. n : q[j] = p[j + 1]
  <2>1. \A k \in 1 .. b : k \in 1 .. b + c /\ ((a - 1) + k) + 1 = a + k
    BY <1>1
  <2>2. a - 1 \in Nat /\ \A k \in 1 .. a - 1 : k + 1 \in 1 .. a
    BY <1>1, <1>3
  <2>3. ASSUME NEW j \in 1 .. n PROVE j \in 1 .. a - 1 \/ \E k \in 1 .. b : j = (a - 1) + k
    BY <1>1, <2>2, <2>3, PipePlaces
  <2>4. ASSUME NEW j \in 1 .. a - 1 PROVE q[j] = p[j + 1]
    BY <1>1, <1>3, <1>4, <2>2, <2>4
  <2>5. ASSUME NEW k \in 1 .. b PROVE q[(a - 1) + k] = p[((a - 1) + k) + 1]
    BY <1>1, <1>2, <1>4, <2>1, <2>5, ZenonT(40)
  <2> QED  BY <2>3, <2>4, <2>5
<1>8. \A j \in 1 .. c : q[n + j] = Item(new[j], TRUE)
  <2>1. \A j \in 1 .. c : b + j \in 1 .. b + c /\ n + j = (a - 1) + (b + j)
    BY <1>1
  <2> QED  BY <1>2, <1>4, <2>1
<1>9. /\ m \in Nat /\ n \in Nat /\ 1 .. n + c = 1 .. (a - 1) + (b + c)
      /\ \A j \in 2 .. m : j - 1 \in 1 .. n /\ (j - 1) + 1 = j
  BY <1>1, <1>3
<1> HIDE DEF m, n
<1>10. \A i, j \in 1 .. n : i < j => e[i] < e[j]
  BY <1>5, <1>9
<1>11. \A j \in 2 .. m : \E i \in 1 .. n : e[i] = j
  BY <1>5, <1>9
<1>12. \A j \in 1 .. n : Same(q[j], p[e[j]])
  BY <1>5, <1>7, SameItem
<1>13. Embeds(p, q, new, 2, m, n, e)
  BY <1>1, <1>4, <1>6, <1>8, <1>9, <1>10, <1>11, <1>12 DEF Embeds, c
<1> QED  BY <1>13 DEF Follows, p, q
\* A call is made, and its answer sent.
LEMMA PipePosts ==
  ASSUME NEW ms \in Seq(Messages), NEW cs \in Seq(Calls), cs # <<>>,
         NEW x \in Messages, Same(Item(x.call, x.ok), Item(Head(cs), TRUE))
  PROVE  Follows(Pipe(ms, cs), Pipe(Append(ms, x), Tail(cs)), <<>>, 1)
<1> DEFINE t == Append(ms, x)
           d == Tail(cs)
           p == Pipe(ms, cs)
           q == Pipe(t, d)
           a == Len(ms)
           b == Len(cs)
           n == a + b
           e == [j \in 1 .. n |-> j]
<1>1. /\ DOMAIN p = 1 .. n /\ a \in Nat /\ b \in Nat
      /\ \A j \in 1 .. a : p[j] = Item(ms[j].call, ms[j].ok)
      /\ \A j \in 1 .. b : p[a + j] = Item(cs[j], TRUE)
  BY PipeType
<1>2. /\ d \in Seq(Calls) /\ Len(d) = b - 1 /\ b >= 1 /\ Head(cs) = cs[1]
      /\ \A j \in 1 .. b - 1 : d[j] = cs[j + 1]
  BY TailFacts
<1>3. /\ t \in Seq(Messages) /\ Len(t) = a + 1 /\ t[a + 1] = x
      /\ \A j \in 1 .. a : t[j] = ms[j]
  OBVIOUS
<1>4. \A j \in 1 .. n : e[j] = j
  OBVIOUS
<1>5. e \in [1 .. n -> 1 .. n]
  OBVIOUS
<1> HIDE DEF p, a, b, e, t, d
<1>6. /\ DOMAIN q = 1 .. Len(t) + Len(d)
      /\ \A j \in 1 .. Len(t) : q[j] = Item(t[j].call, t[j].ok)
      /\ \A j \in 1 .. Len(d) : q[Len(t) + j] = Item(d[j], TRUE)
  BY <1>2, <1>3, PipeType
<1> HIDE DEF q
<1>7. DOMAIN q = 1 .. n /\ n \in Nat
  <2>1. (a + 1) + (b - 1) = n
    BY <1>1
  <2> QED  BY <1>1, <1>2, <1>3, <1>6, <2>1
<1>8. \A j \in 1 .. n : Same(q[j], p[j])
  <2>1. ASSUME NEW j \in 1 .. n PROVE j \in 1 .. a \/ \E k \in 1 .. b : j = a + k
    BY <1>1, PipePlaces
  <2>2. ASSUME NEW j \in 1 .. a PROVE Same(q[j], p[j])
    <3>1. j \in 1 .. a + 1
      BY <1>1
    <3> QED  BY <1>1, <1>3, <1>6, <3>1, SameItem
  <2>3. ASSUME NEW k \in 1 .. b PROVE Same(q[a + k], p[a + k])
    <3>1. CASE k = 1
      <4>1. a + 1 \in 1 .. a + 1 /\ 1 \in 1 .. b
        BY <1>1, <1>2
      <4> QED  BY <1>1, <1>2, <1>3, <1>6, <3>1, <4>1
    <3>2. CASE k # 1
      <4>1. k - 1 \in 1 .. b - 1 /\ (a + 1) + (k - 1) = a + k /\ (k - 1) + 1 = k
        BY <1>1, <3>2
      <4>2. q[(a + 1) + (k - 1)] = Item(d[k - 1], TRUE) /\ d[k - 1] = cs[(k - 1) + 1]
        BY <1>2, <1>3, <1>6, <4>1
      <4>3. q[a + k] = p[a + k]
        BY <1>1, <4>1, <4>2
      <4> QED  BY <4>3, SameItem
    <3> QED  BY <3>1, <3>2
  <2> QED  BY <2>1, <2>2, <2>3
<1> HIDE DEF n
<1>9. \A j \in 1 .. n : Same(q[j], p[e[j]])
  BY <1>4, <1>8
<1>10. \A i, j \in 1 .. n : i < j => e[i] < e[j]
  BY <1>4
<1>11. \A j \in 1 .. n : \E i \in 1 .. n : e[i] = j
  BY <1>4
<1>12. Len(<<>>) = 0 /\ n + 0 = n /\ 1 .. 0 = {}
  BY <1>7
<1>13. Embeds(p, q, <<>>, 1, n, n, e)
  BY <1>1, <1>5, <1>7, <1>9, <1>10, <1>11, <1>12 DEF Embeds
<1> QED  BY <1>13 DEF Follows, p, q, t, d

\* A call is made whose answer nobody wants.
LEMMA PipeIgnores ==
  ASSUME NEW ms \in Seq(Messages), NEW cs \in Seq(Calls), cs # <<>>, Head(cs).cb = "ignore"
  PROVE  Follows(Pipe(ms, cs), Pipe(ms, Tail(cs)), <<>>, 1)
<1> DEFINE d == Tail(cs)
           p == Pipe(ms, cs)
           q == Pipe(ms, d)
           a == Len(ms)
           b == Len(cs)
           m == a + b
           n == a + (b - 1)
           e == [j \in 1 .. n |-> IF j <= a THEN j ELSE j + 1]
<1>1. /\ DOMAIN p = 1 .. m /\ a \in Nat /\ b \in Nat
      /\ \A j \in 1 .. a : p[j] = Item(ms[j].call, ms[j].ok)
      /\ \A j \in 1 .. b : p[a + j] = Item(cs[j], TRUE)
  BY PipeType
<1>2. /\ d \in Seq(Calls) /\ Len(d) = b - 1 /\ b >= 1 /\ Head(cs) = cs[1]
      /\ \A j \in 1 .. b - 1 : d[j] = cs[j + 1]
  BY TailFacts
<1>3. \A j \in 1 .. n : e[j] = IF j <= a THEN j ELSE j + 1
  OBVIOUS
<1>4. e \in [1 .. n -> 1 .. m]
  <2>1. \A j \in 1 .. n : (IF j <= a THEN j ELSE j + 1) \in 1 .. m
    <3> HIDE DEF a, b
    <3> QED  BY <1>1, <1>2
  <2> QED  BY <2>1
<1> HIDE DEF p, a, b, e, d
<1>5. /\ DOMAIN q = 1 .. a + Len(d)
      /\ \A j \in 1 .. a : q[j] = Item(ms[j].call, ms[j].ok)
      /\ \A j \in 1 .. Len(d) : q[a + j] = Item(d[j], TRUE)
  BY <1>2, PipeType DEF a
<1> HIDE DEF q
<1>6. \A j \in 1 .. n : Same(q[j], p[e[j]])
  <2>1. ASSUME NEW j \in 1 .. n PROVE j \in 1 .. a \/ \E k \in 1 .. b - 1 : j = a + k
    <3>1. b - 1 \in Nat
      BY <1>1, <1>2
    <3> QED  BY <1>1, <3>1, PipePlaces
  <2>2. ASSUME NEW j \in 1 .. n, j \in 1 .. a PROVE Same(q[j], p[e[j]])
    <3>1. e[j] = j
      BY <1>1, <1>3, <2>2
    <3> QED  BY <1>1, <1>5, <2>2, <3>1, SameItem
  <2>3. ASSUME NEW k \in 1 .. b - 1, a + k \in 1 .. n PROVE Same(q[a + k], p[e[a + k]])
    <3>1. ~(a + k <= a) /\ (a + k) + 1 = a + (k + 1) /\ k + 1 \in 1 .. b
      BY <1>1
    <3>2. e[a + k] = a + (k + 1)
      BY <1>3, <2>3, <3>1
    <3>3. q[a + k] = Item(d[k], TRUE) /\ p[a + (k + 1)] = Item(cs[k + 1], TRUE) /\ d[k] = cs[k + 1]
      BY <1>1, <1>2, <1>5, <3>1
    <3> QED  BY <3>2, <3>3, SameItem
  <2> QED  BY <2>1, <2>2, <2>3
<1>7. \A i, j \in 1 .. n : i < j => e[i] < e[j]
  <2> SUFFICES ASSUME NEW i \in 1 .. n, NEW j \in 1 .. n, i < j PROVE e[i] < e[j]
    OBVIOUS
  <2>1. e[i] = (IF i <= a THEN i ELSE i + 1) /\ e[j] = IF j <= a THEN j ELSE j + 1
    BY <1>3
  <2> HIDE DEF n
  <2>2. i \in Int /\ j \in Int
    <3>1. \A k \in 1 .. n : k \in Int
      OBVIOUS
    <3> QED  BY <3>1
  <2> QED  BY <1>1, <2>1, <2>2
<1>8. \A j \in 1 .. m : Pends(p[j]) => \E i \in 1 .. n : e[i] = j
  <2> SUFFICES ASSUME NEW j \in 1 .. m, Pends(p[j]) PROVE \E i \in 1 .. n : e[i] = j
    OBVIOUS
  <2>1. p[a + 1] = Item(cs[1], TRUE)
    <3>1. 1 \in 1 .. b
      BY <1>1, <1>2
    <3> QED  BY <1>1, <3>1
  <2>2. j # a + 1
    BY <1>2, <2>1 DEF Pends, Item
  <2>3. CASE j <= a
    <3>1. j \in 1 .. n /\ e[j] = j
      BY <1>1, <1>2, <1>3, <2>3
    <3> QED  BY <3>1
  <2>4. CASE j > a
    <3>1. j - 1 \in 1 .. n /\ ~(j - 1 <= a) /\ (j - 1) + 1 = j
      BY <1>1, <1>2, <2>2, <2>4
    <3>2. e[j - 1] = j
      BY <1>3, <3>1
    <3> QED  BY <3>1, <3>2
  <2> QED  BY <1>1, <2>3, <2>4
<1>9. m \in Nat /\ n \in Nat /\ n + 0 = n /\ 1 .. 0 = {}
  BY <1>1, <1>2
<1>10. DOMAIN q = 1 .. n
  BY <1>2, <1>5
<1> HIDE DEF m, n
<1>11. Embeds(p, q, <<>>, 1, m, n, e)
  <2>1. Len(<<>>) = 0
    OBVIOUS
  <2> QED  BY <1>1, <1>4, <1>6, <1>7, <1>8, <1>9, <1>10, <2>1 DEF Embeds
<1> QED  BY <1>11 DEF Follows, p, q, d

-----------------------------------------------------------------------------
(***************************************************************************)
(* What holds of everything under way, as a sequence of items p, with the  *)
(* requests rq, the table gf, the ids us and the map im.                   *)
(***************************************************************************)
\* The id that an item will add, if any.
AddOf(rq, x) ==
  IF x.call.cb = "turn"
  THEN IF rq[x.call.r].kind = "add" THEN rq[x.call.r].ids[x.call.i] ELSE None
  ELSE IF x.live /\ x.call.op = "add" THEN x.call.fence.id ELSE None

Drops(x, id) == x.call.cb = "drop" /\ x.call.fence.id = id

\* An id is added once: it is on its way in one item, or in one place of the table.
Tokens(p, rq, gf, us) ==
  /\ \A j, k \in DOMAIN p :
       AddOf(rq, p[j]) # None /\ AddOf(rq, p[k]) = AddOf(rq, p[j]) => j = k
  /\ \A j \in DOMAIN p, hw \in HwIds :
       AddOf(rq, p[j]) # None => gf[hw].id # AddOf(rq, p[j])
  /\ \A h1, h2 \in HwIds : gf[h1].id # None /\ gf[h2].id = gf[h1].id => h1 = h2
  /\ \A j \in DOMAIN p : AddOf(rq, p[j]) \in us \cup {None}
  /\ \A hw \in HwIds : gf[hw].id \in us \cup {None}

\* A geofence that is dropped is out of the map, and may come back only behind the drop.
DropsFirst(p, rq, im) ==
  /\ \A j, k \in DOMAIN p :
       AddOf(rq, p[j]) # None /\ Drops(p[k], AddOf(rq, p[j])) => k < j
  /\ \A k \in DOMAIN p, id \in Ids : Drops(p[k], id) => im[id] = None

\* The items of a request keep their order, but that calls are behind turns.
Ordered(j, x, k, y) ==
  Pends(x) /\ Pends(y) /\ x.call.r = y.call.r =>
    /\ x.call.i = y.call.i => j = k
    /\ x.call.i < y.call.i => \/ x.call.cb = "done" /\ y.call.cb = "turn"
                              \/ x.call.cb = y.call.cb /\ j < k

ItemsOrdered(p) == \A j, k \in DOMAIN p : Ordered(j, p[j], k, p[k])

PendsFor(x, r, i) == Pends(x) /\ x.call.r = r /\ x.call.i = i

\* A geofence of a request has no result exactly while its item is under way.
ItemsWait(p, rq) ==
  /\ \A r \in Reqs : \A i \in DOMAIN rq[r].real :
       rq[r].real[i] = "none" => \E j \in DOMAIN p : PendsFor(p[j], r, i)
  /\ \A j \in DOMAIN p : Pends(p[j]) => rq[p[j].call.r].real[p[j].call.i] = "none"

\* Requests keep what they ask for.
SameReqs(rq, rt) ==
  \A r \in Reqs : rq[r] # NoRequest => rt[r].kind = rq[r].kind /\ rt[r].ids = rq[r].ids

Turning(p, rq) ==
  \A j \in DOMAIN p : p[j].call.cb = "turn" => p[j].call.r \in Reqs /\ rq[p[j].call.r] # NoRequest

LEMMA AddKept ==
  ASSUME NEW rq, NEW rt, NEW x, NEW y, SameReqs(rq, rt), Same(y, x),
         x.call.cb = "turn" => x.call.r \in Reqs /\ rq[x.call.r] # NoRequest
  PROVE  AddOf(rt, y) \in {AddOf(rq, x), None}
<1>1. CASE x.call.cb = "turn"
  BY <1>1 DEF AddOf, Same, SameReqs
<1>2. CASE x.call.cb # "turn"
  BY <1>2 DEF AddOf, Same
<1> QED  BY <1>1, <1>2

\* The items of a sequence that follows another are old ones, in order, or new ones.
Placed(p, q, new, first, n, f) ==
  /\ n \in Nat
  /\ \A j \in 1 .. n : /\ f[j] \in DOMAIN p /\ f[j] >= first /\ f[j] \in Nat
                       /\ Same(q[j], p[f[j]])
  /\ \A i, j \in 1 .. n : (i < j <=> f[i] < f[j]) /\ (f[i] = f[j] => i = j)
  /\ \A j \in DOMAIN q : j \in 1 .. n \/ \E k \in 1 .. Len(new) : j = n + k
  /\ \A j \in 1 .. n : j \in DOMAIN q
  /\ \A k \in 1 .. Len(new) : /\ n + k \in DOMAIN q /\ k \in Nat /\ k >= 1
                              /\ q[n + k] = Item(new[k], TRUE)
  /\ \A j \in DOMAIN p : j >= first /\ Pends(p[j]) => \E i \in 1 .. n : f[i] = j

LEMMA FollowFacts ==
  ASSUME NEW p, NEW q, NEW S, NEW new \in Seq(S), NEW first \in {1, 2}, Follows(p, q, new, first)
  PROVE  \E n, f : Placed(p, q, new, first, n, f)
<1>1. PICK m, n, e : Embeds(p, q, new, first, m, n, e)
  BY DEF Follows
<1>2. /\ m \in Nat /\ DOMAIN p = 1 .. m /\ n \in Nat /\ e \in [1 .. n -> first .. m]
      /\ DOMAIN q = 1 .. n + Len(new)
      /\ \A i, j \in 1 .. n : i < j => e[i] < e[j]
      /\ \A j \in 1 .. n : Same(q[j], p[e[j]])
      /\ \A j \in 1 .. Len(new) : q[n + j] = Item(new[j], TRUE)
      /\ \A j \in first .. m : Pends(p[j]) => \E i \in 1 .. n : e[i] = j
  BY <1>1 DEF Embeds
<1> DEFINE c == Len(new)
<1>3. c \in Nat
  OBVIOUS
<1> HIDE DEF c
<1>4. \A j \in 1 .. n : e[j] \in 1 .. m /\ e[j] >= first /\ e[j] \in Nat
  BY <1>2
<1>5. \A i, j \in 1 .. n : (i < j <=> e[i] < e[j]) /\ (e[i] = e[j] => i = j)
  <2> SUFFICES ASSUME NEW i \in 1 .. n, NEW j \in 1 .. n
               PROVE  (i < j <=> e[i] < e[j]) /\ (e[i] = e[j] => i = j)
    OBVIOUS
  <2>1. (i < j => e[i] < e[j]) /\ (j < i => e[j] < e[i])
    BY <1>2
  <2>2. e[i] \in Nat /\ e[j] \in Nat
    BY <1>4
  <2> QED  BY <1>2, <2>1, <2>2
<1>6. \A j \in 1 .. n + c : j \in 1 .. n \/ \E k \in 1 .. c : j = n + k
  BY <1>2, <1>3, PipePlaces
<1>7. (\A j \in 1 .. n : j \in 1 .. n + c) /\ \A k \in 1 .. c : n + k \in 1 .. n + c /\ k \in Nat /\ k >= 1
  BY <1>2, <1>3
<1>8. \A j \in 1 .. m : j >= first => j \in first .. m
  BY <1>2
<1>9. DOMAIN q = 1 .. n + c /\ \A j \in 1 .. c : q[n + j] = Item(new[j], TRUE)
  BY <1>2 DEF c
<1>10. /\ \A j \in 1 .. n : /\ e[j] \in DOMAIN p /\ e[j] >= first /\ e[j] \in Nat
                            /\ Same(q[j], p[e[j]])
       /\ \A i, j \in 1 .. n : (i < j <=> e[i] < e[j]) /\ (e[i] = e[j] => i = j)
       /\ \A j \in DOMAIN q : j \in 1 .. n \/ \E k \in 1 .. c : j = n + k
       /\ \A j \in 1 .. n : j \in DOMAIN q
       /\ \A k \in 1 .. c : n + k \in DOMAIN q /\ k \in Nat /\ k >= 1 /\ q[n + k] = Item(new[k], TRUE)
       /\ \A j \in DOMAIN p : j >= first /\ Pends(p[j]) => \E i \in 1 .. n : e[i] = j
  <2>1. /\ \A j \in 1 .. n : /\ e[j] \in DOMAIN p /\ e[j] >= first /\ e[j] \in Nat
                             /\ Same(q[j], p[e[j]])
        /\ \A j \in DOMAIN p : j >= first /\ Pends(p[j]) => \E i \in 1 .. n : e[i] = j
    BY <1>2, <1>4, <1>8
  <2> QED  BY <1>5, <1>6, <1>7, <1>9, <2>1
<1>11. Placed(p, q, new, first, n, e)
  BY <1>2, <1>10 DEF Placed, c
<1> QED  BY <1>11

\* What new items and a changed table must not do.
NewAdds(p, rq, rt, gt, ut, new, first) ==
  \A i \in 1 .. Len(new) :
    LET a == AddOf(rt, Item(new[i], TRUE))
    IN a # None =>
         /\ a \in ut
         /\ \A k \in 1 .. Len(new) : AddOf(rt, Item(new[k], TRUE)) = a => k = i
         /\ \A hw \in HwIds : gt[hw].id # a
         /\ \A j \in DOMAIN p : j >= first => AddOf(rq, p[j]) # a

NewFences(p, rq, gt, ut, first) ==
  \A hw \in HwIds : gt[hw].id # None =>
    /\ gt[hw].id \in ut
    /\ \A h2 \in HwIds : gt[h2].id = gt[hw].id => h2 = hw
    /\ \A j \in DOMAIN p : j >= first => AddOf(rq, p[j]) # gt[hw].id

LEMMA TokensKept ==
  ASSUME NEW p, NEW q, NEW S, NEW new \in Seq(S), NEW first \in {1, 2}, Follows(p, q, new, first),
         NEW rq, NEW rt, NEW gf, NEW gt, NEW us, NEW ut,
         SameReqs(rq, rt), Turning(p, rq), Tokens(p, rq, gf, us), us \subseteq ut,
         NewAdds(p, rq, rt, gt, ut, new, first), NewFences(p, rq, gt, ut, first)
  PROVE  Tokens(q, rt, gt, ut)
<1>1. PICK n, f : Placed(p, q, new, first, n, f)
  BY FollowFacts
<1> USE DEF Placed
<1>2. ASSUME NEW j \in 1 .. n, AddOf(rt, q[j]) # None
      PROVE  AddOf(rt, q[j]) = AddOf(rq, p[f[j]]) /\ f[j] \in DOMAIN p /\ f[j] >= first
  <2>1. f[j] \in DOMAIN p /\ f[j] >= first /\ Same(q[j], p[f[j]])
    BY <1>1
  <2>2. AddOf(rt, q[j]) \in {AddOf(rq, p[f[j]]), None}
    BY <2>1, AddKept DEF Turning
  <2> QED  BY <1>2, <2>1, <2>2
<1>3. ASSUME NEW k \in 1 .. Len(new) PROVE AddOf(rt, q[n + k]) = AddOf(rt, Item(new[k], TRUE))
  BY <1>1
<1> DEFINE A(j) == AddOf(rt, q[j])
<1>4. ASSUME NEW j \in DOMAIN q, NEW k \in DOMAIN q, A(j) # None, A(k) = A(j) PROVE j = k
  <2>1. CASE j \in 1 .. n /\ k \in 1 .. n
    <3>1. f[j] = f[k]
      BY <1>2, <1>4, <2>1 DEF Tokens
    <3> QED  BY <1>1, <2>1, <3>1
  <2>2. ASSUME NEW i \in 1 .. Len(new), j = n + i, k \in 1 .. n PROVE FALSE
    BY <1>2, <1>3, <1>4, <2>2 DEF NewAdds
  <2>3. ASSUME NEW i \in 1 .. Len(new), k = n + i, j \in 1 .. n PROVE FALSE
    BY <1>2, <1>3, <1>4, <2>3 DEF NewAdds
  <2>4. ASSUME NEW i \in 1 .. Len(new), j = n + i, NEW l \in 1 .. Len(new), k = n + l PROVE j = k
    BY <1>3, <1>4, <2>4 DEF NewAdds
  <2> QED  BY <1>1, <2>1, <2>2, <2>3, <2>4
<1>5. ASSUME NEW j \in DOMAIN q, NEW hw \in HwIds, A(j) # None PROVE gt[hw].id # A(j)
  <2>1. CASE j \in 1 .. n
    BY <1>2, <1>5, <2>1 DEF NewFences
  <2>2. ASSUME NEW k \in 1 .. Len(new), j = n + k PROVE gt[hw].id # A(j)
    BY <1>3, <1>5, <2>2 DEF NewAdds
  <2> QED  BY <1>1, <2>1, <2>2
<1>6. ASSUME NEW j \in DOMAIN q PROVE A(j) \in ut \cup {None}
  <2>1. CASE j \in 1 .. n
    BY <1>2, <2>1 DEF Tokens
  <2>2. ASSUME NEW k \in 1 .. Len(new), j = n + k PROVE A(j) \in ut \cup {None}
    BY <1>3, <2>2 DEF NewAdds
  <2> QED  BY <1>1, <2>1, <2>2
<1> QED  BY <1>4, <1>5, <1>6 DEF Tokens, NewFences

NewDrops(p, rq, rt, im, it, new, first) ==
  /\ \A k \in 1 .. Len(new), id \in Ids : Drops(Item(new[k], TRUE), id) =>
       /\ it[id] = None
       /\ \A j \in DOMAIN p : j >= first => AddOf(rq, p[j]) # id
       /\ \A i \in 1 .. Len(new) : AddOf(rt, Item(new[i], TRUE)) # id
  /\ \A id \in Ids : it[id] = None \/ im[id] # None
                     \/ \A j \in DOMAIN p : j >= first => ~Drops(p[j], id)

LEMMA DropsKept ==
  ASSUME NEW p, NEW q, NEW S, NEW new \in Seq(S), NEW first \in {1, 2}, Follows(p, q, new, first),
         NEW rq, NEW rt, NEW im, NEW it, NEW us,
         SameReqs(rq, rt), Turning(p, rq), DropsFirst(p, rq, im),
         us \subseteq Ids, \A j \in DOMAIN q : AddOf(rt, q[j]) \in us \cup {None},
         NewDrops(p, rq, rt, im, it, new, first)
  PROVE  DropsFirst(q, rt, it)
<1>1. PICK n, f : Placed(p, q, new, first, n, f)
  BY FollowFacts
<1> USE DEF Placed
<1>2. ASSUME NEW j \in 1 .. n, AddOf(rt, q[j]) # None
      PROVE  AddOf(rt, q[j]) = AddOf(rq, p[f[j]]) /\ f[j] \in DOMAIN p /\ f[j] >= first
  <2>1. f[j] \in DOMAIN p /\ f[j] >= first /\ Same(q[j], p[f[j]])
    BY <1>1
  <2>2. AddOf(rt, q[j]) \in {AddOf(rq, p[f[j]]), None}
    BY <2>1, AddKept DEF Turning
  <2> QED  BY <1>2, <2>1, <2>2
<1>3. ASSUME NEW j \in 1 .. n, NEW id, Drops(q[j], id)
      PROVE  Drops(p[f[j]], id) /\ f[j] \in DOMAIN p /\ f[j] >= first
  BY <1>1, <1>3 DEF Drops, Same
<1>4. ASSUME NEW j \in DOMAIN q, NEW k \in DOMAIN q,
             AddOf(rt, q[j]) # None, Drops(q[k], AddOf(rt, q[j]))
      PROVE  k < j
  <2> DEFINE id == AddOf(rt, q[j])
  <2>1. id \in Ids
    BY <1>4
  <2>2. CASE j \in 1 .. n /\ k \in 1 .. n
    <3>1. f[k] < f[j]
      BY <1>2, <1>3, <1>4, <2>2 DEF DropsFirst
    <3> QED  BY <1>1, <2>2, <3>1
  <2>3. ASSUME NEW i \in 1 .. Len(new), j = n + i, k \in 1 .. n PROVE k < j
    <3>1. i \in Nat /\ i >= 1 /\ n \in Nat
      BY <1>1
    <3>2. k <= n /\ k \in Nat
      BY <2>3, <3>1
    <3> QED  BY <2>3, <3>1, <3>2
  <2>4. ASSUME NEW i \in 1 .. Len(new), k = n + i PROVE FALSE
    <3>1. Drops(Item(new[i], TRUE), id)
      BY <1>1, <1>4, <2>4
    <3>2. CASE j \in 1 .. n
      BY <1>2, <1>4, <2>1, <3>1, <3>2 DEF NewDrops
    <3>3. ASSUME NEW l \in 1 .. Len(new), j = n + l PROVE FALSE
      <4>1. id = AddOf(rt, Item(new[l], TRUE))
        BY <1>1, <3>3
      <4> HIDE DEF id
      <4> QED  BY <2>1, <3>1, <4>1 DEF NewDrops
    <3> QED  BY <1>1, <3>2, <3>3
  <2> QED  BY <1>1, <2>2, <2>3, <2>4
<1>5. ASSUME NEW k \in DOMAIN q, NEW id \in Ids, Drops(q[k], id) PROVE it[id] = None
  <2>1. CASE k \in 1 .. n
    BY <1>3, <1>5, <2>1 DEF NewDrops, DropsFirst
  <2>2. ASSUME NEW i \in 1 .. Len(new), k = n + i PROVE it[id] = None
    <3>1. Drops(Item(new[i], TRUE), id)
      BY <1>1, <1>5, <2>2
    <3> QED  BY <3>1 DEF NewDrops
  <2> QED  BY <1>1, <2>1, <2>2
<1> QED  BY <1>4, <1>5 DEF DropsFirst

NewItems(p, rt, new, first) ==
  /\ \A j \in DOMAIN p, k \in 1 .. Len(new) : j >= first =>
       Ordered(0, p[j], 1, Item(new[k], TRUE)) /\ Ordered(1, Item(new[k], TRUE), 0, p[j])
  /\ \A k, l \in 1 .. Len(new) : Ordered(k, Item(new[k], TRUE), l, Item(new[l], TRUE))
  /\ \A r \in Reqs : \A i \in DOMAIN rt[r].real : rt[r].real[i] = "none" =>
       \/ \E j \in DOMAIN p : j >= first /\ PendsFor(p[j], r, i)
       \/ \E k \in 1 .. Len(new) : PendsFor(Item(new[k], TRUE), r, i)
  /\ \A j \in DOMAIN p : j >= first /\ Pends(p[j]) => rt[p[j].call.r].real[p[j].call.i] = "none"
  /\ \A k \in 1 .. Len(new) :
       Pends(Item(new[k], TRUE)) => rt[new[k].r].real[new[k].i] = "none"

LEMMA SameOrder ==
  ASSUME NEW x, NEW y, NEW v, NEW w, Same(v, x), Same(w, y),
         NEW j, NEW k, NEW a, NEW b, j = k => a = b, j < k => a < b, Ordered(j, x, k, y)
  PROVE  Ordered(a, v, b, w)
BY DEF Ordered, Same, Pends

LEMMA ItemsKept ==
  ASSUME NEW p, NEW q, NEW S, NEW new \in Seq(S), NEW first \in {1, 2}, Follows(p, q, new, first),
         NEW rt, ItemsOrdered(p), NewItems(p, rt, new, first)
  PROVE  ItemsOrdered(q) /\ ItemsWait(q, rt)
<1>1. PICK n, f : Placed(p, q, new, first, n, f)
  BY FollowFacts
<1> USE DEF Placed
<1>2. ASSUME NEW j \in DOMAIN q, NEW k \in DOMAIN q PROVE Ordered(j, q[j], k, q[k])
  <2>1. CASE j \in 1 .. n /\ k \in 1 .. n
    <3>1. Ordered(f[j], p[f[j]], f[k], p[f[k]])
      BY <1>1, <2>1 DEF ItemsOrdered
    <3>2. (f[j] = f[k] => j = k) /\ (f[j] < f[k] => j < k)
      BY <1>1, <2>1
    <3>3. Same(q[j], p[f[j]]) /\ Same(q[k], p[f[k]])
      BY <1>1, <2>1
    <3> QED  BY <3>1, <3>2, <3>3, SameOrder
  <2>2. ASSUME NEW i \in 1 .. Len(new), k = n + i, j \in 1 .. n PROVE Ordered(j, q[j], k, q[k])
    <3>1. Ordered(0, p[f[j]], 1, Item(new[i], TRUE))
      BY <1>1, <2>2 DEF NewItems
    <3>2. Same(q[j], p[f[j]]) /\ Same(q[k], Item(new[i], TRUE))
      BY <1>1, <2>2, SameItem
    <3>3. j < k
      BY <1>1, <2>2
    <3>4. (0 = 1 => j = k) /\ (0 < 1 => j < k)
      BY <3>3
    <3> QED  BY <3>1, <3>2, <3>4, SameOrder
  <2>3. ASSUME NEW i \in 1 .. Len(new), j = n + i, k \in 1 .. n PROVE Ordered(j, q[j], k, q[k])
    <3>1. Ordered(1, Item(new[i], TRUE), 0, p[f[k]])
      BY <1>1, <2>3 DEF NewItems
    <3>2. Same(q[k], p[f[k]]) /\ Same(q[j], Item(new[i], TRUE))
      BY <1>1, <2>3, SameItem
    <3>3. (1 = 0 => j = k) /\ (1 < 0 => j < k)
      OBVIOUS
    <3> QED  BY <3>1, <3>2, <3>3, SameOrder
  <2>4. ASSUME NEW i \in 1 .. Len(new), j = n + i, NEW l \in 1 .. Len(new), k = n + l
        PROVE  Ordered(j, q[j], k, q[k])
    <3>1. Ordered(i, Item(new[i], TRUE), l, Item(new[l], TRUE))
      BY DEF NewItems
    <3>2. q[j] = Item(new[i], TRUE) /\ q[k] = Item(new[l], TRUE)
      BY <1>1, <2>4
    <3>3. i \in Nat /\ l \in Nat /\ n \in Nat
      BY <1>1
    <3>4. (i = l => j = k) /\ (i < l => j < k)
      BY <2>4, <3>3
    <3>5. Same(q[j], Item(new[i], TRUE)) /\ Same(q[k], Item(new[l], TRUE))
      BY <3>2, SameItem
    <3> QED  BY <3>1, <3>4, <3>5, SameOrder
  <2> QED  BY <1>1, <2>1, <2>2, <2>3, <2>4
<1>3. ASSUME NEW r \in Reqs, NEW i \in DOMAIN rt[r].real, rt[r].real[i] = "none"
      PROVE  \E j \in DOMAIN q : PendsFor(q[j], r, i)
  <2>1. ASSUME NEW j \in DOMAIN p, j >= first, PendsFor(p[j], r, i)
        PROVE  \E l \in DOMAIN q : PendsFor(q[l], r, i)
    <3>1. PICK l \in 1 .. n : f[l] = j
      BY <1>1, <2>1 DEF PendsFor
    <3>2. l \in DOMAIN q /\ PendsFor(q[l], r, i)
      BY <1>1, <2>1, <3>1 DEF PendsFor, Pends, Same
    <3> QED  BY <3>2
  <2>2. ASSUME NEW k \in 1 .. Len(new), PendsFor(Item(new[k], TRUE), r, i)
        PROVE  \E l \in DOMAIN q : PendsFor(q[l], r, i)
    <3>1. n + k \in DOMAIN q /\ q[n + k] = Item(new[k], TRUE)
      BY <1>1
    <3> QED  BY <2>2, <3>1
  <2> QED  BY <1>3, <2>1, <2>2 DEF NewItems
<1>4. ASSUME NEW j \in DOMAIN q, Pends(q[j]) PROVE rt[q[j].call.r].real[q[j].call.i] = "none"
  <2>1. CASE j \in 1 .. n
    <3>1. f[j] \in DOMAIN p /\ f[j] >= first /\ Same(q[j], p[f[j]])
      BY <1>1, <2>1
    <3>2. Pends(p[f[j]]) /\ p[f[j]].call.r = q[j].call.r /\ p[f[j]].call.i = q[j].call.i
      BY <1>4, <3>1 DEF Same, Pends
    <3> QED  BY <3>1, <3>2 DEF NewItems
  <2>2. ASSUME NEW k \in 1 .. Len(new), j = n + k
        PROVE  rt[q[j].call.r].real[q[j].call.i] = "none"
    <3>1. q[j] = Item(new[k], TRUE) /\ q[j].call = new[k]
      BY <1>1, <2>2 DEF Item
    <3> QED  BY <1>4, <3>1 DEF NewItems
  <2> QED  BY <1>1, <2>1, <2>2
<1> QED  BY <1>2, <1>3, <1>4 DEF ItemsOrdered, ItemsWait

-----------------------------------------------------------------------------
(***************************************************************************)
(* The state: types, requests, and what goes with each call back.          *)
(***************************************************************************)
P == Pipe(msgs, calls)

StateTypes ==
  /\ clients \subseteq Clients /\ used \subseteq Ids
  /\ geofences \in [HwIds -> Fences \cup {Absent}]
  /\ idMap \in [Ids -> HwIds \cup {None}]
  /\ calls \in Seq(Calls) /\ msgs \in Seq(Messages)
  /\ modem \in [HwIds -> Fences \cup {Absent}]
  /\ modemUp \in BOOLEAN /\ ssrs \in 0 .. MaxSsr

\* A request is answered with its last geofence, but for a resume that failed there.
RequestTrue(q) ==
  /\ q \in Requests
  /\ Len(q.ids) >= 1 /\ Len(q.errs) = Len(q.ids) /\ Len(q.real) = Len(q.ids)
  /\ q.kind \notin Multi => Len(q.ids) = 1
  /\ q.kind = "add" => q.errs = q.real
  /\ q.real[Len(q.ids)] = "none" => q.sent = 0
  /\ q.real[Len(q.ids)] # "none" =>
       q.sent = 1 \/ (q.kind = "resume" /\ q.real[Len(q.ids)] = "failed")

RequestsTrue ==
  /\ reqs \in [Reqs -> Requests \cup {NoRequest}]
  /\ \A r \in Reqs : reqs[r] # NoRequest => RequestTrue(reqs[r])

\* What a call carries for each call back.
CallShape(rq, c) ==
  /\ c.cb \in {"turn", "done"} =>
       c.r \in Reqs /\ rq[c.r] # NoRequest /\ c.i \in DOMAIN rq[c.r].ids
  /\ c.cb = "turn" <=> c.op = "turn"
  /\ c.cb = "done" => /\ c.op = rq[c.r].kind /\ c.op \in Kinds
                      /\ c.fence.id = rq[c.r].ids[c.i] /\ c.fence.opt = rq[c.r].opt
  /\ c.cb = "readd" => c.op = "add"
  /\ c.cb = "drop" => c.op = "remove"
  /\ c.cb = "ignore" => c.op = "pause"
  /\ c.cb = "engineUp" <=> c.op = "open"
  /\ c.op \in Kinds => c.fence.id \in Ids
  /\ c.op = "add" => c.fence \in Fences
  /\ c.op \in Kinds \ {"add"} => c.hw \in HwIds

Shapes ==
  /\ \A j \in DOMAIN calls : CallShape(reqs, calls[j])
  /\ \A j \in DOMAIN msgs :
       /\ CallShape(reqs, msgs[j].call) /\ msgs[j].call.cb # "ignore"
       /\ msgs[j].call.op \in {"turn", "open"} => msgs[j].ok
       /\ msgs[j].ok /\ msgs[j].call.op = "add" => msgs[j].call.hw \in HwIds

Sound ==
  /\ StateTypes /\ RequestsTrue /\ Shapes
  /\ Tokens(P, reqs, geofences, used) /\ DropsFirst(P, reqs, idMap)
  /\ ItemsOrdered(P) /\ ItemsWait(P, reqs)

LEMMA NoneFacts ==
  /\ None \notin Ids /\ None \notin HwIds /\ None \notin Reqs /\ None \notin Opts
  /\ Absent \notin Fences /\ Absent.id = None /\ Absent.opt = None /\ ~Absent.paused
  /\ \A f \in Fences : f.id \in Ids /\ f.id # None /\ f.opt \in Opts /\ f.paused \in BOOLEAN
  /\ \A f \in Fences : [f EXCEPT !.paused = FALSE] \in Fences /\ [f EXCEPT !.paused = TRUE] \in Fences
  /\ \A f \in Fences : \A o \in Opts : [f EXCEPT !.opt = o] \in Fences
  /\ Absent \in [id : Ids \cup {None}, opt : Opts \cup {None}, paused : BOOLEAN]
  /\ \A f \in Fences : f \in [id : Ids \cup {None}, opt : Opts \cup {None}, paused : BOOLEAN]
BY NoneAssumption DEF Absent, Fences

LEMMA CallTypes ==
  ASSUME NEW op \in Kinds \cup {"turn", "open"}, NEW hw \in HwIds \cup {None},
         NEW fence \in Fences \cup {Absent} \cup {[Absent EXCEPT !.id = id] : id \in Ids},
         NEW cb \in {"turn", "done", "readd", "drop", "ignore", "engineUp"},
         NEW r \in Reqs \cup {None}, NEW i \in Nat
  PROVE  /\ Call(op, hw, fence, cb, r, i) \in Calls
         /\ Call(op, hw, fence, cb, r, i).op = op /\ Call(op, hw, fence, cb, r, i).hw = hw
         /\ Call(op, hw, fence, cb, r, i).fence = fence /\ Call(op, hw, fence, cb, r, i).cb = cb
         /\ Call(op, hw, fence, cb, r, i).r = r /\ Call(op, hw, fence, cb, r, i).i = i
<1>1. fence \in [id : Ids \cup {None}, opt : Opts \cup {None}, paused : BOOLEAN]
  <2>1. ASSUME NEW id \in Ids, fence = [Absent EXCEPT !.id = id]
        PROVE  fence \in [id : Ids \cup {None}, opt : Opts \cup {None}, paused : BOOLEAN]
    BY <2>1 DEF Absent
  <2> QED  BY <2>1, NoneFacts
<1> QED  BY <1>1 DEF Call, Calls

\* A call that is added is one more sequence at the end.
LEMMA AppendOne ==
  ASSUME NEW S, NEW q \in Seq(S), NEW x \in S
  PROVE  Append(q, x) = q \o <<x>> /\ <<x>> \in Seq(S) /\ Len(<<x>>) = 1 /\ <<x>>[1] = x
OBVIOUS

LEMMA NoItems ==
  ASSUME NEW S, NEW q \in Seq(S)
  PROVE  q = q \o <<>> /\ <<>> \in Seq(S) /\ Len(<<>>) = 0 /\ 1 .. Len(<<>>) = {}
OBVIOUS

\* The items of the pipe are messages or calls, with their shapes.
LEMMA PipeShapes ==
  ASSUME StateTypes, Shapes
  PROVE  /\ \A j \in DOMAIN P : CallShape(reqs, P[j].call) /\ P[j].call \in Calls /\ j \in Nat /\ j >= 1
         /\ Turning(P, reqs)
<1>0. msgs \in Seq(Messages) /\ calls \in Seq(Calls)
  BY DEF StateTypes
<1>1. /\ DOMAIN P = 1 .. Len(msgs) + Len(calls) /\ Len(msgs) \in Nat /\ Len(calls) \in Nat
      /\ \A j \in 1 .. Len(msgs) : P[j] = Item(msgs[j].call, msgs[j].ok)
      /\ \A j \in 1 .. Len(calls) : P[Len(msgs) + j] = Item(calls[j], TRUE)
  BY PipeType DEF P, StateTypes
<1>2. ASSUME NEW j \in DOMAIN P PROVE CallShape(reqs, P[j].call) /\ P[j].call \in Calls
  <2>1. CASE j \in 1 .. Len(msgs)
    <3>0. P[j] = Item(msgs[j].call, msgs[j].ok)
      BY <1>1, <2>1
    <3>1. P[j].call = msgs[j].call
      BY <3>0 DEF Item
    <3>2. j \in DOMAIN msgs /\ msgs[j] \in Messages
      <4>1. msgs[j] \in Messages
        BY <1>0, <2>1, ElementOfSeq
      <4>2. DOMAIN msgs = 1 .. Len(msgs)
        BY <1>0
      <4> QED  BY <2>1, <4>1, <4>2
    <3> QED  BY <3>1, <3>2 DEF Shapes, Messages
  <2>2. ASSUME NEW k \in 1 .. Len(calls), j = Len(msgs) + k
        PROVE  CallShape(reqs, P[j].call) /\ P[j].call \in Calls
    <3>0. P[j] = Item(calls[k], TRUE)
      BY <1>1, <2>2
    <3>1. P[j].call = calls[k]
      BY <3>0 DEF Item
    <3>2. k \in DOMAIN calls /\ calls[k] \in Calls
      <4>1. calls[k] \in Calls
        BY <1>0, <2>2, ElementOfSeq
      <4>2. DOMAIN calls = 1 .. Len(calls)
        BY <1>0
      <4> QED  BY <2>2, <4>1, <4>2
    <3> QED  BY <3>1, <3>2 DEF Shapes
  <2>3. j \in 1 .. Len(msgs) \/ \E k \in 1 .. Len(calls) : j = Len(msgs) + k
    BY <1>1, PipePlaces
  <2> QED  BY <2>1, <2>2, <2>3
<1>3. \A j \in DOMAIN P : j \in Nat /\ j >= 1
  BY <1>1
<1>4. Turning(P, reqs)
  BY <1>2 DEF Turning, CallShape
<1> QED  BY <1>2, <1>3, <1>4

\* The message at the head of the queue is the first item.
LEMMA HeadFacts ==
  ASSUME StateTypes, Shapes, msgs # <<>>
  PROVE  /\ 1 \in DOMAIN P /\ P[1] = Item(Head(msgs).call, Head(msgs).ok)
         /\ P[1].call = Head(msgs).call /\ P[1].live = Head(msgs).ok
         /\ Head(msgs) \in Messages /\ Head(msgs).call \in Calls /\ Head(msgs).ok \in BOOLEAN
         /\ CallShape(reqs, Head(msgs).call)
         /\ Head(msgs).call.op \in {"turn", "open"} => Head(msgs).ok
         /\ Head(msgs).ok /\ Head(msgs).call.op = "add" => Head(msgs).call.hw \in HwIds
<1>1. /\ DOMAIN P = 1 .. Len(msgs) + Len(calls) /\ Len(msgs) \in Nat /\ Len(calls) \in Nat
      /\ \A j \in 1 .. Len(msgs) : P[j] = Item(msgs[j].call, msgs[j].ok)
  BY PipeType DEF P, StateTypes
<1>2. Head(msgs) = msgs[1] /\ msgs[1] \in Messages /\ 1 \in 1 .. Len(msgs) /\ Len(msgs) >= 1
      /\ 1 \in DOMAIN msgs
  BY DEF StateTypes
<1>3. 1 \in DOMAIN P /\ P[1] = Item(Head(msgs).call, Head(msgs).ok)
  BY <1>1, <1>2
<1> QED  BY <1>2, <1>3 DEF Item, Messages, Shapes

LEMMA HeadCallFacts ==
  ASSUME StateTypes, Shapes, calls # <<>>
  PROVE  Head(calls) \in Calls /\ CallShape(reqs, Head(calls))
BY DEF StateTypes, Shapes

-----------------------------------------------------------------------------
(***************************************************************************)
(* What a step has to show of the pipe.                                    *)
(***************************************************************************)
Waits == Tokens(P, reqs, geofences, used) /\ DropsFirst(P, reqs, idMap)
         /\ ItemsOrdered(P) /\ ItemsWait(P, reqs)

LEMMA WaitsKept ==
  ASSUME StateTypes, Shapes, Waits, used \subseteq used', used' \subseteq Ids,
         NEW new \in Seq(Calls), NEW first \in {1, 2}, Follows(P, P', new, first),
         SameReqs(reqs, reqs'),
         NewAdds(P, reqs, reqs', geofences', used', new, first),
         NewFences(P, reqs, geofences', used', first),
         NewDrops(P, reqs, reqs', idMap, idMap', new, first),
         NewItems(P, reqs', new, first)
  PROVE  Waits'
<1> DEFINE p == P
           q == P'
           rt == reqs'
           gt == geofences'
           ut == used'
           it == idMap'
<1>1. Turning(P, reqs)
  BY PipeShapes
<1>2. Tokens(q, rt, gt, ut)
  <2>1. Tokens(p, reqs, geofences, used)
    BY DEF Waits
  <2> HIDE DEF p, q, rt, gt, ut
  <2>2. SameReqs(reqs, rt) /\ Turning(p, reqs) /\ used \subseteq ut /\ Follows(p, q, new, first)
    BY <1>1 DEF p, q, rt, ut
  <2>3. NewAdds(p, reqs, rt, gt, ut, new, first) /\ NewFences(p, reqs, gt, ut, first)
    BY DEF p, q, rt, gt, ut
  <2> QED  BY <2>1, <2>2, <2>3, TokensKept
<1>3. DropsFirst(q, rt, it)
  <2>1. \A j \in DOMAIN q : AddOf(rt, q[j]) \in ut \cup {None}
    <3> HIDE DEF p, q, rt, gt, ut
    <3> QED  BY <1>2 DEF Tokens
  <2>2. DropsFirst(p, reqs, idMap)
    BY DEF Waits
  <2> HIDE DEF p, q, rt, ut, it
  <2>3. SameReqs(reqs, rt) /\ Turning(p, reqs) /\ ut \subseteq Ids /\ Follows(p, q, new, first)
    BY <1>1 DEF p, q, rt, ut
  <2>4. NewDrops(p, reqs, rt, idMap, it, new, first)
    BY DEF p, rt, it
  <2> QED  BY <2>1, <2>2, <2>3, <2>4, DropsKept
<1>4. ItemsOrdered(q) /\ ItemsWait(q, rt)
  <2>1. ItemsOrdered(p)
    BY DEF Waits
  <2> HIDE DEF p, q, rt
  <2>2. NewItems(p, rt, new, first) /\ Follows(p, q, new, first)
    BY DEF p, q, rt
  <2> QED  BY <2>1, <2>2, ItemsKept
<1> QED  BY <1>2, <1>3, <1>4 DEF Waits

\* Most steps add no geofence, and put none at another place.
LEMMA FencesShrink ==
  ASSUME Waits, NEW first \in {1, 2}, NEW gt, NEW ut, used \subseteq ut,
         \A hw \in HwIds : gt[hw].id \in {geofences[hw].id, None}
  PROVE  NewFences(P, reqs, gt, ut, first)
BY DEF Waits, Tokens, NewFences

LEMMA FencesSaved ==
  ASSUME Waits, 1 \in DOMAIN P, \A j \in DOMAIN P : j \in Nat, NEW hw \in HwIds, NEW gt,
         AddOf(reqs, P[1]) # None,
         gt[hw].id = AddOf(reqs, P[1]), \A h \in HwIds \ {hw} : gt[h].id = geofences[h].id
  PROVE  NewFences(P, reqs, gt, used, 2)
<1> DEFINE a == AddOf(reqs, P[1])
<1>1. \A h \in HwIds : geofences[h].id # a
  BY DEF Waits, Tokens
<1>2. \A j \in DOMAIN P : j >= 2 => AddOf(reqs, P[j]) # a
  BY DEF Waits, Tokens
<1>3. a \in used
  BY DEF Waits, Tokens
<1>4. /\ \A h1, h2 \in HwIds : geofences[h1].id # None /\ geofences[h2].id = geofences[h1].id => h1 = h2
      /\ \A j \in DOMAIN P, h \in HwIds :
           AddOf(reqs, P[j]) # None => geofences[h].id # AddOf(reqs, P[j])
      /\ \A h \in HwIds : geofences[h].id \in used \cup {None}
  BY DEF Waits, Tokens
<1>5. gt[hw].id = a /\ a # None
  OBVIOUS
<1> HIDE DEF a
<1> QED  BY <1>1, <1>2, <1>3, <1>4, <1>5 DEF NewFences

LEMMA MapShrinks ==
  ASSUME NEW first \in {1, 2}, NEW rt, NEW it, \A id \in Ids : it[id] \in {idMap[id], None}
  PROVE  NewDrops(P, reqs, rt, idMap, it, <<>>, first)
BY NoItems DEF NewDrops

\* Nothing is added to the pipe, and no result is written.
LEMMA NoNewItems ==
  ASSUME Waits, NEW first \in {1, 2}, first = 2 => 1 \in DOMAIN P /\ ~Pends(P[1]),
         \A j \in DOMAIN P : j \in Nat /\ j >= 1
  PROVE  /\ NewItems(P, reqs, <<>>, first)
         /\ \A gt, ut : NewAdds(P, reqs, reqs, gt, ut, <<>>, first)
         /\ SameReqs(reqs, reqs)
<1>1. \A j \in DOMAIN P : j = 1 \/ j >= 2
  OBVIOUS
<1>2. ASSUME NEW r \in Reqs, NEW i \in DOMAIN reqs[r].real, reqs[r].real[i] = "none"
      PROVE  \E j \in DOMAIN P : j >= first /\ PendsFor(P[j], r, i)
  <2>1. PICK j \in DOMAIN P : PendsFor(P[j], r, i)
    BY <1>2 DEF Waits, ItemsWait
  <2>2. j >= first
    <3>1. CASE first = 1
      BY <3>1
    <3>2. CASE first = 2
      BY <1>1, <2>1, <3>2 DEF PendsFor
    <3> QED  BY <3>1, <3>2
  <2> QED  BY <2>1, <2>2
<1>3. \A j \in DOMAIN P : Pends(P[j]) => reqs[P[j].call.r].real[P[j].call.i] = "none"
  BY DEF Waits, ItemsWait
<1>4. 1 .. Len(<<>>) = {}
  OBVIOUS
<1>5. NewItems(P, reqs, <<>>, first)
  BY <1>2, <1>3, <1>4 DEF NewItems
<1>6. \A gt, ut : NewAdds(P, reqs, reqs, gt, ut, <<>>, first)
  BY <1>4 DEF NewAdds
<1>7. SameReqs(reqs, reqs)
  BY DEF SameReqs
<1> QED  BY <1>5, <1>6, <1>7

\* LocApi and the modem leave the adapter's tables alone.
LEMMA QuietKept ==
  ASSUME StateTypes, Shapes, Waits, UNCHANGED <<used, tables, reqs>>, Follows(P, P', <<>>, 1)
  PROVE  Waits'
<1> DEFINE gt == geofences'
           it == idMap'
           ut == used'
<1>1. gt = geofences /\ it = idMap /\ ut = used /\ reqs' = reqs
  BY DEF tables
<1>2. \A j \in DOMAIN P : j \in Nat /\ j >= 1
  BY PipeShapes
<1>3. /\ NewItems(P, reqs, <<>>, 1) /\ NewAdds(P, reqs, reqs, gt, ut, <<>>, 1)
      /\ SameReqs(reqs, reqs)
  BY <1>2, NoNewItems
<1>4. NewFences(P, reqs, gt, ut, 1)
  <2>1. used \subseteq ut /\ \A hw \in HwIds : gt[hw].id \in {geofences[hw].id, None}
    BY <1>1
  <2> HIDE DEF gt, ut
  <2> QED  BY <2>1, FencesShrink
<1>5. NewDrops(P, reqs, reqs, idMap, it, <<>>, 1)
  <2>1. \A id \in Ids : it[id] \in {idMap[id], None}
    BY <1>1
  <2> HIDE DEF it
  <2> QED  BY <2>1, MapShrinks
<1>6. used \subseteq ut /\ ut \subseteq Ids
  BY <1>1 DEF StateTypes
<1>7. <<>> \in Seq(Calls)
  OBVIOUS
<1> QED  BY <1>1, <1>3, <1>4, <1>5, <1>6, <1>7, WaitsKept

-----------------------------------------------------------------------------
(***************************************************************************)
(* The modem answers.                                                      *)
(***************************************************************************)
MsgShape(rq, x) ==
  /\ CallShape(rq, x.call) /\ x.call.cb # "ignore"
  /\ x.call.op \in {"turn", "open"} => x.ok
  /\ x.ok /\ x.call.op = "add" => x.call.hw \in HwIds

\* The sequence loses its head, or gets one more; what holds of its members still does.
LEMMA TailAll ==
  ASSUME NEW S, NEW q \in Seq(S), q # <<>>
  PROVE  /\ Tail(q) \in Seq(S) /\ Head(q) \in S /\ 1 \in DOMAIN q /\ Head(q) = q[1]
         /\ \A j \in DOMAIN Tail(q) : \E k \in DOMAIN q : Tail(q)[j] = q[k]
<1>1. /\ Tail(q) \in Seq(S) /\ Len(Tail(q)) = Len(q) - 1 /\ Len(q) \in Nat /\ Len(q) >= 1
      /\ Head(q) = q[1] /\ q[1] \in S
      /\ \A j \in 1 .. Len(q) - 1 : Tail(q)[j] = q[j + 1]
  BY TailFacts
<1>2. DOMAIN q = 1 .. Len(q) /\ DOMAIN Tail(q) = 1 .. Len(q) - 1
  BY <1>1
<1> DEFINE n == Len(q)
<1>3. \A j \in 1 .. n - 1 : j + 1 \in 1 .. n
  <2>1. n \in Nat
    BY <1>1
  <2> HIDE DEF n
  <2> QED  BY <2>1
<1>4. 1 \in DOMAIN q
  BY <1>1, <1>2
<1> QED  BY <1>1, <1>2, <1>3, <1>4

LEMMA JoinAll ==
  ASSUME NEW S, NEW q \in Seq(S), NEW new \in Seq(S)
  PROVE  /\ q \o new \in Seq(S)
         /\ \A j \in DOMAIN (q \o new) :
              \/ \E k \in DOMAIN q : (q \o new)[j] = q[k]
              \/ \E k \in 1 .. Len(new) : (q \o new)[j] = new[k]
<1> DEFINE t == q \o new
           a == Len(q)
           b == Len(new)
<1>1. /\ t \in Seq(S) /\ Len(t) = a + b /\ a \in Nat /\ b \in Nat
      /\ \A j \in 1 .. a : t[j] = q[j]
      /\ \A j \in 1 .. b : t[a + j] = new[j]
  BY ConcatFacts
<1>2. DOMAIN t = 1 .. Len(t) /\ DOMAIN q = 1 .. a
  BY <1>1
<1> SUFFICES /\ t \in Seq(S)
             /\ \A j \in DOMAIN t : (\E k \in DOMAIN q : t[j] = q[k])
                                    \/ \E k \in 1 .. b : t[j] = new[k]
  OBVIOUS
<1> HIDE DEF t, a, b
<1>3. \A j \in 1 .. a + b : j \in 1 .. a \/ \E k \in 1 .. b : j = a + k
  BY <1>1, PipePlaces
<1>4. ASSUME NEW j \in DOMAIN t
      PROVE  (\E k \in DOMAIN q : t[j] = q[k]) \/ \E k \in 1 .. b : t[j] = new[k]
  <2>1. j \in 1 .. a + b
    BY <1>1, <1>2, <1>4
  <2>2. CASE j \in 1 .. a
    BY <1>1, <1>2, <2>2
  <2>3. ASSUME NEW k \in 1 .. b, j = a + k PROVE t[j] = new[k]
    BY <1>1, <2>3
  <2> QED  BY <1>3, <2>1, <2>2, <2>3
<1> QED  BY <1>1, <1>4

LEMMA PostedSound ==
  ASSUME Sound, NEW c \in Calls, NEW ok \in BOOLEAN, calls # <<>>, calls' = Tail(calls),
         Same(Item(c, ok), Item(Head(calls), TRUE)), Posted(c, ok),
         c.op \in {"turn", "open"} => ok,
         ok /\ c.op = "add" => c.hw \in HwIds,
         c.op \in Kinds \ {"add"} => c.hw \in HwIds,
         UNCHANGED <<clients, used, tables, reqs>>,
         modem' \in [HwIds -> Fences \cup {Absent}], modemUp' \in BOOLEAN, ssrs' \in 0 .. MaxSsr
  PROVE  Sound'
<1> DEFINE x == [ok |-> ok, call |-> c]
<1>1. StateTypes /\ Shapes /\ Waits /\ msgs \in Seq(Messages) /\ calls \in Seq(Calls)
  BY DEF Sound, Waits, StateTypes
<1>2. x \in Messages /\ x.call = c /\ x.ok = ok
  BY DEF Messages
<1>3. /\ c.op = Head(calls).op /\ c.fence = Head(calls).fence /\ c.cb = Head(calls).cb
      /\ c.r = Head(calls).r /\ c.i = Head(calls).i
  BY DEF Same, Item
<1>4. CallShape(reqs, Head(calls))
  BY <1>1, HeadCallFacts
<1>5. CallShape(reqs, c)
  BY <1>3, <1>4 DEF CallShape
<1>6. reqs' = reqs /\ clients' = clients /\ used' = used /\ geofences' = geofences /\ idMap' = idMap
  BY DEF tables
<1>7. /\ Tail(calls) \in Seq(Calls)
      /\ \A j \in DOMAIN Tail(calls) : \E k \in DOMAIN calls : Tail(calls)[j] = calls[k]
  BY <1>1, TailAll
<1>8. /\ msgs' = msgs \/ msgs' = msgs \o <<x>>
      /\ msgs' = msgs <=> c.cb = "ignore"
  BY <1>1, <1>2 DEF Posted
<1>9. /\ msgs' \in Seq(Messages)
      /\ \A j \in DOMAIN msgs' : \/ \E k \in DOMAIN msgs : msgs'[j] = msgs[k]
                                 \/ msgs'[j] = x /\ c.cb # "ignore"
  <2>1. CASE c.cb = "ignore"
    BY <1>1, <1>8, <2>1
  <2>2. CASE c.cb # "ignore"
    <3>1. <<x>> \in Seq(Messages) /\ \A k \in 1 .. Len(<<x>>) : <<x>>[k] = x
      BY <1>2
    <3>2. msgs' = msgs \o <<x>>
      BY <1>8, <2>2
    <3> DEFINE new == <<x>>
    <3> HIDE DEF new, x
    <3>3. /\ msgs \o new \in Seq(Messages)
          /\ \A j \in DOMAIN (msgs \o new) : \/ \E k \in DOMAIN msgs : (msgs \o new)[j] = msgs[k]
                                             \/ \E k \in 1 .. Len(new) : (msgs \o new)[j] = new[k]
      BY <1>1, <3>1, JoinAll DEF new
    <3> QED  BY <2>2, <3>1, <3>2, <3>3 DEF new
  <2> QED  BY <2>1, <2>2
<1>10. Follows(P, P', <<>>, 1)
  <2>1. CASE c.cb = "ignore"
    <3>1. Follows(Pipe(msgs, calls), Pipe(msgs, Tail(calls)), <<>>, 1)
      BY <1>1, <1>3, <2>1, PipeIgnores
    <3> QED  BY <1>8, <2>1, <3>1 DEF P
  <2>2. CASE c.cb # "ignore"
    <3>1. Same(Item(x.call, x.ok), Item(Head(calls), TRUE))
      BY <1>2
    <3>2. msgs' = Append(msgs, x)
      BY <2>2 DEF Posted
    <3> HIDE DEF x
    <3>3. Follows(Pipe(msgs, calls), Pipe(Append(msgs, x), Tail(calls)), <<>>, 1)
      BY <1>1, <1>2, <3>1, PipePosts
    <3> QED  BY <3>2, <3>3 DEF P
  <2> QED  BY <2>1, <2>2
<1>11. StateTypes'
  BY <1>1, <1>6, <1>7, <1>9 DEF StateTypes
<1>12. RequestsTrue'
  BY <1>6 DEF Sound, RequestsTrue
<1>13. Shapes'
  <2>1. \A j \in DOMAIN calls' : CallShape(reqs, calls'[j])
    BY <1>1, <1>7 DEF Shapes
  <2>2. \A k \in DOMAIN msgs : MsgShape(reqs, msgs[k])
    BY <1>1 DEF Shapes, MsgShape
  <2>3. c.cb # "ignore" => MsgShape(reqs, x)
    BY <1>2, <1>5 DEF MsgShape
  <2>4. \A j \in DOMAIN msgs' : MsgShape(reqs, msgs'[j])
    BY <1>9, <2>2, <2>3
  <2> QED  BY <1>6, <2>1, <2>4 DEF Shapes, MsgShape
<1>14. Waits'
  BY <1>1, <1>10, QuietKept
<1> QED  BY <1>11, <1>12, <1>13, <1>14 DEF Sound, Waits

LEMMA SameSelf == \A c \in Calls, ok \in BOOLEAN : Same(Item(c, ok), Item(c, TRUE))
BY DEF Same, Item

LEMMA ModemTypes ==
  ASSUME StateTypes, RequestsTrue, NEW c \in Calls, CallShape(reqs, c)
  PROVE  /\ c.op = "add" => c.fence \in Fences
         /\ c.op \in Kinds \ {"add"} /\ Known(c) =>
              /\ c.hw \in HwIds /\ modem[c.hw] \in Fences /\ modem[c.hw].id = c.fence.id
              /\ c.op = "modify" => c.fence.opt \in Opts
<1>1. ASSUME c.op \in Kinds \ {"add"}, Known(c)
      PROVE  /\ c.hw \in HwIds /\ modem[c.hw] \in Fences /\ modem[c.hw].id = c.fence.id
             /\ c.op = "modify" => c.fence.opt \in Opts
  <2>1. c.hw \in HwIds /\ modem[c.hw].id = c.fence.id /\ c.fence.id \in Ids
    BY <1>1 DEF CallShape, Known
  <2>2. modem[c.hw] \in Fences
    BY <2>1, NoneFacts DEF StateTypes
  <2>3. ASSUME c.op = "modify" PROVE c.fence.opt \in Opts
    <3>1. c.cb = "done"
      BY <2>3 DEF CallShape, Calls
    <3>2. RequestTrue(reqs[c.r]) /\ c.fence.opt = reqs[c.r].opt
      BY <3>1 DEF CallShape, RequestsTrue
    <3> QED  BY <3>2 DEF RequestTrue, Requests
  <2> QED  BY <2>1, <2>2, <2>3
<1> QED  BY <1>1 DEF CallShape

LEMMA LocApiSound ==
  ASSUME Sound, LocApi
  PROVE  Sound'
<1> DEFINE c == Head(calls)
<1>1. StateTypes /\ Shapes /\ RequestsTrue /\ calls # <<>> /\ calls' = Tail(calls)
      /\ UNCHANGED <<clients, used, tables, reqs, ssrs>>
  BY DEF Sound, LocApi, ModemTurn, ModemAdd, ModemChange, ModemRefuse, ModemOpen, NextCall
<1>2. c \in Calls /\ CallShape(reqs, c)
  BY <1>1, HeadCallFacts
<1>3. /\ modem \in [HwIds -> Fences \cup {Absent}] /\ modemUp \in BOOLEAN
      /\ ssrs \in 0 .. MaxSsr /\ ssrs' = ssrs
  BY <1>1 DEF StateTypes
<1>4. c.op \in Kinds \ {"add"} => c.hw \in HwIds
  BY <1>2 DEF CallShape
<1>5. c.op \in Kinds \cup {"turn", "open"}
  BY <1>2 DEF Calls
<1>6. CASE ModemTurn
  <2>1. c.op = "turn" /\ Posted(c, TRUE) /\ modem' = modem /\ modemUp' = modemUp
    BY <1>6 DEF ModemTurn, NextCall
  <2> QED  BY <1>1, <1>2, <1>3, <2>1, SameSelf, PostedSound DEF Kinds
<1>7. CASE ModemOpen
  <2>1. c.op = "open" /\ Posted(c, TRUE) /\ modem' = modem /\ modemUp' = TRUE
    BY <1>7 DEF ModemOpen, NextCall
  <2> QED  BY <1>1, <1>2, <1>3, <2>1, SameSelf, PostedSound DEF Kinds
<1>8. CASE ModemRefuse
  <2>1. c.op \in Kinds /\ Posted(c, FALSE) /\ modem' = modem /\ modemUp' = modemUp
    BY <1>8 DEF ModemRefuse, NextCall
  <2>2. c.op \notin {"turn", "open"}
    BY <2>1 DEF Kinds
  <2>3. Same(Item(c, FALSE), Item(c, TRUE))
    BY <1>2, SameSelf
  <2> QED  BY <1>1, <1>2, <1>3, <1>4, <2>1, <2>2, <2>3, PostedSound
<1>9. CASE ModemChange
  <2>1. c.op \in Kinds \ {"add"} /\ Posted(c, TRUE) /\ Known(c) /\ Executed(c) /\ modemUp' = modemUp
    BY <1>9 DEF ModemChange, NextCall
  <2>2. c.hw \in HwIds /\ modem[c.hw] \in Fences /\ (c.op = "modify" => c.fence.opt \in Opts)
    BY <1>1, <1>2, <2>1, ModemTypes
  <2>3. modem' \in [HwIds -> Fences \cup {Absent}]
    <3> DEFINE f == modem[c.hw]
    <3>1. /\ [f EXCEPT !.paused = TRUE] \in Fences /\ [f EXCEPT !.paused = FALSE] \in Fences
          /\ c.op = "modify" => [f EXCEPT !.opt = c.fence.opt] \in Fences
      BY <2>2, NoneFacts
    <3>2. \/ c.op = "remove" /\ modem' = [modem EXCEPT ![c.hw] = Absent]
          \/ c.op = "pause" /\ modem' = [modem EXCEPT ![c.hw] = [f EXCEPT !.paused = TRUE]]
          \/ c.op = "resume" /\ modem' = [modem EXCEPT ![c.hw] = [f EXCEPT !.paused = FALSE]]
          \/ c.op = "modify" /\ modem' = [modem EXCEPT ![c.hw] = [f EXCEPT !.opt = c.fence.opt]]
      BY <2>1 DEF Executed, Kinds
    <3> QED  BY <1>3, <3>1, <3>2
  <2>4. c.op \notin {"turn", "open"}
    BY <2>1 DEF Kinds
  <2>5. Same(Item(c, TRUE), Item(c, TRUE))
    BY <1>2, SameSelf
  <2> QED  BY <1>1, <1>2, <1>3, <2>1, <2>2, <2>3, <2>4, <2>5, PostedSound
<1>10. CASE ModemAdd
  <2>1. c.op = "add" /\ modemUp' = modemUp
    BY <1>10 DEF ModemAdd, NextCall
  <2>2. PICK hw \in HwIds : /\ modem' = [modem EXCEPT ![hw] = [c.fence EXCEPT !.paused = FALSE]]
                            /\ Posted([c EXCEPT !.hw = hw], TRUE)
    BY <1>10 DEF ModemAdd
  <2> DEFINE d == [c EXCEPT !.hw = hw]
  <2>3. d \in Calls /\ d.op = "add" /\ d.hw = hw /\ Same(Item(d, TRUE), Item(c, TRUE))
    BY <1>2, <2>1 DEF Calls, Same, Item
  <2>4. modem' \in [HwIds -> Fences \cup {Absent}]
    <3>1. [c.fence EXCEPT !.paused = FALSE] \in Fences
      BY <1>2, <2>1, NoneFacts DEF CallShape
    <3> QED  BY <1>3, <2>2, <3>1
  <2>5. Posted(d, TRUE)
    BY <2>2
  <2> HIDE DEF d
  <2> QED  BY <1>1, <1>3, <2>1, <2>2, <2>3, <2>4, <2>5, PostedSound
<1> QED  BY <1>6, <1>7, <1>8, <1>9, <1>10 DEF LocApi

-----------------------------------------------------------------------------
(***************************************************************************)
(* The adapter takes a message, or is asked: what such a step has to show. *)
(***************************************************************************)
SameAsks(rq, rt) ==
  \A r \in Reqs : rq[r] # NoRequest =>
    /\ rt[r] # NoRequest /\ rt[r].kind = rq[r].kind /\ rt[r].ids = rq[r].ids
    /\ rt[r].opt = rq[r].opt

LEMMA SameShape ==
  ASSUME NEW rq, NEW rt, NEW c, SameAsks(rq, rt), CallShape(rq, c)
  PROVE  CallShape(rt, c)
BY DEF SameAsks, CallShape

\* LocApi's calls are still there.
CallsKept ==
  /\ \A j \in 1 .. Len(calls) : j \in 1 .. Len(calls') /\ calls'[j] = calls[j]
  /\ \A j \in 1 .. Len(calls') : calls'[j].op = "open" => j \in 1 .. Len(calls)

NoOpen(new) == \A k \in 1 .. Len(new) : new[k].op # "open"

LEMMA CallsJoined ==
  ASSUME calls \in Seq(Calls), NEW new \in Seq(Calls)
  PROVE  /\ calls \o new \in Seq(Calls)
         /\ \A j \in DOMAIN (calls \o new) :
              \/ \E k \in DOMAIN calls : (calls \o new)[j] = calls[k]
              \/ \E k \in 1 .. Len(new) : (calls \o new)[j] = new[k]
         /\ calls' = calls \o new /\ NoOpen(new) => CallsKept
<1> DEFINE S == Calls
<1>1. calls \in Seq(S) /\ new \in Seq(S)
  OBVIOUS
<1> SUFFICES /\ calls \o new \in Seq(S)
             /\ \A j \in DOMAIN (calls \o new) :
                  \/ \E k \in DOMAIN calls : (calls \o new)[j] = calls[k]
                  \/ \E k \in 1 .. Len(new) : (calls \o new)[j] = new[k]
             /\ calls' = calls \o new /\ NoOpen(new) => CallsKept
  OBVIOUS
<1> HIDE DEF S
<1>2. ASSUME calls' = calls \o new, NoOpen(new) PROVE CallsKept
  <2> DEFINE d == calls \o new
             a == Len(calls)
             b == Len(new)
  <2>1. Len(d) = a + b /\ a \in Nat /\ b \in Nat /\ (\A j \in 1 .. a : d[j] = calls[j])
       /\ \A j \in 1 .. b : d[a + j] = new[j]
    BY ONLY <1>1, ConcatFacts
  <2>2. calls' = d
    BY <1>2
  <2>3. \A j \in 1 .. b : new[j].op # "open"
    BY <1>2 DEF NoOpen
  <2> SUFFICES /\ \A j \in 1 .. a : j \in 1 .. Len(d) /\ d[j] = calls[j]
               /\ \A j \in 1 .. Len(d) : d[j].op = "open" => j \in 1 .. a
    BY <2>2 DEF CallsKept
  <2> HIDE DEF a, b, d
  <2>4. ASSUME NEW j \in 1 .. Len(d), j \notin 1 .. a PROVE d[j].op # "open"
    <3> DEFINE k == j - a
    <3>1. k \in 1 .. b /\ a + k = j
      BY ONLY <2>1, <2>4
    <3> HIDE DEF k
    <3>2. d[a + k] = new[k]
      BY ONLY <2>1, <3>1
    <3> QED  BY ONLY <2>3, <3>1, <3>2
  <2>5. ASSUME NEW j \in 1 .. a PROVE j \in 1 .. Len(d) /\ d[j] = calls[j]
    <3>1. j \in 1 .. Len(d)
      BY ONLY <2>1, <2>5
    <3> QED  BY ONLY <2>1, <2>5, <3>1
  <2> QED  BY ONLY <2>4, <2>5
<1> QED  BY ONLY <1>1, <1>2, JoinAll

LEMMA TakenSound ==
  ASSUME Sound, msgs # <<>>, msgs' = Tail(msgs),
         NEW new \in Seq(Calls), calls' = calls \o new,
         SameAsks(reqs, reqs'), RequestsTrue',
         \A k \in 1 .. Len(new) : CallShape(reqs', new[k]),
         UNCHANGED <<clients, used, modemVars>>,
         geofences' \in [HwIds -> Fences \cup {Absent}], idMap' \in [Ids -> HwIds \cup {None}],
         NewAdds(P, reqs, reqs', geofences', used', new, 2),
         NewFences(P, reqs, geofences', used', 2),
         NewDrops(P, reqs, reqs', idMap, idMap', new, 2),
         NewItems(P, reqs', new, 2)
  PROVE  Sound' /\ (NoOpen(new) => CallsKept)
<1> DEFINE rt == reqs'
<1>1. StateTypes /\ Shapes /\ Waits /\ msgs \in Seq(Messages) /\ calls \in Seq(Calls)
  BY DEF Sound, Waits, StateTypes
<1>2. /\ Tail(msgs) \in Seq(Messages)
      /\ \A j \in DOMAIN Tail(msgs) : \E k \in DOMAIN msgs : Tail(msgs)[j] = msgs[k]
  BY <1>1, TailAll
<1>3. /\ calls \o new \in Seq(Calls)
      /\ \A j \in DOMAIN (calls \o new) :
           \/ \E k \in DOMAIN calls : (calls \o new)[j] = calls[k]
           \/ \E k \in 1 .. Len(new) : (calls \o new)[j] = new[k]
      /\ NoOpen(new) => CallsKept
  BY <1>1, CallsJoined
<1>4. StateTypes'
  BY <1>1, <1>2, <1>3 DEF StateTypes, modemVars
<1>5. Shapes'
  <2>1. \A j \in DOMAIN calls : CallShape(rt, calls[j])
    BY <1>1, SameShape DEF Shapes
  <2>2. \A j \in DOMAIN (calls \o new) : CallShape(rt, (calls \o new)[j])
    BY <1>3, <2>1
  <2>3. ASSUME NEW j \in DOMAIN msgs PROVE MsgShape(rt, msgs[j])
    <3>1. MsgShape(reqs, msgs[j])
      BY <1>1 DEF Shapes, MsgShape
    <3> QED  BY <3>1, SameShape DEF MsgShape
  <2>4. \A j \in DOMAIN Tail(msgs) : MsgShape(rt, Tail(msgs)[j])
    BY <1>2, <2>3
  <2> QED  BY <2>2, <2>4 DEF Shapes, MsgShape
<1>6. Follows(P, P', new, 2)
  <2>1. Follows(Pipe(msgs, calls), Pipe(Tail(msgs), calls \o new), new, 2)
    BY <1>1, PipeTakes
  <2> QED  BY <2>1 DEF P
<1>7. SameReqs(reqs, reqs') /\ used \subseteq used' /\ used' \subseteq Ids
  BY <1>1 DEF SameAsks, SameReqs, StateTypes
<1>8. Waits'
  BY <1>1, <1>6, <1>7, WaitsKept
<1> QED  BY <1>3, <1>4, <1>5, <1>8 DEF Sound, Waits

LEMMA GrownSound ==
  ASSUME Sound, msgs' = msgs, NEW new \in Seq(Calls), calls' = calls \o new,
         SameAsks(reqs, reqs'), RequestsTrue',
         \A k \in 1 .. Len(new) : CallShape(reqs', new[k]),
         clients' \subseteq clients, used \subseteq used', used' \subseteq Ids,
         geofences' = geofences, idMap' \in [Ids -> HwIds \cup {None}],
         modem' \in [HwIds -> Fences \cup {Absent}], modemUp' \in BOOLEAN, ssrs' \in 0 .. MaxSsr,
         NewAdds(P, reqs, reqs', geofences', used', new, 1),
         NewDrops(P, reqs, reqs', idMap, idMap', new, 1),
         NewItems(P, reqs', new, 1)
  PROVE  Sound' /\ (NoOpen(new) => CallsKept)
<1> DEFINE rt == reqs'
           gt == geofences'
           ut == used'
<1>1. StateTypes /\ Shapes /\ Waits /\ msgs \in Seq(Messages) /\ calls \in Seq(Calls)
  BY DEF Sound, Waits, StateTypes
<1>2. /\ calls \o new \in Seq(Calls)
      /\ \A j \in DOMAIN (calls \o new) :
           \/ \E k \in DOMAIN calls : (calls \o new)[j] = calls[k]
           \/ \E k \in 1 .. Len(new) : (calls \o new)[j] = new[k]
      /\ NoOpen(new) => CallsKept
  BY <1>1, CallsJoined
<1>3. StateTypes'
  BY <1>1, <1>2 DEF StateTypes
<1>4. Shapes'
  <2>1. \A j \in DOMAIN calls : CallShape(rt, calls[j])
    BY <1>1, SameShape DEF Shapes
  <2>2. \A j \in DOMAIN (calls \o new) : CallShape(rt, (calls \o new)[j])
    BY <1>2, <2>1
  <2>3. ASSUME NEW j \in DOMAIN msgs PROVE MsgShape(rt, msgs[j])
    <3>1. MsgShape(reqs, msgs[j])
      BY <1>1 DEF Shapes, MsgShape
    <3> QED  BY <3>1, SameShape DEF MsgShape
  <2> QED  BY <2>2, <2>3 DEF Shapes, MsgShape
<1>5. Follows(P, P', new, 1)
  <2>1. Follows(Pipe(msgs, calls), Pipe(msgs, calls \o new), new, 1)
    BY <1>1, PipeGrows
  <2> QED  BY <2>1 DEF P
<1>6. SameReqs(reqs, reqs')
  BY DEF SameAsks, SameReqs
<1>7. NewFences(P, reqs, gt, ut, 1)
  <2>1. used \subseteq ut /\ \A hw \in HwIds : gt[hw].id \in {geofences[hw].id, None}
    BY DEF ut, gt
  <2> HIDE DEF gt, ut
  <2> QED  BY <1>1, <2>1, FencesShrink
<1>8. Waits'
  BY <1>1, <1>5, <1>6, <1>7, WaitsKept
<1> QED  BY <1>2, <1>3, <1>4, <1>8 DEF Sound, Waits

\* Calls for which no request waits, and that neither add nor drop a geofence.
Quiet(c) == c.cb \notin {"turn", "done", "drop"} /\ c.op # "add"

LEMMA QuietNew ==
  ASSUME Waits, NEW first \in {1, 2}, first = 2 => 1 \in DOMAIN P /\ ~Pends(P[1]),
         \A j \in DOMAIN P : j \in Nat /\ j >= 1,
         NEW new, \A k \in 1 .. Len(new) : Quiet(new[k])
  PROVE  /\ NewItems(P, reqs, new, first)
         /\ \A gt, ut : NewAdds(P, reqs, reqs, gt, ut, new, first)
         /\ \A it : (\A id \in Ids : it[id] \in {idMap[id], None})
                      => NewDrops(P, reqs, reqs, idMap, it, new, first)
         /\ SameReqs(reqs, reqs)
<1>1. NewItems(P, reqs, <<>>, first) /\ SameReqs(reqs, reqs)
  BY NoNewItems
<1>2. \A k \in 1 .. Len(new) : /\ Item(new[k], TRUE).call = new[k] /\ ~Pends(Item(new[k], TRUE))
                               /\ AddOf(reqs, Item(new[k], TRUE)) = None
                               /\ \A id : ~Drops(Item(new[k], TRUE), id)
  BY DEF Quiet, Item, Pends, AddOf, Drops
<1>3. NewItems(P, reqs, new, first)
  <2>1. 1 .. Len(<<>>) = {}
    OBVIOUS
  <2> QED  BY <1>1, <1>2, <2>1 DEF NewItems, Ordered
<1>4. ASSUME NEW gt, NEW ut PROVE NewAdds(P, reqs, reqs, gt, ut, new, first)
  BY <1>2 DEF NewAdds
<1>5. ASSUME NEW it, \A id \in Ids : it[id] \in {idMap[id], None}
      PROVE  NewDrops(P, reqs, reqs, idMap, it, new, first)
  BY <1>2, <1>5 DEF NewDrops
<1> QED  BY <1>1, <1>3, <1>4, <1>5

LEMMA OpenFacts ==
  /\ OpenCall \in Calls /\ OpenCall.op = "open" /\ OpenCall.cb = "engineUp" /\ Quiet(OpenCall)
  /\ \A rq : CallShape(rq, OpenCall)
<1>1. OpenCall \in Calls
  BY CallTypes DEF OpenCall
<1>2. OpenCall.op = "open" /\ OpenCall.cb = "engineUp"
  BY DEF OpenCall, Call
<1>3. ASSUME NEW rq PROVE CallShape(rq, OpenCall)
  BY <1>2 DEF CallShape, Kinds
<1> QED  BY <1>1, <1>2, <1>3 DEF Quiet

LEMMA ModemDownSound ==
  ASSUME Sound, ModemDown
  PROVE  Sound'
<1> DEFINE new == <<OpenCall>>
<1>1. StateTypes /\ Shapes /\ Waits /\ calls \in Seq(Calls)
  BY DEF Sound, Waits, StateTypes
<1>2. new \in Seq(Calls) /\ calls' = calls \o new /\ \A k \in 1 .. Len(new) : new[k] = OpenCall
  BY <1>1, OpenFacts DEF ModemDown
<1>3. /\ msgs' = msgs /\ clients' = clients /\ used' = used /\ geofences' = geofences
      /\ idMap' = idMap /\ reqs' = reqs
      /\ modemUp' = FALSE /\ ssrs' = ssrs + 1 /\ ssrs < MaxSsr
      /\ modem' = [hw \in HwIds |-> Absent]
  BY DEF ModemDown, tables
<1> HIDE DEF new
<1>4. SameAsks(reqs, reqs')
  BY <1>3 DEF SameAsks
<1>5. RequestsTrue'
  BY <1>3 DEF Sound, RequestsTrue
<1>6. modem' \in [HwIds -> Fences \cup {Absent}] /\ modemUp' \in BOOLEAN /\ ssrs' \in 0 .. MaxSsr
  <2>1. ssrs' \in 0 .. MaxSsr
    BY <1>1, <1>3, BoundsAssumption DEF StateTypes
  <2> QED  BY <1>3, <2>1
<1>7. \A j \in DOMAIN P : j \in Nat /\ j >= 1
  BY <1>1, PipeShapes
<1>8. /\ NewItems(P, reqs, new, 1)
      /\ \A gt, ut : NewAdds(P, reqs, reqs, gt, ut, new, 1)
      /\ NewDrops(P, reqs, reqs, idMap, idMap, new, 1)
  BY <1>1, <1>2, <1>7, OpenFacts, QuietNew
<1>9. /\ NewItems(P, reqs', new, 1)
      /\ NewAdds(P, reqs, reqs', geofences', used', new, 1)
      /\ NewDrops(P, reqs, reqs', idMap, idMap', new, 1)
  BY <1>3, <1>8
<1>10. idMap' \in [Ids -> HwIds \cup {None}] /\ used' \subseteq Ids /\ used \subseteq used'
       /\ clients' \subseteq clients
  BY <1>1, <1>3 DEF StateTypes
<1>11. \A k \in 1 .. Len(new) : CallShape(reqs', new[k])
  BY <1>2, OpenFacts
<1> QED  BY <1>2, <1>3, <1>4, <1>5, <1>6, <1>9, <1>10, <1>11, GrownSound

-----------------------------------------------------------------------------
(***************************************************************************)
(* Drops, restarts and removals of clients.                                *)
(***************************************************************************)
LEMMA QuietTaken ==
  ASSUME Sound, msgs # <<>>, msgs' = Tail(msgs), ~Pends(P[1]),
         NEW new \in Seq(Calls), calls' = calls \o new,
         \A k \in 1 .. Len(new) : Quiet(new[k]) /\ CallShape(reqs, new[k]) /\ new[k].op # "open",
         UNCHANGED <<clients, used, reqs, modemVars>>,
         geofences' \in [HwIds -> Fences \cup {Absent}], idMap' \in [Ids -> HwIds \cup {None}],
         NewFences(P, reqs, geofences', used, 2),
         NewDrops(P, reqs, reqs, idMap, idMap', <<>>, 2)
  PROVE  Sound' /\ CallsKept
<1> DEFINE it == idMap'
           gt == geofences'
<1>1. StateTypes /\ Shapes /\ Waits
  BY DEF Sound, Waits
<1>2. 1 \in DOMAIN P /\ \A j \in DOMAIN P : j \in Nat /\ j >= 1
  BY <1>1, HeadFacts, PipeShapes
<1>3. /\ NewItems(P, reqs, new, 2)
      /\ \A ht, ut : NewAdds(P, reqs, reqs, ht, ut, new, 2)
  BY <1>1, <1>2, QuietNew
<1>4. NewDrops(P, reqs, reqs, idMap, it, new, 2)
  <2>1. \A k \in 1 .. Len(new) : \A id : ~Drops(Item(new[k], TRUE), id)
    BY DEF Quiet, Drops, Item
  <2>2. NewDrops(P, reqs, reqs, idMap, it, <<>>, 2)
    OBVIOUS
  <2> HIDE DEF it
  <2> QED  BY <2>1, <2>2 DEF NewDrops
<1>5. reqs' = reqs /\ used' = used
  OBVIOUS
<1>6. SameAsks(reqs, reqs') /\ RequestsTrue'
  BY <1>5 DEF SameAsks, Sound, RequestsTrue
<1>7. /\ NewItems(P, reqs', new, 2)
      /\ NewAdds(P, reqs, reqs', geofences', used', new, 2)
      /\ NewFences(P, reqs, geofences', used', 2)
      /\ NewDrops(P, reqs, reqs', idMap, idMap', new, 2)
      /\ \A k \in 1 .. Len(new) : CallShape(reqs', new[k])
  BY <1>3, <1>4, <1>5
<1>8. NoOpen(new)
  BY DEF NoOpen
<1> QED  BY <1>5, <1>6, <1>7, <1>8, TakenSound

LEMMA HandleDropSound ==
  ASSUME Sound, HandleDrop
  PROVE  Sound' /\ CallsKept
<1> DEFINE m == Head(msgs)
           gt == geofences'
<1>1. StateTypes /\ Shapes /\ Waits
  BY DEF Sound, Waits
<1>2. /\ msgs # <<>> /\ msgs' = Tail(msgs) /\ m.call.cb = "drop"
      /\ UNCHANGED <<clients, used, reqs, modemVars, idMap, calls>>
      /\ gt = geofences \/ gt = [geofences EXCEPT ![m.call.hw] = Absent]
  BY DEF HandleDrop, Received
<1>3. P[1].call = m.call /\ CallShape(reqs, m.call)
  BY <1>1, <1>2, HeadFacts
<1>4. ~Pends(P[1])
  BY <1>2, <1>3 DEF Pends
<1>5. gt \in [HwIds -> Fences \cup {Absent}]
  BY <1>1, <1>2 DEF StateTypes
<1>6. NewFences(P, reqs, gt, used, 2)
  <2>1. \A hw \in HwIds : gt[hw].id \in {geofences[hw].id, None}
    BY <1>1, <1>2, NoneFacts DEF StateTypes
  <2> HIDE DEF gt
  <2> QED  BY <1>1, <2>1, FencesShrink
<1>7. idMap' \in [Ids -> HwIds \cup {None}] /\ NewDrops(P, reqs, reqs, idMap, idMap', <<>>, 2)
  <2>1. idMap' = idMap
    BY <1>2
  <2>2. NewDrops(P, reqs, reqs, idMap, idMap, <<>>, 2)
    BY MapShrinks
  <2> QED  BY <1>1, <2>1, <2>2 DEF StateTypes
<1>8. calls' = calls \o <<>> /\ <<>> \in Seq(Calls) /\ 1 .. Len(<<>>) = {}
  BY <1>1, <1>2, NoItems DEF StateTypes
<1> QED  BY <1>2, <1>4, <1>5, <1>6, <1>7, <1>8, QuietTaken

\* What Saved does, for a geofence whose id was on its way.
LEMMA SavedFacts ==
  ASSUME Sound, msgs # <<>>, Head(msgs).ok, Head(msgs).call.op = "add",
         Saved(Head(msgs).call.hw, Head(msgs).call.fence)
  PROVE  /\ Head(msgs).call.hw \in HwIds /\ Head(msgs).call.fence \in Fences
         /\ AddOf(reqs, P[1]) = Head(msgs).call.fence.id
         /\ geofences' \in [HwIds -> Fences \cup {Absent}]
         /\ idMap' \in [Ids -> HwIds \cup {None}]
         /\ NewFences(P, reqs, geofences', used, 2)
         /\ \A rt : NewDrops(P, reqs, rt, idMap, idMap', <<>>, 2)
<1> DEFINE m == Head(msgs).call
           hw == m.hw
           id == m.fence.id
           g == [m.fence EXCEPT !.paused = FALSE]
           gt == geofences'
           it == idMap'
<1>1. StateTypes /\ Shapes /\ Waits
  BY DEF Sound, Waits
<1>2. 1 \in DOMAIN P /\ P[1].call = m /\ P[1].live /\ CallShape(reqs, m) /\ hw \in HwIds
  BY <1>1, HeadFacts
<1>3. m.cb # "turn" /\ m.fence \in Fences
  BY <1>2 DEF CallShape
<1>4. AddOf(reqs, P[1]) = id /\ id # None /\ id \in Ids
  BY <1>2, <1>3, NoneFacts DEF AddOf
<1>5. g \in Fences /\ g.id = id
  BY <1>3, NoneFacts DEF Fences
<1>6. gt = [geofences EXCEPT ![hw] = g] /\ it = [idMap EXCEPT ![id] = hw]
  BY DEF Saved
<1>7. gt \in [HwIds -> Fences \cup {Absent}] /\ it \in [Ids -> HwIds \cup {None}]
  BY <1>1, <1>2, <1>4, <1>5, <1>6 DEF StateTypes
<1>8. NewFences(P, reqs, gt, used, 2)
  <2>1. gt[hw].id = AddOf(reqs, P[1]) /\ \A h \in HwIds \ {hw} : gt[h].id = geofences[h].id
    BY <1>1, <1>2, <1>4, <1>5, <1>6 DEF StateTypes
  <2>2. \A j \in DOMAIN P : j \in Nat
    BY <1>1, PipeShapes
  <2> HIDE DEF gt, hw, id
  <2> QED  BY <1>1, <1>2, <1>4, <2>1, <2>2, FencesSaved
<1>9. \A rt : NewDrops(P, reqs, rt, idMap, it, <<>>, 2)
  <2>1. \A j \in DOMAIN P : j >= 2 => ~Drops(P[j], id)
    <3>1. \A k \in DOMAIN P : Drops(P[k], id) => k < 1
      BY <1>1, <1>2, <1>4 DEF Waits, DropsFirst
    <3>2. \A j \in DOMAIN P : j \in Nat /\ j >= 1
      BY <1>1, PipeShapes
    <3>3. \A j \in DOMAIN P : ~(j < 1)
      BY <3>2
    <3> QED  BY <3>1, <3>3
  <2>2. \A i \in Ids : i # id => it[i] = idMap[i]
    BY <1>1, <1>4, <1>6 DEF StateTypes
  <2> HIDE DEF it, id
  <2> QED  BY <2>1, <2>2, NoItems DEF NewDrops
<1> QED  BY <1>2, <1>3, <1>4, <1>7, <1>8, <1>9

LEMMA HandleReaddSound ==
  ASSUME Sound, HandleReadd
  PROVE  Sound' /\ CallsKept
<1> DEFINE m == Head(msgs).call
<1>1. StateTypes /\ Shapes /\ Waits /\ calls \in Seq(Calls)
  BY DEF Sound, Waits, StateTypes
<1>2. msgs # <<>> /\ msgs' = Tail(msgs) /\ m.cb = "readd"
      /\ UNCHANGED <<clients, used, reqs, modemVars>>
  BY DEF HandleReadd, Received
<1>3. P[1].call = m /\ CallShape(reqs, m)
  BY <1>1, <1>2, HeadFacts
<1>4. ~Pends(P[1]) /\ m.op = "add"
  BY <1>2, <1>3 DEF Pends, CallShape
<1>5. CASE Head(msgs).ok /\ Saved(m.hw, m.fence)
  <2>1. /\ m.hw \in HwIds /\ m.fence \in Fences
        /\ geofences' \in [HwIds -> Fences \cup {Absent}] /\ idMap' \in [Ids -> HwIds \cup {None}]
        /\ NewFences(P, reqs, geofences', used, 2)
        /\ NewDrops(P, reqs, reqs, idMap, idMap', <<>>, 2)
    BY <1>2, <1>4, <1>5, SavedFacts
  <2> DEFINE c == Call("pause", m.hw, m.fence, "ignore", None, 0)
  <2>2. c \in Calls /\ c.cb = "ignore" /\ c.op = "pause" /\ c.hw = m.hw /\ c.fence = m.fence
    <3>1. m.fence \in [id : Ids \cup {None}, opt : Opts \cup {None}, paused : BOOLEAN]
      BY <2>1, NoneFacts
    <3> HIDE DEF m
    <3> QED  BY <2>1, <3>1 DEF Call, Calls, Kinds
  <2>3. Quiet(c) /\ CallShape(reqs, c)
    BY <2>1, <2>2, NoneFacts DEF Quiet, CallShape, Kinds
  <2>4. calls' = calls \/ calls' = Append(calls, c)
    BY <1>2, <1>5 DEF HandleReadd
  <2> HIDE DEF c
  <2>5. CASE calls' = calls
    <3>1. calls' = calls \o <<>> /\ <<>> \in Seq(Calls) /\ 1 .. Len(<<>>) = {}
      BY <1>1, <2>5, NoItems
    <3> QED  BY <1>2, <1>4, <2>1, <3>1, QuietTaken
  <2>6. CASE calls' = Append(calls, c)
    <3> DEFINE new == <<c>>
    <3>1. calls' = calls \o new /\ new \in Seq(Calls) /\ \A k \in 1 .. Len(new) : new[k] = c
      BY <1>1, <2>2, <2>6
    <3> HIDE DEF new
    <3> QED  BY <1>2, <1>4, <2>1, <2>2, <2>3, <3>1, QuietTaken
  <2> QED  BY <2>4, <2>5, <2>6
<1>6. CASE UNCHANGED <<tables, calls>>
  <2>1. geofences' = geofences /\ idMap' = idMap /\ calls' = calls
    BY <1>6 DEF tables
  <2>2. NewFences(P, reqs, geofences, used, 2) /\ NewDrops(P, reqs, reqs, idMap, idMap, <<>>, 2)
    BY <1>1, FencesShrink, MapShrinks
  <2>3. calls' = calls \o <<>> /\ <<>> \in Seq(Calls) /\ 1 .. Len(<<>>) = {}
    BY <1>1, <2>1, NoItems
  <2>4. geofences' \in [HwIds -> Fences \cup {Absent}] /\ idMap' \in [Ids -> HwIds \cup {None}]
    BY <1>1, <2>1 DEF StateTypes
  <2>5. NewFences(P, reqs, geofences', used, 2) /\ NewDrops(P, reqs, reqs, idMap, idMap', <<>>, 2)
    BY <2>1, <2>2
  <2> QED  BY <1>2, <1>4, <2>3, <2>4, <2>5, QuietTaken
<1> QED  BY <1>5, <1>6 DEF HandleReadd

LEMMA IdleNew ==
  ASSUME Waits, NEW first \in {1, 2}, first = 2 => 1 \in DOMAIN P /\ ~Pends(P[1]),
         \A j \in DOMAIN P : j \in Nat /\ j >= 1,
         NEW new, \A k \in 1 .. Len(new) : new[k].cb \notin {"turn", "done"}
  PROVE  NewItems(P, reqs, new, first)
<1>1. NewItems(P, reqs, <<>>, first)
  BY NoNewItems
<1>2. \A k \in 1 .. Len(new) : ~Pends(Item(new[k], TRUE))
  BY DEF Item, Pends
<1>3. 1 .. Len(<<>>) = {}
  OBVIOUS
<1> QED  BY <1>1, <1>2, <1>3 DEF NewItems, Ordered

\* The members of a finite set of numbers, each once.
LEMMA OrderFacts ==
  ASSUME NEW S, S \subseteq Nat, IsFiniteSet(S), NEW q \in InOrder(S)
  PROVE  \E n \in Nat : /\ DOMAIN q = 1 .. n /\ q \in [1 .. n -> S]
                        /\ \A i, j \in 1 .. n : q[i] = q[j] => i = j
<1> DEFINE n == Cardinality(S)
<1>1. n \in Nat
  BY FS_CardinalityType
<1>2. q \in [1 .. n -> S] /\ DOMAIN q = 1 .. n /\ \A i, j \in 1 .. n : i < j => q[i] < q[j]
  BY DEF InOrder
<1> SUFFICES \A i, j \in 1 .. n : q[i] = q[j] => i = j
  BY <1>1, <1>2
<1> HIDE DEF n
<1>3. ASSUME NEW i \in 1 .. n, NEW j \in 1 .. n, q[i] = q[j] PROVE i = j
  <2>1. q[i] \in Nat /\ q[j] \in Nat
    BY <1>2
  <2>2. ~(i < j) /\ ~(j < i)
    BY <1>2, <1>3, <2>1
  <2> QED  BY <1>1, <2>2
<1> QED  BY <1>3

LEMMA HandleEngineUpSound ==
  ASSUME Sound, HandleEngineUp
  PROVE  Sound' /\ CallsKept
<1> DEFINE m == Head(msgs).call
           full == {hw \in HwIds : geofences[hw] # Absent}
           gt == geofences'
           it == idMap'
<1>1. StateTypes /\ Shapes /\ Waits /\ calls \in Seq(Calls)
  BY DEF Sound, Waits, StateTypes
<1>2. msgs # <<>> /\ msgs' = Tail(msgs) /\ m.cb = "engineUp"
      /\ UNCHANGED <<clients, used, reqs, modemVars>>
  BY DEF HandleEngineUp, Received
<1>3. P[1].call = m /\ 1 \in DOMAIN P /\ \A j \in DOMAIN P : j \in Nat /\ j >= 1
  BY <1>1, <1>2, HeadFacts, PipeShapes
<1>4. ~Pends(P[1])
  BY <1>2, <1>3 DEF Pends
<1>5. CASE UNCHANGED <<tables, calls>>
  <2>1. geofences' = geofences /\ idMap' = idMap /\ calls' = calls
    BY <1>5 DEF tables
  <2>2. NewFences(P, reqs, geofences, used, 2) /\ NewDrops(P, reqs, reqs, idMap, idMap, <<>>, 2)
    BY <1>1, FencesShrink, MapShrinks
  <2>3. calls' = calls \o <<>> /\ <<>> \in Seq(Calls) /\ 1 .. Len(<<>>) = {}
    BY <1>1, <2>1, NoItems
  <2>4. geofences' \in [HwIds -> Fences \cup {Absent}] /\ idMap' \in [Ids -> HwIds \cup {None}]
    BY <1>1, <2>1 DEF StateTypes
  <2>5. NewFences(P, reqs, geofences', used, 2) /\ NewDrops(P, reqs, reqs, idMap, idMap', <<>>, 2)
    BY <2>1, <2>2
  <2> QED  BY <1>2, <1>4, <2>3, <2>4, <2>5, QuietTaken
<1>6. ASSUME NEW q \in InOrder(full),
             calls' = calls \o [j \in DOMAIN q |-> Call("add", None, geofences[q[j]], "readd", None, 0)],
             gt = [hw \in HwIds |-> Absent], it = [id \in Ids |-> None]
      PROVE  Sound' /\ CallsKept
  <2> DEFINE new == [j \in DOMAIN q |-> Call("add", None, geofences[q[j]], "readd", None, 0)]
  <2>1. PICK n \in Nat : /\ DOMAIN q = 1 .. n /\ q \in [1 .. n -> full]
                         /\ \A i, j \in 1 .. n : q[i] = q[j] => i = j
    <3>1. full \subseteq Nat /\ IsFiniteSet(full)
      BY IdsAssumption, FS_Subset
    <3> HIDE DEF full
    <3> QED  BY <3>1, OrderFacts
  <2>2. \A j \in 1 .. n : q[j] \in HwIds /\ geofences[q[j]] \in Fences
    BY <1>1, <2>1 DEF StateTypes
  <2>3. ASSUME NEW j \in 1 .. n
        PROVE  /\ new[j] \in Calls /\ new[j].op = "add" /\ new[j].cb = "readd"
               /\ new[j].fence = geofences[q[j]] /\ CallShape(reqs, new[j])
    <3> DEFINE f == geofences[q[j]]
               c == Call("add", None, f, "readd", None, 0)
    <3>1. f \in Fences /\ f \in [id : Ids \cup {None}, opt : Opts \cup {None}, paused : BOOLEAN]
          /\ f.id \in Ids
      BY <2>2, NoneFacts
    <3>2. new[j] = c
      BY <2>1
    <3> HIDE DEF f
    <3>3. c \in Calls /\ c.op = "add" /\ c.cb = "readd" /\ c.fence = f
      BY <3>1 DEF Call, Calls, Kinds
    <3> HIDE DEF c
    <3>4. CallShape(reqs, c)
      BY <3>1, <3>3 DEF CallShape, Kinds
    <3> QED  BY <3>2, <3>3, <3>4 DEF f
  <2>4. DOMAIN new = 1 .. n
    BY <2>1
  <2> SUFFICES ASSUME calls' = calls \o new PROVE Sound' /\ CallsKept
    BY <1>6
  <2> HIDE DEF new
  <2>5. new \in Seq(Calls) /\ Len(new) = n
    <3>1. new \in [1 .. n -> Calls]
      <4>1. new = [j \in 1 .. n |-> new[j]]
        BY <2>1, <2>4 DEF new
      <4> QED  BY <2>3, <4>1
    <3> QED  BY <2>4, <3>1
  <2>6. NewItems(P, reqs, new, 2)
    BY <1>1, <1>3, <1>4, <2>3, <2>5, IdleNew
  <2>7. NewAdds(P, reqs, reqs, gt, used, new, 2)
    <3>1. \A j \in 1 .. n : AddOf(reqs, Item(new[j], TRUE)) = geofences[q[j]].id
      BY <2>3 DEF AddOf, Item
    <3>2. \A hw \in HwIds : gt[hw].id = None
      BY <1>6, NoneFacts
    <3>3. /\ \A h1, h2 \in HwIds : geofences[h1].id # None /\ geofences[h2].id = geofences[h1].id => h1 = h2
          /\ \A j \in DOMAIN P, h \in HwIds :
               AddOf(reqs, P[j]) # None => geofences[h].id # AddOf(reqs, P[j])
          /\ \A h \in HwIds : geofences[h].id \in used \cup {None}
      BY <1>1 DEF Waits, Tokens
    <3>4. \A j \in 1 .. n : geofences[q[j]].id # None
      BY <2>2, NoneFacts
    <3> HIDE DEF gt, full
    <3>5. ASSUME NEW i \in 1 .. n
          PROVE  /\ AddOf(reqs, Item(new[i], TRUE)) \in used
                 /\ \A k \in 1 .. n :
                      AddOf(reqs, Item(new[k], TRUE)) = AddOf(reqs, Item(new[i], TRUE)) => k = i
                 /\ \A hw \in HwIds : gt[hw].id # AddOf(reqs, Item(new[i], TRUE))
                 /\ \A j \in DOMAIN P :
                      j >= 2 => AddOf(reqs, P[j]) # AddOf(reqs, Item(new[i], TRUE))
      <4>1. ASSUME NEW k \in 1 .. n, geofences[q[k]].id = geofences[q[i]].id PROVE k = i
        <5>1. q[k] = q[i]
          BY <2>2, <3>3, <3>4, <4>1
        <5> QED  BY <2>1, <5>1
      <4>2. \A j \in DOMAIN P : AddOf(reqs, P[j]) # geofences[q[i]].id
        BY <2>2, <3>3, <3>4
      <4>3. geofences[q[i]].id \in used
        BY <2>2, <3>3, <3>4
      <4> QED  BY <3>1, <3>2, <3>4, <4>1, <4>2, <4>3
    <3> QED  BY <2>5, <3>5 DEF NewAdds
  <2>8. NewFences(P, reqs, gt, used, 2)
    <3>1. \A hw \in HwIds : gt[hw].id = None
      BY <1>6, NoneFacts
    <3> HIDE DEF gt
    <3> QED  BY <3>1 DEF NewFences
  <2>9. NewDrops(P, reqs, reqs, idMap, it, new, 2)
    <3>1. \A k \in 1 .. Len(new) : \A id : ~Drops(Item(new[k], TRUE), id)
      BY <2>3, <2>5 DEF Drops, Item
    <3>2. \A id \in Ids : it[id] = None
      BY <1>6
    <3> HIDE DEF it
    <3> QED  BY <3>1, <3>2 DEF NewDrops
  <2>10. gt \in [HwIds -> Fences \cup {Absent}] /\ it \in [Ids -> HwIds \cup {None}]
    BY <1>6
  <2>11. reqs' = reqs /\ used' = used
    BY <1>2
  <2>12. SameAsks(reqs, reqs') /\ RequestsTrue'
    BY <2>11 DEF SameAsks, Sound, RequestsTrue
  <2>13. /\ NewItems(P, reqs', new, 2)
         /\ NewAdds(P, reqs, reqs', geofences', used', new, 2)
         /\ NewFences(P, reqs, geofences', used', 2)
         /\ NewDrops(P, reqs, reqs', idMap, idMap', new, 2)
         /\ \A k \in 1 .. Len(new) : CallShape(reqs', new[k])
    BY <2>3, <2>5, <2>6, <2>7, <2>8, <2>9, <2>11
  <2>14. NoOpen(new)
    BY <2>3, <2>5 DEF NoOpen
  <2> QED  BY <1>2, <2>5, <2>10, <2>12, <2>13, <2>14, TakenSound
<1> QED  BY <1>5, <1>6 DEF HandleEngineUp, Readds

LEMMA RemoveClientSound ==
  ASSUME Sound, MapsAgree, NEW c \in Clients, RemoveClient(c)
  PROVE  Sound' /\ CallsKept
<1> DEFINE mine == {id \in Ids : Owner[id] = c /\ idMap[id] # None}
           Drop(id) == Call("remove", idMap[id], [Absent EXCEPT !.id = id], "drop", None, 0)
           it == idMap'
<1>1. StateTypes /\ Shapes /\ Waits /\ calls \in Seq(Calls)
  BY DEF Sound, Waits, StateTypes
<1>2. PICK q \in InOrder(mine) : calls' = calls \o [j \in DOMAIN q |-> Drop(q[j])]
  BY DEF RemoveClient
<1>3. /\ msgs' = msgs /\ used' = used /\ geofences' = geofences /\ reqs' = reqs
      /\ modem' = modem /\ modemUp' = modemUp /\ ssrs' = ssrs /\ clients' \subseteq clients
      /\ it = [id \in Ids |-> IF id \in mine THEN None ELSE idMap[id]]
  BY DEF RemoveClient, modemVars
<1>4. PICK n \in Nat : /\ DOMAIN q = 1 .. n /\ q \in [1 .. n -> mine]
                       /\ \A i, j \in 1 .. n : q[i] = q[j] => i = j
  <2>1. mine \subseteq Nat /\ IsFiniteSet(mine)
    BY IdsAssumption, FS_Subset
  <2> HIDE DEF mine
  <2> QED  BY <2>1, OrderFacts
<1>5. \A j \in 1 .. n : q[j] \in Ids /\ idMap[q[j]] \in HwIds /\ q[j] \in mine
  BY <1>1, <1>4 DEF StateTypes
<1> DEFINE new == [j \in DOMAIN q |-> Drop(q[j])]
<1>6. ASSUME NEW j \in 1 .. n
      PROVE  /\ new[j] \in Calls /\ new[j].op = "remove" /\ new[j].cb = "drop"
             /\ new[j].fence.id = q[j] /\ CallShape(reqs, new[j])
  <2> DEFINE id == q[j]
             hw == idMap[id]
             f == [Absent EXCEPT !.id = id]
             d == Call("remove", hw, f, "drop", None, 0)
  <2>1. id \in Ids /\ hw \in HwIds
    BY <1>5
  <2>2. new[j] = d
    BY <1>4
  <2> HIDE DEF id, hw
  <2>3. f.id = id /\ f \in [id : Ids \cup {None}, opt : Opts \cup {None}, paused : BOOLEAN]
    BY <2>1 DEF Absent
  <2> HIDE DEF f
  <2>4. d \in Calls /\ d.op = "remove" /\ d.cb = "drop" /\ d.fence = f /\ d.hw = hw
    BY <2>1, <2>3 DEF Call, Calls, Kinds
  <2> HIDE DEF d
  <2>5. CallShape(reqs, d)
    BY <2>1, <2>3, <2>4 DEF CallShape, Kinds
  <2> QED  BY <2>2, <2>3, <2>4, <2>5 DEF id
<1>7. DOMAIN new = 1 .. n /\ calls' = calls \o new
  BY <1>2, <1>4
<1> HIDE DEF new
<1>8. new \in Seq(Calls) /\ Len(new) = n
  <2>1. new \in [1 .. n -> Calls]
    <3>1. new = [j \in 1 .. n |-> new[j]]
      BY <1>4, <1>7 DEF new
    <3> QED  BY <1>6, <3>1
  <2> QED  BY <1>7, <2>1
<1>9. \A j \in DOMAIN P : j \in Nat /\ j >= 1
  BY <1>1, PipeShapes
<1>10. NewItems(P, reqs, new, 1)
  BY <1>1, <1>6, <1>8, <1>9, IdleNew
<1>11. \A k \in 1 .. Len(new) : AddOf(reqs, Item(new[k], TRUE)) = None
  BY <1>6, <1>8 DEF AddOf, Item
<1>12. NewAdds(P, reqs, reqs, geofences, used, new, 1)
  BY <1>11 DEF NewAdds
<1>13. NewDrops(P, reqs, reqs, idMap, it, new, 1)
  <2>1. ASSUME NEW k \in 1 .. Len(new), NEW id \in Ids, Drops(Item(new[k], TRUE), id)
        PROVE  it[id] = None /\ \A j \in DOMAIN P : AddOf(reqs, P[j]) # id
    <3>1. id \in mine
      BY <1>5, <1>6, <1>8, <2>1 DEF Drops, Item
    <3>2. geofences[idMap[id]].id = id /\ idMap[id] \in HwIds
      BY <1>1, <3>1 DEF MapsAgree, StateTypes
    <3>3. \A j \in DOMAIN P : AddOf(reqs, P[j]) # id
      BY <1>1, <3>2, NoneFacts DEF Waits, Tokens
    <3> QED  BY <1>3, <3>1, <3>3
  <2>2. \A id \in Ids : it[id] = None \/ idMap[id] # None \/ it[id] = idMap[id]
    BY <1>3
  <2>3. \A id \in Ids : it[id] = None \/ idMap[id] # None
    BY <2>2
  <2>4. \A id \in Ids : None # id
    BY NoneFacts
  <2> HIDE DEF it
  <2> QED  BY <1>11, <2>1, <2>3, <2>4 DEF NewDrops
<1>14. it \in [Ids -> HwIds \cup {None}]
  BY <1>1, <1>3 DEF StateTypes
<1>15. SameAsks(reqs, reqs') /\ RequestsTrue'
  BY <1>3 DEF SameAsks, Sound, RequestsTrue
<1>16. /\ NewItems(P, reqs', new, 1)
       /\ NewAdds(P, reqs, reqs', geofences', used', new, 1)
       /\ NewDrops(P, reqs, reqs', idMap, idMap', new, 1)
       /\ \A k \in 1 .. Len(new) : CallShape(reqs', new[k])
  BY <1>3, <1>6, <1>8, <1>10, <1>12, <1>13
<1>17. modem' \in [HwIds -> Fences \cup {Absent}] /\ modemUp' \in BOOLEAN /\ ssrs' \in 0 .. MaxSsr
       /\ used \subseteq used' /\ used' \subseteq Ids
  BY <1>1, <1>3 DEF StateTypes
<1>18. NoOpen(new)
  BY <1>6, <1>8 DEF NoOpen
<1> QED  BY <1>3, <1>7, <1>8, <1>14, <1>15, <1>16, <1>17, <1>18, GrownSound

-----------------------------------------------------------------------------
(***************************************************************************)
(* Requests.                                                               *)
(***************************************************************************)
LEMMA RequestSound ==
  ASSUME Sound, NEW r \in Reqs, NEW kind \in Kinds, NEW S, S \subseteq Ids,
         NEW ids \in Batches(kind, S), NEW opt \in Opts, Request(r, kind, ids, opt),
         \/ kind = "add" /\ S = Ids \ used /\ used' = used \cup {ids[j] : j \in DOMAIN ids}
         \/ kind # "add" /\ used' = used
  PROVE  Sound' /\ CallsKept
<1> DEFINE n == Len(ids)
           blank == [j \in 1 .. n |-> "none"]
           ask == [kind |-> kind, ids |-> ids, opt |-> opt,
                   errs |-> blank, real |-> blank, sent |-> 0]
           new == [j \in 1 .. n |-> Call("turn", None, Absent, "turn", r, j)]
           rt == reqs'
<1>1. StateTypes /\ Shapes /\ Waits /\ calls \in Seq(Calls) /\ RequestsTrue
  BY DEF Sound, Waits, StateTypes
<1>2. /\ ids \in Seq(Ids) /\ n \in {1, 2} /\ DOMAIN ids = 1 .. n
      /\ \A j \in 1 .. n : ids[j] \in S
      /\ \A i, j \in 1 .. n : ids[i] = ids[j] => i = j
      /\ n = 2 => kind \in Multi
  <2>1. CASE \E id \in S : ids = <<id>>
    BY <2>1
  <2>2. CASE ids \in {q \in S \X S : kind \in Multi /\ q[1] # q[2]}
    <3>1. PICK a \in S, b \in S : ids = <<a, b>> /\ a # b /\ kind \in Multi
      BY <2>2
    <3> QED  BY <3>1
  <2> QED  BY <2>1, <2>2 DEF Batches
<1>3. reqs[r] = NoRequest /\ rt = [reqs EXCEPT ![r] = ask] /\ calls' = calls \o new
      /\ UNCHANGED <<clients, tables, msgs, modemVars>>
  BY DEF Request
<1> HIDE DEF n
<1>4. n \in Nat /\ n >= 1
  BY <1>2
<1>5. ASSUME NEW j \in 1 .. n
      PROVE  new[j] \in Calls /\ new[j].cb = "turn" /\ new[j].op = "turn" /\ new[j].r = r /\ new[j].i = j
  <2>1. j \in Nat
    BY <1>4
  <2>2. Absent \in [id : Ids \cup {None}, opt : Opts \cup {None}, paused : BOOLEAN]
    BY NoneFacts
  <2> QED  BY <2>1, <2>2 DEF Call, Calls
<1>6. new \in Seq(Calls) /\ Len(new) = n
  <2>1. new \in [1 .. n -> Calls] /\ DOMAIN new = 1 .. n
    BY <1>5
  <2> HIDE DEF new
  <2> QED  BY <1>4, <2>1
<1>7. blank \in Seq(Errors) /\ Len(blank) = n /\ \A j \in 1 .. n : blank[j] = "none"
  <2>1. blank \in [1 .. n -> Errors] /\ DOMAIN blank = 1 .. n
    BY DEF Errors
  <2> HIDE DEF blank
  <2>2. blank \in Seq(Errors) /\ Len(blank) = n
    BY <1>4, <2>1
  <2> QED  BY <2>2 DEF blank
<1>8. blank \in Seq(Errors) /\ DOMAIN blank = 1 .. n
  BY <1>7
<1> HIDE DEF blank
<1>9. ask \in Requests /\ ask # NoRequest /\ ask.kind = kind /\ ask.ids = ids /\ ask.opt = opt
      /\ ask.errs = blank /\ ask.real = blank /\ ask.sent = 0
  <2>1. kind # None \/ opt # None
    BY NoneFacts
  <2>2. ask \in Requests /\ ask.kind = kind /\ ask.ids = ids /\ ask.opt = opt
        /\ ask.errs = blank /\ ask.real = blank /\ ask.sent = 0
    BY <1>2, <1>8 DEF Requests
  <2>3. NoRequest.opt = None
    BY DEF NoRequest
  <2> HIDE DEF ask
  <2> QED  BY <2>2, <2>3, NoneFacts
<1> HIDE DEF ask
<1>10. /\ rt[r] = ask /\ \A s \in Reqs : s # r => rt[s] = reqs[s]
       /\ rt \in [Reqs -> Requests \cup {NoRequest}]
  BY <1>1, <1>3, <1>9 DEF RequestsTrue
<1>11. RequestTrue(ask)
  <2>1. Len(ids) = n /\ Len(blank) = n
    BY <1>7 DEF n
  <2>2. blank[n] = "none"
    BY <1>4, <1>7
  <2>3. n = 1 \/ kind \in Multi
    BY <1>2
  <2> QED  BY <1>4, <1>9, <2>1, <2>2, <2>3 DEF RequestTrue
<1>12. RequestsTrue'
  BY <1>1, <1>10, <1>11 DEF RequestsTrue
<1>13. SameAsks(reqs, reqs')
  BY <1>3, <1>10 DEF SameAsks
<1>14. \A j \in 1 .. n : CallShape(rt, new[j])
  <2>1. ASSUME NEW j \in 1 .. n PROVE CallShape(rt, new[j])
    <3>1. rt[r] # NoRequest /\ j \in DOMAIN rt[r].ids
      BY <1>2, <1>9, <1>10
    <3>2. new[j].cb = "turn" /\ new[j].op = "turn" /\ new[j].r = r /\ new[j].i = j
      BY <1>5
    <3> HIDE DEF new, rt
    <3> QED  BY <3>1, <3>2 DEF CallShape, Kinds
  <2> QED  BY <2>1
<1>15. \A j \in DOMAIN P : Pends(P[j]) => P[j].call.r # r
  BY <1>1, <1>3, PipeShapes DEF Pends, CallShape
<1>16. NewItems(P, rt, new, 1)
  <2>1. \A k \in 1 .. n : /\ Item(new[k], TRUE).call = new[k] /\ Pends(Item(new[k], TRUE))
                          /\ PendsFor(Item(new[k], TRUE), r, k)
    BY <1>5 DEF Item, Pends, PendsFor
  <2> HIDE DEF new, rt
  <2>2. ASSUME NEW j \in DOMAIN P, NEW k \in 1 .. n
        PROVE  Ordered(0, P[j], 1, Item(new[k], TRUE)) /\ Ordered(1, Item(new[k], TRUE), 0, P[j])
    BY <1>5, <1>15, <2>1, ZenonT(40) DEF Ordered
  <2>3. ASSUME NEW k \in 1 .. n, NEW l \in 1 .. n
        PROVE  Ordered(k, Item(new[k], TRUE), l, Item(new[l], TRUE))
    <3>1. new[k].i = k /\ new[l].i = l /\ new[k].cb = "turn" /\ new[l].cb = "turn"
      BY <1>5
    <3>2. Item(new[k], TRUE).call = new[k] /\ Item(new[l], TRUE).call = new[l]
      BY <2>1
    <3> QED  BY <3>1, <3>2 DEF Ordered
  <2>4. ASSUME NEW s \in Reqs, NEW i \in DOMAIN rt[s].real, rt[s].real[i] = "none"
        PROVE  \/ \E j \in DOMAIN P : j >= 1 /\ PendsFor(P[j], s, i)
               \/ \E k \in 1 .. n : PendsFor(Item(new[k], TRUE), s, i)
    <3>1. CASE s = r
      <4>1. i \in 1 .. n
        BY <1>8, <1>9, <1>10, <3>1
      <4> QED  BY <2>1, <3>1, <4>1
    <3>2. CASE s # r
      <4>1. PICK j \in DOMAIN P : PendsFor(P[j], s, i)
        BY <1>1, <1>10, <2>4, <3>2 DEF Waits, ItemsWait
      <4>2. j >= 1
        BY <1>1, PipeShapes
      <4> QED  BY <4>1, <4>2
    <3> QED  BY <3>1, <3>2
  <2>5. ASSUME NEW j \in DOMAIN P, Pends(P[j]) PROVE rt[P[j].call.r].real[P[j].call.i] = "none"
    <3>1. P[j].call.r \in Reqs
      BY <1>1, <2>5, PipeShapes DEF Pends, CallShape
    <3>2. reqs[P[j].call.r].real[P[j].call.i] = "none"
      BY <1>1, <2>5 DEF Waits, ItemsWait
    <3> QED  BY <1>10, <1>15, <2>5, <3>1, <3>2
  <2>6. ASSUME NEW k \in 1 .. n PROVE rt[new[k].r].real[new[k].i] = "none"
    BY <1>5, <1>7, <1>9, <1>10
  <2> QED  BY <1>6, <2>2, <2>3, <2>4, <2>5, <2>6 DEF NewItems
<1> DEFINE A(k) == AddOf(rt, Item(new[k], TRUE))
<1>17. \A k \in 1 .. n : A(k) = IF kind = "add" THEN ids[k] ELSE None
  BY <1>5, <1>9, <1>10 DEF AddOf, Item
<1>18. NewAdds(P, reqs, rt, geofences, used', new, 1)
  <2>1. CASE kind # "add"
    <3>1. \A k \in 1 .. Len(new) : A(k) = None
      BY <1>6, <1>17, <2>1
    <3> HIDE DEF new, rt
    <3> QED  BY <3>1 DEF NewAdds
  <2>2. CASE kind = "add"
    <3>1. S = Ids \ used /\ used' = used \cup {ids[j] : j \in 1 .. n}
      BY <1>2, <2>2
    <3>2. ASSUME NEW i \in 1 .. n
          PROVE  /\ A(i) \in used' /\ \A k \in 1 .. n : A(k) = A(i) => k = i
                 /\ \A hw \in HwIds : geofences[hw].id # A(i)
                 /\ \A j \in DOMAIN P : AddOf(reqs, P[j]) # A(i)
      <4>1. A(i) = ids[i] /\ ids[i] \notin used \cup {None} /\ \A k \in 1 .. n : A(k) = ids[k]
        BY <1>2, <1>17, <2>2, <3>1, NoneFacts
      <4> HIDE DEF new, rt
      <4>2. \A k \in 1 .. n : A(k) = A(i) => k = i
        BY <1>2, <4>1
      <4>3. /\ \A hw \in HwIds : geofences[hw].id # ids[i]
            /\ \A j \in DOMAIN P : AddOf(reqs, P[j]) # ids[i]
        BY <1>1, <4>1 DEF Waits, Tokens
      <4>4. ids[i] \in used'
        BY <3>1
      <4> QED  BY <4>1, <4>2, <4>3, <4>4
    <3> HIDE DEF new, rt
    <3> QED  BY <1>6, <3>2 DEF NewAdds
  <2> QED  BY <2>1, <2>2
<1>19. NewDrops(P, reqs, rt, idMap, idMap, new, 1)
  <2>1. \A k \in 1 .. Len(new) : \A id : ~Drops(Item(new[k], TRUE), id)
    BY <1>5, <1>6 DEF Drops, Item
  <2> HIDE DEF new, rt
  <2> QED  BY <2>1 DEF NewDrops
<1>20. idMap' = idMap /\ geofences' = geofences /\ clients' = clients /\ msgs' = msgs
       /\ modem' = modem /\ modemUp' = modemUp /\ ssrs' = ssrs
  BY <1>3 DEF tables, modemVars
<1>21. used \subseteq used' /\ used' \subseteq Ids
  BY <1>1, <1>2 DEF StateTypes
<1>22. /\ NewItems(P, reqs', new, 1)
       /\ NewAdds(P, reqs, reqs', geofences', used', new, 1)
       /\ NewDrops(P, reqs, reqs', idMap, idMap', new, 1)
  BY <1>16, <1>18, <1>19, <1>20
<1>23. \A k \in 1 .. Len(new) : CallShape(reqs', new[k])
  BY <1>6, <1>14
<1>24. modem' \in [HwIds -> Fences \cup {Absent}] /\ modemUp' \in BOOLEAN /\ ssrs' \in 0 .. MaxSsr
       /\ idMap' \in [Ids -> HwIds \cup {None}] /\ clients' \subseteq clients
  BY <1>1, <1>20 DEF StateTypes
<1> HIDE DEF new, rt
<1>25. NoOpen(new)
  BY <1>5, <1>6 DEF NoOpen
<1> QED  BY <1>3, <1>6, <1>12, <1>13, <1>20, <1>21, <1>22, <1>23, <1>24, <1>25, GrownSound

-----------------------------------------------------------------------------
(***************************************************************************)
(* Turns and answers.                                                      *)
(***************************************************************************)
Resulting(r, i, err, writes, reports) ==
  /\ \A s \in Reqs : s # r => reqs'[s] = reqs[s]
  /\ reqs'[r].kind = reqs[r].kind
  /\ reqs'[r].real = [reqs[r].real EXCEPT ![i] = err]
  /\ reqs'[r].errs = [reqs[r].errs EXCEPT ![i] = IF writes THEN err ELSE @]
  /\ reqs'[r].sent = IF reports /\ i = Len(reqs[r].ids) THEN reqs[r].sent + 1 ELSE reqs[r].sent

LEMMA EndedFacts ==
  ASSUME RequestsTrue, NEW r \in Reqs, reqs[r] # NoRequest, NEW i \in DOMAIN reqs[r].ids,
         NEW err \in {"ok", "failed", "unknown"}, NEW writes \in BOOLEAN, NEW reports \in BOOLEAN,
         reqs[r].real[i] = "none", reqs[r].kind = "add" => writes,
         reports \/ (reqs[r].kind = "resume" /\ err = "failed"),
         Ended(r, i, err, writes, reports)
  PROVE  /\ RequestsTrue' /\ SameAsks(reqs, reqs')
         /\ Resulting(r, i, err, writes, reports)
<1> DEFINE q == reqs[r]
           n == Len(q.ids)
           real == [q.real EXCEPT ![i] = err]
           errs == [q.errs EXCEPT ![i] = IF writes THEN err ELSE @]
           sent == IF reports /\ i = n THEN q.sent + 1 ELSE q.sent
           t == [q EXCEPT !.real = real, !.errs = errs, !.sent = sent]
<1>1. RequestTrue(q)
  BY DEF RequestsTrue
<1>2. q \in [kind : Kinds, ids : Seq(Ids), opt : Opts, errs : Seq(Errors),
             real : Seq(Errors), sent : {0, 1}]
  BY <1>1 DEF RequestTrue, Requests
<1>3. /\ n >= 1 /\ n \in Nat /\ Len(q.errs) = n /\ Len(q.real) = n
      /\ DOMAIN q.ids = 1 .. n /\ DOMAIN q.real = 1 .. n /\ DOMAIN q.errs = 1 .. n
      /\ q.real[n] = "none" => q.sent = 0
  BY <1>1, <1>2 DEF RequestTrue
<1>4. reqs' = [reqs EXCEPT ![r] = t]
  BY <1>2 DEF Ended
<1>5. real \in Seq(Errors) /\ Len(real) = n /\ errs \in Seq(Errors) /\ Len(errs) = n
  <2>1. \A w \in Seq(Errors) : \A e \in Errors : \A k \in DOMAIN w :
          [w EXCEPT ![k] = e] \in Seq(Errors) /\ Len([w EXCEPT ![k] = e]) = Len(w)
    BY ExceptSeq
  <2>2. err \in Errors /\ i \in DOMAIN q.real /\ i \in DOMAIN q.errs
    BY <1>3 DEF Errors
  <2>3. q.errs[i] \in Errors
    BY <1>2, <2>2
  <2>4. (IF writes THEN err ELSE q.errs[i]) \in Errors
    BY <2>2, <2>3
  <2> QED  BY <1>2, <1>3, <2>1, <2>2, <2>4
<1>6. sent \in {0, 1}
  <2>1. reports /\ i = n => q.sent = 0
    BY <1>3
  <2>2. q.sent \in {0, 1}
    BY <1>2
  <2> QED  BY <2>1, <2>2
<1> HIDE DEF real, errs, sent
<1>7. /\ t.kind = q.kind /\ t.ids = q.ids /\ t.opt = q.opt
      /\ t.real = real /\ t.errs = errs /\ t.sent = sent
      /\ t \in Requests
  BY <1>2, <1>5, <1>6 DEF Requests
<1> HIDE DEF t
<1>8. /\ reqs'[r] = t /\ \A s \in Reqs : s # r => reqs'[s] = reqs[s]
      /\ reqs' \in [Reqs -> Requests \cup {NoRequest}]
  BY <1>4, <1>7 DEF RequestsTrue
<1>9. real[n] = IF i = n THEN err ELSE q.real[n]
  BY <1>3 DEF real
<1>10. q.kind = "add" => errs = real
  BY <1>1 DEF RequestTrue, errs, real
<1>11. RequestTrue(t)
  <2>1. Len(t.ids) = n
    BY <1>7
  <2>2. real[n] = "none" => sent = 0
    <3>1. CASE i = n
      BY <1>9, <3>1
    <3>2. CASE i # n
      BY <1>3, <1>9, <3>2 DEF sent
    <3> QED  BY <3>1, <3>2
  <2>3. real[n] # "none" => sent = 1 \/ (q.kind = "resume" /\ real[n] = "failed")
    <3>1. CASE i = n /\ reports
      BY <1>3, <3>1 DEF sent
    <3>2. CASE i = n /\ ~reports
      BY <1>9, <3>2
    <3>3. CASE i # n
      BY <1>1, <1>9, <3>3 DEF RequestTrue, sent
    <3> QED  BY <3>1, <3>2, <3>3
  <2>4. q.kind \notin Multi => n = 1
    BY <1>1 DEF RequestTrue
  <2> HIDE DEF n
  <2> QED  BY <1>3, <1>5, <1>7, <1>10, <2>1, <2>2, <2>3, <2>4 DEF RequestTrue
<1>12. t # NoRequest
  BY <1>7, <1>2, NoneFacts DEF NoRequest
<1>13. RequestsTrue'
  BY <1>8, <1>11 DEF RequestsTrue
<1>14. SameAsks(reqs, reqs')
  BY <1>7, <1>8, <1>12 DEF SameAsks
<1> QED  BY <1>7, <1>8, <1>13, <1>14 DEF Resulting, real, errs, sent

\* The item at the head is the only one of its geofence.
LEMMA OnlyItem ==
  ASSUME StateTypes, Shapes, Waits, 1 \in DOMAIN P, Pends(P[1])
  PROVE  /\ \A j \in DOMAIN P : j \in Nat /\ j >= 1
         /\ P[1].call.r \in Reqs /\ reqs[P[1].call.r] # NoRequest
         /\ P[1].call.i \in DOMAIN reqs[P[1].call.r].ids
         /\ reqs[P[1].call.r].real[P[1].call.i] = "none"
         /\ \A j \in DOMAIN P : PendsFor(P[j], P[1].call.r, P[1].call.i) => j = 1
<1>1. \A j \in DOMAIN P : j \in Nat /\ j >= 1
  BY PipeShapes
<1>2. CallShape(reqs, P[1].call)
  BY PipeShapes
<1>3. reqs[P[1].call.r].real[P[1].call.i] = "none"
  BY DEF Waits, ItemsWait
<1>4. ASSUME NEW j \in DOMAIN P, PendsFor(P[j], P[1].call.r, P[1].call.i) PROVE j = 1
  <2>1. Ordered(j, P[j], 1, P[1])
    BY DEF Waits, ItemsOrdered
  <2> QED  BY <1>4, <2>1 DEF Ordered, PendsFor
<1> QED  BY <1>1, <1>2, <1>3, <1>4 DEF CallShape, Pends

\* rt is rq with the result of one geofence.
Resulted(rq, rt, r, i, err) ==
  /\ err # "none" /\ rq[r].real \in Seq(Errors)
  /\ \A s \in Reqs : s # r => rt[s] = rq[s]
  /\ rt[r].real = [rq[r].real EXCEPT ![i] = err]

LEMMA EndedItems ==
  ASSUME StateTypes, Shapes, Waits, 1 \in DOMAIN P, Pends(P[1]),
         NEW r, r = P[1].call.r, NEW i, i = P[1].call.i, NEW err, NEW rt,
         Resulted(reqs, rt, r, i, err)
  PROVE  NewItems(P, rt, <<>>, 2)
<1>0. /\ err # "none" /\ reqs[r].real \in Seq(Errors)
      /\ \A s \in Reqs : s # r => rt[s] = reqs[s]
      /\ rt[r].real = [reqs[r].real EXCEPT ![i] = err]
  BY DEF Resulted
<1>1. /\ \A j \in DOMAIN P : j \in Nat /\ j >= 1
      /\ r \in Reqs /\ \A j \in DOMAIN P : PendsFor(P[j], r, i) => j = 1
  BY OnlyItem
<1>2. \A k \in DOMAIN rt[r].real : /\ k \in DOMAIN reqs[r].real
                                   /\ rt[r].real[k] = IF k = i THEN err ELSE reqs[r].real[k]
  BY <1>0
<1>3. ASSUME NEW s \in Reqs, NEW k \in DOMAIN rt[s].real, rt[s].real[k] = "none"
      PROVE  \E j \in DOMAIN P : j >= 2 /\ PendsFor(P[j], s, k)
  <2>1. k \in DOMAIN reqs[s].real /\ reqs[s].real[k] = "none" /\ ~(s = r /\ k = i)
    BY <1>0, <1>2, <1>3
  <2>2. PICK j \in DOMAIN P : PendsFor(P[j], s, k)
    BY <2>1 DEF Waits, ItemsWait
  <2>3. j # 1
    BY <2>1, <2>2 DEF PendsFor
  <2>4. j >= 2
    BY <1>1, <2>3
  <2> QED  BY <2>2, <2>4
<1>4. ASSUME NEW j \in DOMAIN P, j >= 2, Pends(P[j])
      PROVE  rt[P[j].call.r].real[P[j].call.i] = "none"
  <2> DEFINE s == P[j].call.r
             k == P[j].call.i
  <2>1. s \in Reqs /\ reqs[s].real[k] = "none"
    <3>1. CallShape(reqs, P[j].call)
      BY PipeShapes
    <3> QED  BY <1>4, <3>1 DEF Pends, CallShape, Waits, ItemsWait
  <2>2. ~(s = r /\ k = i)
    <3>1. j # 1
      BY <1>1, <1>4
    <3> QED  BY <1>1, <1>4, <3>1 DEF PendsFor
  <2> HIDE DEF s, k
  <2>3. CASE s # r
    BY <1>0, <2>1, <2>3 DEF s, k
  <2>4. CASE s = r
    <3>1. k # i
      BY <2>2, <2>4
    <3>2. rt[r].real[k] = reqs[r].real[k]
      BY <1>0, <3>1
    <3> QED  BY <2>1, <2>4, <3>2 DEF s, k
  <2> QED  BY <2>3, <2>4
<1>5. 1 .. Len(<<>>) = {}
  OBVIOUS
<1> QED  BY <1>3, <1>4, <1>5 DEF NewItems

\* A lookup that succeeds is taken for a success so far: no result is written.
LEMMA MarkedFacts ==
  ASSUME RequestsTrue, NEW r \in Reqs, reqs[r] # NoRequest, NEW i \in DOMAIN reqs[r].ids,
         reqs[r].kind # "add", reqs' = [reqs EXCEPT ![r].errs[i] = "ok"]
  PROVE  /\ RequestsTrue' /\ SameAsks(reqs, reqs')
         /\ \A s \in Reqs : reqs'[s].real = reqs[s].real
         /\ \A s \in Reqs : reqs'[s].sent = reqs[s].sent
<1> DEFINE q == reqs[r]
           errs == [q.errs EXCEPT ![i] = "ok"]
           t == [q EXCEPT !.errs = errs]
<1>1. RequestTrue(q)
  BY DEF RequestsTrue
<1>2. q \in [kind : Kinds, ids : Seq(Ids), opt : Opts, errs : Seq(Errors),
             real : Seq(Errors), sent : {0, 1}]
  BY <1>1 DEF RequestTrue, Requests
<1>3. reqs' = [reqs EXCEPT ![r] = t]
  BY <1>2
<1>4. errs \in Seq(Errors) /\ Len(errs) = Len(q.ids)
  <2>1. DOMAIN q.ids = DOMAIN q.errs /\ Len(q.errs) = Len(q.ids)
    BY <1>1, <1>2 DEF RequestTrue
  <2>2. "ok" \in Errors
    BY DEF Errors
  <2> QED  BY <1>2, <2>1, <2>2, ExceptSeq
<1> HIDE DEF errs
<1>5. /\ t.kind = q.kind /\ t.ids = q.ids /\ t.opt = q.opt
      /\ t.real = q.real /\ t.errs = errs /\ t.sent = q.sent
      /\ t \in Requests
  BY <1>2, <1>4 DEF Requests
<1> HIDE DEF t
<1>6. /\ reqs'[r] = t /\ \A s \in Reqs : s # r => reqs'[s] = reqs[s]
      /\ reqs' \in [Reqs -> Requests \cup {NoRequest}]
  BY <1>3, <1>5 DEF RequestsTrue
<1>7. RequestTrue(t)
  BY <1>1, <1>4, <1>5 DEF RequestTrue
<1>8. t # NoRequest
  BY <1>2, <1>5, NoneFacts DEF NoRequest
<1>9. RequestsTrue'
  BY <1>6, <1>7 DEF RequestsTrue
<1> QED  BY <1>5, <1>6, <1>8, <1>9 DEF SameAsks

LEMMA ItemFacts == \A c : Item(c, TRUE).call = c /\ Item(c, TRUE).live = TRUE
BY DEF Item

\* The turn of a geofence becomes a call for it.
TurnBecomes(m, hw, fence, c) ==
  /\ msgs # <<>> /\ msgs' = Tail(msgs) /\ m = Head(msgs).call /\ m.cb = "turn"
  /\ hw \in HwIds \cup {None} /\ (reqs[m.r].kind # "add" => hw \in HwIds)
  /\ fence = [id |-> reqs[m.r].ids[m.i], opt |-> reqs[m.r].opt, paused |-> FALSE]
  /\ c = Call(reqs[m.r].kind, hw, fence, "done", m.r, m.i)
  /\ calls' = Append(calls, c)
  /\ RequestsTrue' /\ SameAsks(reqs, reqs') /\ \A s \in Reqs : reqs'[s].real = reqs[s].real
  /\ UNCHANGED <<clients, used, tables, modemVars>>

LEMMA TurnCalls ==
  ASSUME Sound, NEW m, NEW hw, NEW fence, NEW c, TurnBecomes(m, hw, fence, c)
  PROVE  Sound' /\ CallsKept
<1>a. msgs # <<>> /\ msgs' = Tail(msgs) /\ m = Head(msgs).call /\ m.cb = "turn"
  BY DEF TurnBecomes
<1>b. /\ hw \in HwIds \cup {None} /\ (reqs[m.r].kind # "add" => hw \in HwIds)
      /\ fence = [id |-> reqs[m.r].ids[m.i], opt |-> reqs[m.r].opt, paused |-> FALSE]
      /\ c = Call(reqs[m.r].kind, hw, fence, "done", m.r, m.i)
  BY DEF TurnBecomes
<1>c. /\ calls' = Append(calls, c)
      /\ RequestsTrue' /\ SameAsks(reqs, reqs') /\ \A s \in Reqs : reqs'[s].real = reqs[s].real
  BY DEF TurnBecomes
<1>d. clients' = clients /\ used' = used /\ geofences' = geofences /\ idMap' = idMap
      /\ modemVars' = modemVars
  BY DEF TurnBecomes, tables
<1> DEFINE q == reqs[m.r]
           new == <<c>>
           rt == reqs'
<1>1. StateTypes /\ Shapes /\ Waits /\ calls \in Seq(Calls)
  BY DEF Sound, Waits, StateTypes
<1>2. 1 \in DOMAIN P /\ P[1].call = m /\ P[1].live /\ m \in Calls /\ CallShape(reqs, m)
  <2>1. Head(msgs).call.op = "turn"
    BY <1>1, <1>a, HeadFacts DEF CallShape
  <2> QED  BY <1>1, <1>a, <2>1, HeadFacts
<1>3. Pends(P[1]) /\ m.r \in Reqs /\ q # NoRequest /\ m.i \in DOMAIN q.ids
  BY <1>2, <1>a DEF Pends, CallShape
<1>4. q \in Requests /\ q.kind \in Kinds /\ q.opt \in Opts /\ q.ids[m.i] \in Ids
  <2>1. RequestTrue(q)
    BY <1>3 DEF Sound, RequestsTrue
  <2>2. q \in [kind : Kinds, ids : Seq(Ids), opt : Opts, errs : Seq(Errors),
               real : Seq(Errors), sent : {0, 1}]
    BY ONLY <2>1 DEF RequestTrue, Requests
  <2> HIDE DEF q
  <2> QED  BY ONLY <1>3, <2>2 DEF Requests
<1>5. /\ c \in Calls /\ c.op = q.kind /\ c.hw = hw /\ c.fence = fence /\ c.cb = "done"
      /\ c.r = m.r /\ c.i = m.i /\ fence \in Fences
      /\ fence.id = q.ids[m.i] /\ fence.opt = q.opt
  <2>1. fence \in Fences /\ fence.id = q.ids[m.i] /\ fence.opt = q.opt
    BY <1>4, <1>b DEF Fences
  <2>2. fence \in [id : Ids \cup {None}, opt : Opts \cup {None}, paused : BOOLEAN]
    BY <2>1, NoneFacts
  <2>3. m.i \in Nat
    BY <1>2 DEF Calls
  <2>4. c = [op |-> q.kind, hw |-> hw, fence |-> fence, cb |-> "done", r |-> m.r, i |-> m.i]
    BY <1>b DEF Call
  <2>5. c.op = q.kind /\ c.hw = hw /\ c.fence = fence /\ c.cb = "done" /\ c.r = m.r /\ c.i = m.i
    BY ONLY <2>4
  <2>6. c \in Calls
    <3>1. q.kind \in Kinds \cup {"turn", "open"} /\ hw \in HwIds \cup {None}
      BY ONLY <1>4, <1>b
    <3>2. m.r \in Reqs \cup {None}
      BY ONLY <1>3
    <3> DEFINE kd == q.kind
    <3> HIDE DEF kd
    <3>3. c = [op |-> kd, hw |-> hw, fence |-> fence, cb |-> "done", r |-> m.r, i |-> m.i]
      BY ONLY <2>4 DEF kd
    <3>4. kd \in Kinds \cup {"turn", "open"}
      BY ONLY <3>1 DEF kd
    <3> QED  BY ONLY <3>1, <3>2, <3>3, <3>4, <2>2, <2>3 DEF Calls
  <2> QED  BY <2>1, <2>5, <2>6
<1>6. new \in Seq(Calls) /\ calls' = calls \o new /\ Len(new) = 1 /\ new[1] = c
  <2>1. calls' = Append(calls, c)
    BY <1>c
  <2> QED  BY ONLY <1>1, <1>5, <2>1, AppendOne
<1> DEFINE y == Item(c, TRUE)
<1> HIDE DEF new
<1>7. \A k \in 1 .. Len(new) : k = 1 /\ new[k] = c /\ Item(new[k], TRUE) = y
  <2>1. Len(new) = 1 /\ new[1] = c
    BY <1>6
  <2>2. \A k \in 1 .. Len(new) : k = 1
    BY ONLY <2>1
  <2>3. Item(new[1], TRUE) = y
    BY ONLY <2>1
  <2> QED  BY ONLY <2>1, <2>2, <2>3
<1>8. 1 \in 1 .. Len(new)
  BY ONLY <1>6
<1>9. y.call = c /\ y.live
  BY ONLY ItemFacts
<1> HIDE DEF y, rt
<1>10. CallShape(rt, c)
  <2>1. rt[m.r] # NoRequest /\ rt[m.r].kind = q.kind /\ rt[m.r].ids = q.ids /\ rt[m.r].opt = q.opt
    BY <1>3, <1>c DEF SameAsks, rt
  <2>2. q.kind # "turn" /\ q.kind # "open"
    BY <1>4 DEF Kinds
  <2>3. fence.id \in Ids
    BY <1>4, <1>5
  <2>4. q.kind # "add" => hw \in HwIds
    BY <1>b
  <2> HIDE DEF q
  <2> QED  BY ONLY <1>3, <1>4, <1>5, <2>1, <2>2, <2>3, <2>4 DEF CallShape
<1>11. /\ \A j \in DOMAIN P : j \in Nat /\ j >= 1
       /\ \A j \in DOMAIN P : PendsFor(P[j], m.r, m.i) => j = 1
  BY <1>1, <1>2, <1>3, OnlyItem
<1>12. \A j \in DOMAIN P : j = 1 \/ j >= 2
  BY <1>11
<1>13. AddOf(rt, y) \in {AddOf(reqs, P[1]), None}
  <2>1. rt[m.r].kind = q.kind
    BY <1>3, <1>c DEF SameAsks, rt
  <2>2. m.cb = "turn"
    BY <1>a
  <2> QED  BY <1>2, <1>5, <1>9, <2>1, <2>2 DEF AddOf
<1>14. NewAdds(P, reqs, rt, geofences, used, new, 2)
  <2>1. ASSUME AddOf(rt, y) # None
        PROVE  /\ AddOf(rt, y) \in used /\ \A h \in HwIds : geofences[h].id # AddOf(rt, y)
               /\ \A j \in DOMAIN P : j >= 2 => AddOf(reqs, P[j]) # AddOf(rt, y)
    <3> DEFINE a == AddOf(rt, y)
    <3>1. a = AddOf(reqs, P[1]) /\ a # None
      BY <1>13, <2>1
    <3>2. /\ a \in used \cup {None} /\ \A h \in HwIds : geofences[h].id # a
          /\ \A j \in DOMAIN P : AddOf(reqs, P[j]) = a => j = 1
      BY <1>1, <1>2, <3>1 DEF Waits, Tokens
    <3> HIDE DEF a
    <3>3. \A j \in DOMAIN P : j >= 2 => AddOf(reqs, P[j]) # a
      BY <3>2
    <3> QED  BY <3>1, <3>2, <3>3 DEF a
  <2> QED  BY <1>7, <2>1 DEF NewAdds
<1>15. NewFences(P, reqs, geofences, used, 2)
  BY <1>1, FencesShrink
<1>16. NewDrops(P, reqs, rt, idMap, idMap, new, 2)
  <2>1. \A id : ~Drops(y, id)
    BY <1>5, <1>9 DEF Drops
  <2> QED  BY <1>7, <2>1 DEF NewDrops
<1>17. NewItems(P, rt, new, 2)
  <2>1. ASSUME NEW j \in DOMAIN P, j >= 2
        PROVE  Ordered(0, P[j], 1, y) /\ Ordered(1, y, 0, P[j])
    <3>1. Ordered(j, P[j], 1, P[1]) /\ Ordered(1, P[1], j, P[j])
      BY <1>1, <1>2 DEF Waits, ItemsOrdered
    <3>2. ASSUME Pends(P[j]), P[j].call.r = m.r
          PROVE  /\ P[j].call.i # m.i /\ P[j].call.cb \in {"turn", "done"}
                 /\ P[j].call.i < m.i => P[j].call.cb = "done"
                 /\ m.i < P[j].call.i => P[j].call.cb = "turn"
      <4>1. P[j].call.i # m.i
        BY <1>11, <2>1, <3>2 DEF PendsFor
      <4>2. m.cb = "turn" /\ ~(j < 1)
        BY <1>11, <1>a, <2>1
      <4> QED  BY <1>2, <1>3, <3>1, <3>2, <4>1, <4>2 DEF Ordered, Pends
    <3> QED  BY ONLY <1>5, <1>9, <3>2 DEF Ordered
  <2>2. Ordered(1, y, 1, y)
    <3>1. c.i \in Nat
      BY ONLY <1>5 DEF Calls
    <3> QED  BY ONLY <1>9, <3>1 DEF Ordered
  <2>3. ASSUME NEW s \in Reqs, NEW i \in DOMAIN rt[s].real, rt[s].real[i] = "none"
        PROVE  (\E j \in DOMAIN P : j >= 2 /\ PendsFor(P[j], s, i)) \/ PendsFor(y, s, i)
    <3>1. i \in DOMAIN reqs[s].real /\ reqs[s].real[i] = "none"
      BY <1>c, <2>3 DEF rt
    <3>2. PICK j \in DOMAIN P : PendsFor(P[j], s, i)
      BY <1>1, <3>1 DEF Waits, ItemsWait
    <3>3. CASE j = 1
      BY <1>2, <1>5, <1>9, <3>2, <3>3 DEF PendsFor, Pends
    <3>4. CASE j >= 2
      BY <3>2, <3>4
    <3> QED  BY <1>12, <3>3, <3>4
  <2>4. \A j \in DOMAIN P : Pends(P[j]) => rt[P[j].call.r].real[P[j].call.i] = "none"
    <3>1. \A j \in DOMAIN P : Pends(P[j]) =>
            P[j].call.r \in Reqs /\ reqs[P[j].call.r].real[P[j].call.i] = "none"
      BY <1>1, PipeShapes DEF Waits, ItemsWait, Pends, CallShape
    <3> QED  BY <1>c, <3>1 DEF rt
  <2>5. rt[c.r].real[c.i] = "none"
    <3>1. rt[m.r].real[m.i] = "none"
      BY <1>2, <1>3, <2>4
    <3> QED  BY <1>5, <3>1
  <2> QED  BY <1>7, <1>8, <2>1, <2>2, <2>3, <2>4, <2>5 DEF NewItems
<1>18. geofences' = geofences /\ idMap' = idMap /\ used' = used
  BY <1>d
<1>19. /\ NewItems(P, reqs', new, 2)
       /\ NewAdds(P, reqs, reqs', geofences', used', new, 2)
       /\ NewFences(P, reqs, geofences', used', 2)
       /\ NewDrops(P, reqs, reqs', idMap, idMap', new, 2)
       /\ \A k \in 1 .. Len(new) : CallShape(reqs', new[k])
  BY <1>7, <1>10, <1>14, <1>15, <1>16, <1>17, <1>18 DEF rt
<1>20. geofences' \in [HwIds -> Fences \cup {Absent}] /\ idMap' \in [Ids -> HwIds \cup {None}]
  BY <1>1, <1>18 DEF StateTypes
<1>21. NoOpen(new)
  <2>1. c.op # "open"
    BY <1>4, <1>5 DEF Kinds
  <2> QED  BY <1>7, <2>1 DEF NoOpen
<1>22. RequestsTrue' /\ SameAsks(reqs, reqs') /\ UNCHANGED <<clients, used, modemVars>>
  BY <1>c, <1>d
<1> QED  BY <1>6, <1>19, <1>20, <1>21, <1>22, <1>a, TakenSound

LEMMA HandleTurnSound ==
  ASSUME Sound, HandleTurn
  PROVE  Sound' /\ CallsKept
<1> DEFINE m == Head(msgs).call
           q == reqs[m.r]
           id == q.ids[m.i]
           fence == [id |-> id, opt |-> q.opt, paused |-> FALSE]
<1>1. StateTypes /\ Shapes /\ Waits /\ RequestsTrue /\ calls \in Seq(Calls)
  BY Zenon DEF Sound, Waits, StateTypes
<1>2. msgs # <<>> /\ msgs' = Tail(msgs) /\ m.cb = "turn"
      /\ UNCHANGED <<clients, used, tables, modemVars>>
  BY Zenon DEF HandleTurn, Received
<1>3. 1 \in DOMAIN P /\ P[1].call = m /\ CallShape(reqs, m)
  BY <1>1, <1>2, HeadFacts
<1>4. Pends(P[1]) /\ m.r \in Reqs /\ q # NoRequest /\ m.i \in DOMAIN q.ids /\ RequestTrue(q)
  BY <1>1, <1>2, <1>3 DEF Pends, CallShape, RequestsTrue
<1>5. CASE /\ q.kind = "add" /\ UNCHANGED reqs
           /\ calls' = Append(calls, Call(q.kind, None, fence, "done", m.r, m.i))
  <2>1. RequestsTrue' /\ SameAsks(reqs, reqs') /\ \A s \in Reqs : reqs'[s].real = reqs[s].real
    BY <1>1, <1>5 DEF RequestsTrue, SameAsks
  <2>2. TurnBecomes(m, None, fence, Call(q.kind, None, fence, "done", m.r, m.i))
    BY <1>2, <1>5, <2>1, Zenon DEF TurnBecomes
  <2> QED  BY <2>2, TurnCalls
<1>6. CASE /\ q.kind # "add" /\ idMap[id] # None
           /\ reqs' = [reqs EXCEPT ![m.r].errs[m.i] = "ok"]
           /\ calls' = Append(calls, Call(q.kind, idMap[id], fence, "done", m.r, m.i))
  <2>1. RequestsTrue' /\ SameAsks(reqs, reqs') /\ \A s \in Reqs : reqs'[s].real = reqs[s].real
    BY <1>1, <1>4, <1>6, MarkedFacts, Zenon
  <2>2. idMap[id] \in HwIds
    <3>1. id \in Ids
      <4>1. m.i \in DOMAIN q.ids /\ q.ids \in Seq(Ids)
        <5> HIDE DEF q
        <5> QED  BY ONLY <1>4 DEF RequestTrue, Requests
      <4> HIDE DEF m, q
      <4> QED  BY ONLY <4>1
    <3> QED  BY <1>1, <1>6, <3>1, Zenon DEF StateTypes
  <2>3. TurnBecomes(m, idMap[id], fence, Call(q.kind, idMap[id], fence, "done", m.r, m.i))
    BY <1>2, <1>6, <2>1, <2>2, Zenon DEF TurnBecomes
  <2> QED  BY <2>3, TurnCalls, Zenon
<1>7. CASE q.kind # "add" /\ Ended(m.r, m.i, "unknown", TRUE, TRUE) /\ UNCHANGED calls
  <2>1. q.real[m.i] = "none" /\ \A j \in DOMAIN P : j \in Nat /\ j >= 1
    BY <1>1, <1>3, <1>4, OnlyItem
  <2>2. /\ RequestsTrue' /\ SameAsks(reqs, reqs')
        /\ \A s \in Reqs : s # m.r => reqs'[s] = reqs[s]
        /\ reqs'[m.r].real = [q.real EXCEPT ![m.i] = "unknown"]
    BY <1>1, <1>4, <1>7, <2>1, EndedFacts DEF Resulting
  <2>3. q.real \in Seq(Errors)
    BY <1>4 DEF RequestTrue, Requests
  <2> DEFINE rt == reqs'
  <2>4. NewItems(P, rt, <<>>, 2)
    <3> DEFINE r == m.r
               i == m.i
               err == "unknown"
    <3>1. Resulted(reqs, rt, r, i, err)
      BY <2>2, <2>3 DEF Resulted
    <3>2. r = P[1].call.r /\ i = P[1].call.i
      BY <1>3
    <3> HIDE DEF rt, r, i, err
    <3> QED  BY ONLY <1>1, <1>3, <1>4, <3>1, <3>2, EndedItems
  <2>5. geofences' = geofences /\ idMap' = idMap /\ used' = used
    BY <1>2 DEF tables
  <2>6. 1 .. Len(<<>>) = {} /\ <<>> \in Seq(Calls) /\ calls' = calls \o <<>>
    BY <1>1, <1>7, NoItems
  <2>7. NewFences(P, reqs, geofences, used, 2)
    BY <1>1, FencesShrink
  <2>8. NewAdds(P, reqs, rt, geofences, used, <<>>, 2) /\ NewDrops(P, reqs, rt, idMap, idMap, <<>>, 2)
    BY <2>6, MapShrinks DEF NewAdds
  <2>9. /\ NewItems(P, reqs', <<>>, 2)
        /\ NewAdds(P, reqs, reqs', geofences', used', <<>>, 2)
        /\ NewFences(P, reqs, geofences', used', 2)
        /\ NewDrops(P, reqs, reqs', idMap, idMap', <<>>, 2)
        /\ \A k \in 1 .. Len(<<>>) : CallShape(reqs', <<>>[k])
    BY <2>4, <2>5, <2>6, <2>7, <2>8
  <2>10. geofences' \in [HwIds -> Fences \cup {Absent}] /\ idMap' \in [Ids -> HwIds \cup {None}]
    BY <1>1, <2>5 DEF StateTypes
  <2>11. NoOpen(<<>>)
    BY <2>6 DEF NoOpen
  <2> QED  BY <1>2, <2>2, <2>6, <2>9, <2>10, <2>11, TakenSound
<1> QED  BY <1>5, <1>6, <1>7, Zenon DEF HandleTurn

\* What the answer for a geofence does to the tables.
LEMMA AnswerTables ==
  ASSUME Sound, msgs # <<>>, Head(msgs).call.cb = "done",
         \/ Head(msgs).ok /\ Succeeded(Head(msgs).call)
         \/ UNCHANGED tables
  PROVE  /\ geofences' \in [HwIds -> Fences \cup {Absent}]
         /\ idMap' \in [Ids -> HwIds \cup {None}]
         /\ NewFences(P, reqs, geofences', used, 2)
         /\ \A rt : NewDrops(P, reqs, rt, idMap, idMap', <<>>, 2)
<1> DEFINE m == Head(msgs).call
           hw == m.hw
           f == geofences[hw]
           gt == geofences'
           it == idMap'
<1>1. /\ StateTypes /\ Shapes /\ Waits /\ RequestsTrue
      /\ geofences \in [HwIds -> Fences \cup {Absent}] /\ idMap \in [Ids -> HwIds \cup {None}]
  BY DEF Sound, Waits, StateTypes
<1>2. CallShape(reqs, m) /\ m.cb = "done"
  BY <1>1, HeadFacts
<1>3. m.op \in Kinds /\ m.r \in Reqs /\ reqs[m.r] # NoRequest /\ RequestTrue(reqs[m.r])
  BY <1>1, <1>2 DEF CallShape, RequestsTrue
<1>4. CASE Head(msgs).ok /\ m.op = "add" /\ Saved(hw, m.fence)
  BY <1>4, SavedFacts
<1>5. ASSUME /\ gt \in [HwIds -> Fences \cup {Absent}]
             /\ \A h \in HwIds : gt[h].id \in {geofences[h].id, None}
             /\ it \in [Ids -> HwIds \cup {None}]
             /\ \A id \in Ids : it[id] \in {idMap[id], None}
      PROVE  /\ NewFences(P, reqs, gt, used, 2)
             /\ \A rt : NewDrops(P, reqs, rt, idMap, it, <<>>, 2)
  <2> HIDE DEF gt, it
  <2>1. NewFences(P, reqs, gt, used, 2)
    BY <1>1, <1>5, FencesShrink
  <2>2. \A rt : NewDrops(P, reqs, rt, idMap, it, <<>>, 2)
    BY <1>5, MapShrinks
  <2> QED  BY <2>1, <2>2
<1>6. CASE UNCHANGED tables
  <2>1. gt = geofences /\ it = idMap
    BY <1>6 DEF tables
  <2> QED  BY <1>1, <1>5, <2>1
<1>7. ASSUME m.op # "add" PROVE hw \in HwIds /\ (f = Absent \/ f \in Fences)
  BY <1>1, <1>2, <1>3, <1>7 DEF CallShape
<1>8. CASE m.op = "remove" /\ Removed(hw)
  <2>1. CASE /\ it = [idMap EXCEPT ![f.id] = None]
             /\ gt = [geofences EXCEPT ![hw] = Absent]
    BY <1>1, <1>5, <1>7, <1>8, <2>1, NoneFacts
  <2> QED  BY <1>6, <1>8, <2>1 DEF Removed
<1>9. ASSUME NEW g, Changed(hw, g), m.op # "add", f # Absent => g \in Fences /\ g.id = f.id
      PROVE  /\ gt \in [HwIds -> Fences \cup {Absent}]
             /\ \A h \in HwIds : gt[h].id \in {geofences[h].id, None}
             /\ it \in [Ids -> HwIds \cup {None}]
             /\ \A id \in Ids : it[id] \in {idMap[id], None}
  <2>1. it = idMap
    BY <1>9 DEF Changed
  <2>2. CASE f = Absent
    BY <1>1, <1>9, <2>1, <2>2 DEF Changed
  <2>3. CASE f # Absent
    <3>1. gt = [geofences EXCEPT ![hw] = g]
      BY <1>9, <2>3 DEF Changed
    <3> QED  BY <1>1, <1>7, <1>9, <2>1, <2>3, <3>1
  <2> QED  BY <2>2, <2>3
<1>10. CASE m.op = "pause" /\ Changed(hw, [f EXCEPT !.paused = TRUE])
  <2>1. f # Absent => [f EXCEPT !.paused = TRUE] \in Fences /\ [f EXCEPT !.paused = TRUE].id = f.id
    BY <1>7, <1>10, NoneFacts DEF Fences
  <2> QED  BY <1>5, <1>9, <1>10, <2>1
<1>11. CASE m.op = "resume" /\ Changed(hw, [f EXCEPT !.paused = FALSE])
  <2>1. f # Absent => [f EXCEPT !.paused = FALSE] \in Fences /\ [f EXCEPT !.paused = FALSE].id = f.id
    BY <1>7, <1>11, NoneFacts DEF Fences
  <2> QED  BY <1>5, <1>9, <1>11, <2>1
<1>12. ASSUME m.op = "modify", NEW o \in OptionsRead(m.r), Changed(hw, [f EXCEPT !.opt = o])
       PROVE  /\ gt \in [HwIds -> Fences \cup {Absent}]
              /\ \A h \in HwIds : gt[h].id \in {geofences[h].id, None}
              /\ it \in [Ids -> HwIds \cup {None}]
              /\ \A id \in Ids : it[id] \in {idMap[id], None}
  <2>1. o \in Opts
    BY <1>3, <1>12 DEF OptionsRead, RequestTrue, Requests
  <2>2. f # Absent => [f EXCEPT !.opt = o] \in Fences /\ [f EXCEPT !.opt = o].id = f.id
    BY <1>7, <1>12, <2>1, NoneFacts DEF Fences
  <2> QED  BY <1>9, <1>12, <2>2
<1>13. CASE Succeeded(m) /\ Head(msgs).ok
  BY <1>3, <1>4, <1>5, <1>8, <1>10, <1>11, <1>12, <1>13 DEF Succeeded, Kinds
<1> QED  BY <1>6, <1>13

\* What the answer does to the request, for any of the outcomes.
Answers(m) ==
  /\ 1 \in DOMAIN P /\ P[1].call = m /\ Pends(P[1]) /\ m.r \in Reqs
  /\ m.cb = "done" /\ m.op = reqs[m.r].kind /\ m.i \in DOMAIN reqs[m.r].ids
  /\ reqs[m.r] # NoRequest /\ reqs[m.r].real[m.i] = "none"

LEMMA AnswerFacts ==
  ASSUME Sound, HandleAnswer
  PROVE  /\ Answers(Head(msgs).call) /\ RequestsTrue' /\ SameAsks(reqs, reqs')
         /\ \E err \in {"ok", "failed"}, writes \in BOOLEAN, reports \in BOOLEAN :
              /\ Head(msgs).call.op \notin {"resume", "modify"} => writes
              /\ Resulting(Head(msgs).call.r, Head(msgs).call.i, err, writes, reports)
<1> DEFINE m == Head(msgs).call
           ok == Head(msgs).ok
           err == IF ok THEN "ok" ELSE "failed"
           writes == ok \/ m.op \notin {"resume", "modify"}
           reports == ok \/ m.op # "resume"
<1>1. StateTypes /\ Shapes /\ Waits /\ RequestsTrue
  BY DEF Sound, Waits
<1>2. msgs # <<>> /\ m.cb = "done" /\ Ended(m.r, m.i, err, writes, reports)
  BY DEF HandleAnswer, Received
<1>3. 1 \in DOMAIN P /\ P[1].call = m /\ CallShape(reqs, m)
  BY <1>1, <1>2, HeadFacts
<1>4. Pends(P[1]) /\ m.r \in Reqs /\ reqs[m.r] # NoRequest /\ m.i \in DOMAIN reqs[m.r].ids
      /\ m.op = reqs[m.r].kind
  BY <1>2, <1>3 DEF Pends, CallShape
<1>5. reqs[m.r].real[m.i] = "none"
  BY <1>1, <1>3, <1>4, OnlyItem
<1>6. /\ err \in {"ok", "failed"} /\ err \in {"ok", "failed", "unknown"}
      /\ writes \in BOOLEAN /\ reports \in BOOLEAN
      /\ reqs[m.r].kind = "add" => writes
      /\ reports \/ (reqs[m.r].kind = "resume" /\ err = "failed")
      /\ m.op \notin {"resume", "modify"} => writes
  BY <1>4
<1> DEFINE r == m.r
           i == m.i
<1>7. /\ r \in Reqs /\ reqs[r] # NoRequest /\ i \in DOMAIN reqs[r].ids /\ reqs[r].real[i] = "none"
      /\ reqs[r].kind = "add" => writes
      /\ reports \/ (reqs[r].kind = "resume" /\ err = "failed")
      /\ Ended(r, i, err, writes, reports)
  BY <1>2, <1>4, <1>5, <1>6
<1> HIDE DEF err, writes, reports, m, r, i
<1>8. RequestsTrue' /\ SameAsks(reqs, reqs') /\ Resulting(r, i, err, writes, reports)
  BY ONLY <1>1, <1>6, <1>7, EndedFacts
<1>9. Answers(m)
  BY <1>2, <1>3, <1>4, <1>5 DEF Answers
<1>10. \E e \in {"ok", "failed"}, w \in BOOLEAN, p \in BOOLEAN :
         (m.op \notin {"resume", "modify"} => w) /\ Resulting(m.r, m.i, e, w, p)
  BY <1>6, <1>8 DEF r, i
<1> QED  BY <1>8, <1>9, <1>10 DEF m

LEMMA HandleAnswerSound ==
  ASSUME Sound, HandleAnswer
  PROVE  Sound' /\ CallsKept
<1> DEFINE m == Head(msgs).call
           rt == reqs'
<1>1. StateTypes /\ Shapes /\ Waits /\ RequestsTrue /\ calls \in Seq(Calls)
  BY DEF Sound, Waits, StateTypes
<1>2. /\ msgs # <<>> /\ msgs' = Tail(msgs) /\ m.cb = "done"
      /\ UNCHANGED <<clients, used, calls, modemVars>>
      /\ \/ Head(msgs).ok /\ Succeeded(m)
         \/ UNCHANGED tables
  BY DEF HandleAnswer, Received
<1>3. PICK err \in {"ok", "failed"} :
        /\ 1 \in DOMAIN P /\ P[1].call = m /\ Pends(P[1]) /\ m.r \in Reqs
        /\ reqs[m.r] # NoRequest
        /\ RequestsTrue' /\ SameAsks(reqs, reqs')
        /\ \A s \in Reqs : s # m.r => rt[s] = reqs[s]
        /\ rt[m.r].real = [reqs[m.r].real EXCEPT ![m.i] = err]
  BY AnswerFacts, Zenon DEF Answers, Resulting
<1>4. /\ geofences' \in [HwIds -> Fences \cup {Absent}] /\ idMap' \in [Ids -> HwIds \cup {None}]
      /\ NewFences(P, reqs, geofences', used, 2)
      /\ \A ru : NewDrops(P, reqs, ru, idMap, idMap', <<>>, 2)
  BY <1>2, AnswerTables
<1>5. NewItems(P, rt, <<>>, 2)
  <2> DEFINE r == m.r
             i == m.i
  <2>1. reqs[r].real \in Seq(Errors) /\ err # "none"
    BY <1>1, <1>3 DEF RequestsTrue, RequestTrue, Requests
  <2>2. Resulted(reqs, rt, r, i, err)
    BY <1>3, <2>1 DEF Resulted
  <2>3. r = P[1].call.r /\ i = P[1].call.i
    BY <1>3
  <2> HIDE DEF rt, r, i
  <2> QED  BY ONLY <1>1, <1>3, <2>2, <2>3, EndedItems
<1>6. 1 .. Len(<<>>) = {} /\ <<>> \in Seq(Calls) /\ calls' = calls \o <<>>
  BY <1>1, <1>2, NoItems
<1>7. \A gt : NewAdds(P, reqs, rt, gt, used, <<>>, 2)
  BY <1>6 DEF NewAdds
<1>8. /\ NewItems(P, reqs', <<>>, 2)
      /\ NewAdds(P, reqs, reqs', geofences', used', <<>>, 2)
      /\ NewFences(P, reqs, geofences', used', 2)
      /\ NewDrops(P, reqs, reqs', idMap, idMap', <<>>, 2)
      /\ \A k \in 1 .. Len(<<>>) : CallShape(reqs', <<>>[k])
  BY <1>2, <1>4, <1>5, <1>6, <1>7
<1>9. NoOpen(<<>>)
  BY <1>6 DEF NoOpen
<1> QED  BY <1>2, <1>3, <1>4, <1>6, <1>8, <1>9, TakenSound, Zenon

-----------------------------------------------------------------------------
(***************************************************************************)
(* The tables as the adapter will have them behind each of its messages;   *)
(* behind the last one they are what the modem runs.                       *)
(***************************************************************************)
Tabs == [HwIds -> Fences \cup {Absent}]

\* The geofences that clients can reach.
Live ==
  [hw \in HwIds |-> IF geofences[hw].id # None /\ idMap[geofences[hw].id] = hw
                    THEN geofences[hw] ELSE Absent]

Amended(op, f, opt) ==
  IF op = "pause" THEN [f EXCEPT !.paused = TRUE]
  ELSE IF op = "resume" THEN [f EXCEPT !.paused = FALSE]
  ELSE [f EXCEPT !.opt = opt]

Apply(v, m) ==
  IF m.call.op = "open" THEN [hw \in HwIds |-> Absent]
  ELSE IF m.call.op = "turn" \/ ~m.ok THEN v
  ELSE IF m.call.op = "add" THEN [v EXCEPT ![m.call.hw] = [m.call.fence EXCEPT !.paused = FALSE]]
  ELSE IF m.call.op = "remove" THEN [v EXCEPT ![m.call.hw] = Absent]
  ELSE IF v[m.call.hw] = Absent THEN v
  ELSE [v EXCEPT ![m.call.hw] = Amended(m.call.op, v[m.call.hw], m.call.fence.opt)]

Fits(v, m) ==
  m.ok => /\ m.call.op = "add" => v[m.call.hw] = Absent
          /\ m.call.op = "remove" => v[m.call.hw] = Absent \/ v[m.call.hw].id = m.call.fence.id

\* What the modem runs, with what clients were told.
Under(v, md, cl) ==
  \A hw \in HwIds :
    /\ v[hw] # Absent => /\ md[hw].id = v[hw].id /\ md[hw].opt = v[hw].opt
                         /\ v[hw].paused => md[hw].paused
    /\ md[hw] # Absent /\ Owner[md[hw].id] \in cl => v[hw].id = md[hw].id

Views(v) ==
  /\ v \in Seq(Tabs) /\ Len(v) = Len(msgs) + 1 /\ v[1] = Live
  /\ \A k \in 1 .. Len(msgs) : Fits(v[k], msgs[k]) /\ v[k + 1] = Apply(v[k], msgs[k])
  /\ modemUp => Under(v[Len(msgs) + 1], modem, clients)

ViewInv == \E v : Views(v)

OpensAt(j) == j \in 1 .. Len(calls) /\ calls[j].op = "open"

\* The modem is down until the one open message reaches it.
Opens ==
  /\ ~modemUp => /\ \A hw \in HwIds : modem[hw] = Absent
                 /\ \E j : OpensAt(j)
  /\ \A i, j : OpensAt(i) /\ OpensAt(j) => i = j /\ ~modemUp

GeoInv == Sound /\ MapsAgree /\ ViewInv /\ Opens

LEMMA AmendedFacts ==
  ASSUME NEW op, NEW f \in Fences, NEW opt, op \in {"pause", "resume"} \/ opt \in Opts
  PROVE  /\ Amended(op, f, opt) \in Fences /\ Amended(op, f, opt) # Absent
         /\ Amended(op, f, opt).id = f.id
<1>1. Amended(op, f, opt) \in Fences /\ Amended(op, f, opt).id = f.id
  BY DEF Amended, Fences
<1> QED  BY <1>1, NoneFacts

\* Operations, as tables are amended by answers.
LEMMA AmendedSame ==
  ASSUME NEW op, NEW f \in Fences, NEW g \in Fences, NEW opt, g.id = f.id, g.opt = f.opt,
         f.paused => g.paused
  PROVE  /\ Amended(op, g, opt).opt = Amended(op, f, opt).opt
         /\ Amended(op, f, opt).paused => Amended(op, g, opt).paused
BY DEF Amended, Fences

LEMMA LiveTyped ==
  ASSUME StateTypes
  PROVE  /\ Live \in Tabs
         /\ \A hw \in HwIds : Live[hw] = IF geofences[hw].id # None /\ idMap[geofences[hw].id] = hw
                                         THEN geofences[hw] ELSE Absent
<1>1. geofences \in [HwIds -> Fences \cup {Absent}]
  BY DEF StateTypes
<1> QED  BY <1>1 DEF Live, Tabs

\* With maps that agree, what is live is what an id leads to.
LEMMA LiveFacts ==
  ASSUME StateTypes, MapsAgree, NEW id \in Ids, idMap[id] # None
  PROVE  /\ idMap[id] \in HwIds /\ Live[idMap[id]] = geofences[idMap[id]]
         /\ geofences[idMap[id]].id = id /\ geofences[idMap[id]] \in Fences
<1>1. idMap[id] \in HwIds
  BY DEF StateTypes
<1>2. geofences[idMap[id]].id = id
  BY DEF MapsAgree
<1>3. geofences[idMap[id]] \in Fences
  BY <1>1, <1>2, NoneFacts DEF StateTypes
<1>4. Live[idMap[id]] = geofences[idMap[id]]
  BY <1>1, <1>2, NoneFacts, LiveTyped
<1> QED  BY <1>1, <1>2, <1>3, <1>4

\* What the shape of a message says of the tables behind it.
LEMMA ApplyTyped ==
  ASSUME NEW rq, NEW x \in Messages, MsgShape(rq, x), NEW v \in Tabs,
         x.call.op = "modify" => x.call.fence.opt \in Opts
  PROVE  Apply(v, x) \in Tabs
<1>1. x.call.op \in Kinds \cup {"turn", "open"}
  BY DEF Messages, Calls
<1>2. CASE x.call.op = "open"
  BY <1>2 DEF Apply, Tabs
<1>3. CASE x.call.op = "turn" \/ ~x.ok
  BY <1>3 DEF Apply, Tabs
<1>4. CASE x.ok /\ x.call.op = "add"
  <2>1. x.call.fence \in Fences /\ x.call.hw \in HwIds
    BY <1>4 DEF MsgShape, CallShape
  <2>2. [x.call.fence EXCEPT !.paused = FALSE] \in Fences
    BY <2>1, NoneFacts
  <2>3. Apply(v, x) = [v EXCEPT ![x.call.hw] = [x.call.fence EXCEPT !.paused = FALSE]]
    BY <1>4 DEF Apply
  <2> QED  BY <2>2, <2>3 DEF Tabs
<1>5. CASE x.ok /\ x.call.op = "remove"
  <2>1. Apply(v, x) = [v EXCEPT ![x.call.hw] = Absent]
    BY <1>5 DEF Apply
  <2> QED  BY <2>1 DEF Tabs
<1>6. CASE x.ok /\ x.call.op \in {"pause", "resume", "modify"}
  <2> DEFINE hw == x.call.hw
             g == Amended(x.call.op, v[hw], x.call.fence.opt)
  <2>1. hw \in HwIds
    BY <1>6 DEF MsgShape, CallShape, Kinds
  <2>2. Apply(v, x) = IF v[hw] = Absent THEN v ELSE [v EXCEPT ![hw] = g]
    BY <1>6 DEF Apply
  <2>3. v[hw] # Absent => v[hw] \in Fences
    BY <2>1 DEF Tabs
  <2>4. v[hw] # Absent => g \in Fences
    BY <1>6, <2>3, AmendedFacts
  <2> HIDE DEF g, hw
  <2> QED  BY <2>1, <2>2, <2>4 DEF Tabs
<1> QED  BY <1>1, <1>2, <1>3, <1>4, <1>5, <1>6 DEF Kinds

\* The option of a call of modify is one of the options.
LEMMA ModifyOption ==
  ASSUME RequestsTrue, NEW c \in Calls, CallShape(reqs, c), c.op = "modify"
  PROVE  c.fence.opt \in Opts /\ c.cb = "done" /\ c.r \in Reqs
         /\ c.fence.opt = reqs[c.r].opt /\ reqs[c.r] # NoRequest
<1>1. c.cb = "done"
  BY DEF CallShape, Calls
<1>2. RequestTrue(reqs[c.r]) /\ c.fence.opt = reqs[c.r].opt /\ c.r \in Reqs /\ reqs[c.r] # NoRequest
  BY <1>1 DEF CallShape, RequestsTrue
<1> QED  BY <1>1, <1>2 DEF RequestTrue, Requests

-----------------------------------------------------------------------------
(***************************************************************************)
(* The handlers do to what is live what the views foresee.                 *)
(***************************************************************************)
LEMMA LiveNext ==
  ASSUME geofences' \in [HwIds -> Fences \cup {Absent}], NEW w \in Tabs,
         \A hw \in HwIds :
           w[hw] = IF geofences'[hw].id # None /\ idMap'[geofences'[hw].id] = hw
                   THEN geofences'[hw] ELSE Absent
  PROVE  Live' = w
<1> DEFINE gt == geofences'
           it == idMap'
<1>1. Live' = [hw \in HwIds |-> IF gt[hw].id # None /\ it[gt[hw].id] = hw THEN gt[hw] ELSE Absent]
  BY DEF Live
<1>2. w = [hw \in HwIds |-> w[hw]]
  BY DEF Tabs
<1>3. [hw \in HwIds |-> w[hw]]
        = [hw \in HwIds |-> IF gt[hw].id # None /\ it[gt[hw].id] = hw THEN gt[hw] ELSE Absent]
  OBVIOUS
<1> QED  BY <1>1, <1>2, <1>3

LEMMA LiveSame ==
  ASSUME UNCHANGED tables
  PROVE  Live' = Live /\ (MapsAgree => MapsAgree')
BY DEF tables, Live, MapsAgree

LEMMA SavedLive ==
  ASSUME StateTypes, MapsAgree, NEW hw \in HwIds, NEW fence \in Fences, Saved(hw, fence),
         Live[hw] = Absent, \A h \in HwIds : geofences[h].id # fence.id
  PROVE  Live' = [Live EXCEPT ![hw] = [fence EXCEPT !.paused = FALSE]] /\ MapsAgree'
<1> DEFINE id == fence.id
           g == [fence EXCEPT !.paused = FALSE]
           gt == geofences'
           it == idMap'
           w == [Live EXCEPT ![hw] = g]
<1>1. /\ geofences \in [HwIds -> Fences \cup {Absent}] /\ idMap \in [Ids -> HwIds \cup {None}]
      /\ Live \in Tabs
      /\ \A h \in HwIds : Live[h] = IF geofences[h].id # None /\ idMap[geofences[h].id] = h
                                    THEN geofences[h] ELSE Absent
  BY LiveTyped DEF StateTypes
<1>2. id \in Ids /\ g \in Fences /\ g.id = id /\ id # None
  BY NoneFacts DEF Fences
<1>3. gt = [geofences EXCEPT ![hw] = g] /\ it = [idMap EXCEPT ![id] = hw]
  BY DEF Saved
<1> HIDE DEF id, g
<1>4. gt[hw] = g /\ it[id] = hw /\ gt \in [HwIds -> Fences \cup {Absent}]
  BY <1>1, <1>2, <1>3
<1>5. \A h \in HwIds : h # hw => gt[h] = geofences[h]
  BY <1>1, <1>3
<1>6. \A i \in Ids : i # id => it[i] = idMap[i]
  BY <1>1, <1>3
<1>7. \A h \in HwIds : geofences[h].id # id /\ geofences[h].id \in Ids \cup {None}
  BY <1>1, NoneFacts DEF id
<1>8. w \in Tabs
  BY <1>1, <1>2 DEF Tabs
<1>9. ASSUME NEW h \in HwIds
      PROVE  w[h] = IF gt[h].id # None /\ it[gt[h].id] = h THEN gt[h] ELSE Absent
  <2>1. CASE h = hw
    BY <1>1, <1>2, <1>4, <2>1 DEF Tabs
  <2>2. CASE h # hw
    <3>1. w[h] = Live[h] /\ gt[h] = geofences[h]
      BY <1>1, <1>5, <2>2 DEF Tabs
    <3>2. gt[h].id # None => it[gt[h].id] = idMap[geofences[h].id]
      BY <1>6, <1>7, <3>1
    <3> QED  BY <1>1, <3>1, <3>2
  <2> QED  BY <2>1, <2>2
<1>10. Live' = w
  <2> HIDE DEF w
  <2> QED  BY <1>4, <1>8, <1>9, LiveNext
<1>11. ASSUME NEW i \in Ids, it[i] # None PROVE gt[it[i]].id = i
  <2>1. CASE i = id
    BY <1>2, <1>4, <2>1
  <2>2. CASE i # id
    <3>1. it[i] = idMap[i]
      BY <1>6, <2>2
    <3>2. idMap[i] \in HwIds /\ geofences[idMap[i]].id = i /\ Live[idMap[i]] \in Fences
      BY <1>11, <3>1, LiveFacts
    <3>3. idMap[i] # hw
      BY <3>2, NoneFacts
    <3> QED  BY <1>5, <3>1, <3>2, <3>3
  <2> QED  BY <2>1, <2>2
<1>12. MapsAgree'
  BY <1>11 DEF MapsAgree
<1> QED  BY <1>10, <1>12 DEF g

LEMMA RemovedLive ==
  ASSUME StateTypes, MapsAgree, NEW hw \in HwIds, Removed(hw),
         \A h1, h2 \in HwIds : geofences[h1].id # None /\ geofences[h2].id = geofences[h1].id => h1 = h2
  PROVE  Live' = [Live EXCEPT ![hw] = Absent] /\ MapsAgree'
<1> DEFINE id == geofences[hw].id
           gt == geofences'
           it == idMap'
           w == [Live EXCEPT ![hw] = Absent]
<1>1. /\ geofences \in [HwIds -> Fences \cup {Absent}] /\ idMap \in [Ids -> HwIds \cup {None}]
      /\ Live \in Tabs
      /\ \A h \in HwIds : Live[h] = IF geofences[h].id # None /\ idMap[geofences[h].id] = h
                                    THEN geofences[h] ELSE Absent
  BY LiveTyped DEF StateTypes
<1>2. CASE id # None /\ idMap[id] # None
  <2>1. gt = [geofences EXCEPT ![hw] = Absent] /\ it = [idMap EXCEPT ![id] = None]
    BY <1>2 DEF Removed
  <2>2. id \in Ids
    BY <1>1, <1>2, NoneFacts
  <2>3. /\ gt[hw] = Absent /\ \A h \in HwIds : h # hw => gt[h] = geofences[h] /\ geofences[h].id # id
        /\ it[id] = None /\ \A i \in Ids : i # id => it[i] = idMap[i]
        /\ gt \in [HwIds -> Fences \cup {Absent}]
    BY <1>1, <1>2, <2>1, <2>2
  <2>4. w \in Tabs
    BY <1>1 DEF Tabs
  <2> HIDE DEF id
  <2>5. ASSUME NEW h \in HwIds
        PROVE  w[h] = IF gt[h].id # None /\ it[gt[h].id] = h THEN gt[h] ELSE Absent
    <3>1. CASE h = hw
      BY <1>1, <2>3, <3>1, NoneFacts DEF Tabs
    <3>2. CASE h # hw
      <4>1. w[h] = Live[h] /\ gt[h] = geofences[h] /\ geofences[h].id # id
        BY <1>1, <2>3, <3>2 DEF Tabs
      <4>2. geofences[h].id # None => geofences[h].id \in Ids
        BY <1>1, NoneFacts
      <4>3. gt[h].id # None => it[gt[h].id] = idMap[geofences[h].id]
        BY <2>3, <4>1, <4>2
      <4> QED  BY <1>1, <4>1, <4>3
    <3> QED  BY <3>1, <3>2
  <2>6. Live' = w
    <3> HIDE DEF w
    <3> QED  BY <2>3, <2>4, <2>5, LiveNext
  <2>7. ASSUME NEW i \in Ids, it[i] # None PROVE gt[it[i]].id = i
    <3>1. it[i] = idMap[i] /\ i # id
      BY <2>3, <2>7
    <3>2. idMap[i] \in HwIds /\ geofences[idMap[i]].id = i
      BY <2>7, <3>1, LiveFacts
    <3>3. idMap[i] # hw
      BY <3>1, <3>2 DEF id
    <3> QED  BY <2>3, <3>1, <3>2, <3>3
  <2> QED  BY <2>6, <2>7 DEF MapsAgree
<1>3. CASE ~(id # None /\ idMap[id] # None)
  <2>1. UNCHANGED tables
    BY <1>3 DEF Removed
  <2>2. Live[hw] = Absent
    BY <1>1, <1>3, NoneFacts
  <2>3. w = Live
    BY <1>1, <2>2 DEF Tabs
  <2> QED  BY <2>1, <2>3, LiveSame
<1> QED  BY <1>2, <1>3

LEMMA ChangedLive ==
  ASSUME StateTypes, MapsAgree, NEW hw \in HwIds, NEW g, Changed(hw, g),
         geofences[hw] # Absent => g \in Fences /\ g.id = geofences[hw].id
  PROVE  /\ Live' = IF Live[hw] = Absent THEN Live ELSE [Live EXCEPT ![hw] = g]
         /\ MapsAgree'
<1> DEFINE gt == geofences'
           w == IF Live[hw] = Absent THEN Live ELSE [Live EXCEPT ![hw] = g]
<1>1. /\ geofences \in [HwIds -> Fences \cup {Absent}] /\ idMap \in [Ids -> HwIds \cup {None}]
      /\ Live \in Tabs
      /\ \A h \in HwIds : Live[h] = IF geofences[h].id # None /\ idMap[geofences[h].id] = h
                                    THEN geofences[h] ELSE Absent
  BY LiveTyped DEF StateTypes
<1>2. idMap' = idMap
  BY DEF Changed
<1>3. CASE geofences[hw] = Absent
  <2>1. UNCHANGED tables
    BY <1>2, <1>3 DEF Changed, tables
  <2>2. Live[hw] = Absent
    BY <1>1, <1>3, NoneFacts
  <2> QED  BY <2>1, <2>2, LiveSame
<1>4. CASE geofences[hw] # Absent
  <2>1. gt = [geofences EXCEPT ![hw] = g]
    BY <1>4 DEF Changed
  <2>2. /\ gt[hw] = g /\ \A h \in HwIds : h # hw => gt[h] = geofences[h]
        /\ \A h \in HwIds : gt[h].id = geofences[h].id
        /\ gt \in [HwIds -> Fences \cup {Absent}]
    BY <1>1, <1>4, <2>1
  <2>3. w \in Tabs
    BY <1>1, <1>4 DEF Tabs
  <2>4. Live[hw] = Absent \/ Live[hw] = geofences[hw]
    BY <1>1
  <2>5. ASSUME NEW h \in HwIds
        PROVE  w[h] = IF gt[h].id # None /\ idMap[gt[h].id] = h THEN gt[h] ELSE Absent
    <3>1. CASE h # hw
      <4>1. w[h] = Live[h]
        BY <1>1, <3>1 DEF Tabs
      <4> HIDE DEF w, gt
      <4> QED  BY <1>1, <2>2, <3>1, <4>1
    <3>2. CASE h = hw /\ Live[hw] = Absent
      <4>1. ~(geofences[hw].id # None /\ idMap[geofences[hw].id] = hw)
        BY <1>1, <1>4, <3>2
      <4> QED  BY <2>2, <3>2, <4>1
    <3>3. CASE h = hw /\ Live[hw] # Absent
      <4>1. geofences[hw].id # None /\ idMap[geofences[hw].id] = hw
        BY <1>1, <3>3
      <4>2. w[hw] = g
        BY <1>1, <3>3 DEF Tabs
      <4> HIDE DEF w, gt
      <4> QED  BY <2>2, <3>3, <4>1, <4>2
    <3> QED  BY <3>1, <3>2, <3>3
  <2>6. Live' = w
    <3> HIDE DEF w
    <3> QED  BY <1>2, <2>2, <2>3, <2>5, LiveNext
  <2>7. ASSUME NEW i \in Ids, idMap[i] # None PROVE gt[idMap[i]].id = i
    BY <2>2, <2>7, LiveFacts
  <2> QED  BY <1>2, <2>6, <2>7 DEF MapsAgree
<1> QED  BY <1>3, <1>4

LEMMA HandleDropLive ==
  ASSUME Sound, MapsAgree, Fits(Live, Head(msgs)), HandleDrop
  PROVE  Live' = Apply(Live, Head(msgs)) /\ MapsAgree'
<1> DEFINE m == Head(msgs)
           hw == m.call.hw
           id == m.call.fence.id
           gt == geofences'
           w == [Live EXCEPT ![hw] = Absent]
<1>1. StateTypes /\ Shapes /\ Waits
  BY DEF Sound, Waits
<1>2. msgs # <<>> /\ m.call.cb = "drop" /\ idMap' = idMap
      /\ gt = IF m.ok THEN [geofences EXCEPT ![hw] = Absent] ELSE geofences
  BY DEF HandleDrop, Received
<1>3. 1 \in DOMAIN P /\ P[1].call = m.call /\ CallShape(reqs, m.call)
  BY <1>1, <1>2, HeadFacts
<1>4. m.call.op = "remove" /\ hw \in HwIds /\ id \in Ids
  BY <1>2, <1>3 DEF CallShape, Kinds
<1>5. CASE ~m.ok
  <2>1. UNCHANGED tables
    BY <1>2, <1>5 DEF tables
  <2>2. Apply(Live, m) = Live
    BY <1>4, <1>5 DEF Apply
  <2> QED  BY <2>1, <2>2, LiveSame
<1>6. CASE m.ok
  <2>1. Apply(Live, m) = w
    BY <1>4, <1>6 DEF Apply
  <2>2. /\ geofences \in [HwIds -> Fences \cup {Absent}] /\ Live \in Tabs
        /\ \A h \in HwIds : Live[h] = IF geofences[h].id # None /\ idMap[geofences[h].id] = h
                                      THEN geofences[h] ELSE Absent
    BY <1>1, LiveTyped DEF StateTypes
  <2>3. gt = [geofences EXCEPT ![hw] = Absent]
    BY <1>2, <1>6
  <2> HIDE DEF hw, id
  <2>4. /\ gt[hw] = Absent /\ \A h \in HwIds : h # hw => gt[h] = geofences[h]
        /\ gt \in [HwIds -> Fences \cup {Absent}] /\ w \in Tabs
    BY <1>4, <2>2, <2>3 DEF Tabs
  <2>5. ASSUME NEW h \in HwIds
        PROVE  w[h] = IF gt[h].id # None /\ idMap[gt[h].id] = h THEN gt[h] ELSE Absent
    <3>1. CASE h = hw
      BY <1>4, <2>2, <2>4, <3>1, NoneFacts DEF Tabs
    <3>2. CASE h # hw
      <4>1. w[h] = Live[h] /\ gt[h] = geofences[h]
        BY <1>4, <2>2, <2>4, <3>2 DEF Tabs
      <4> QED  BY <2>2, <4>1
    <3> QED  BY <3>1, <3>2
  <2>6. Live' = w
    <3> HIDE DEF w
    <3> QED  BY <1>2, <2>4, <2>5, LiveNext
  <2>7. idMap[id] = None
    <3>1. Drops(P[1], id)
      BY <1>2, <1>3 DEF Drops, id
    <3> QED  BY <1>1, <1>3, <1>4, <3>1 DEF Waits, DropsFirst
  <2>8. ASSUME NEW i \in Ids, idMap[i] # None PROVE gt[idMap[i]].id = i
    <3>1. idMap[i] \in HwIds /\ Live[idMap[i]] = geofences[idMap[i]] /\ geofences[idMap[i]].id = i
          /\ geofences[idMap[i]] \in Fences
      BY <1>1, <2>8, LiveFacts
    <3>2. idMap[i] # hw
      <4>1. Live[hw] = Absent \/ Live[hw].id = id
        BY <1>4, <1>6 DEF Fits, hw, id
      <4> QED  BY <2>7, <2>8, <3>1, <4>1, NoneFacts
    <3> QED  BY <2>4, <3>1, <3>2
  <2>9. MapsAgree'
    BY <1>2, <2>8 DEF MapsAgree
  <2> QED  BY <2>1, <2>6, <2>9
<1> QED  BY <1>5, <1>6

LEMMA HandleEngineUpLive ==
  ASSUME Sound, MapsAgree, HandleEngineUp
  PROVE  Live' = Apply(Live, Head(msgs)) /\ MapsAgree'
<1> DEFINE m == Head(msgs)
           w == [hw \in HwIds |-> Absent]
<1>1. StateTypes /\ Shapes
  BY DEF Sound
<1>2. msgs # <<>> /\ m.call.cb = "engineUp"
  BY DEF HandleEngineUp, Received
<1>3. m.call.op = "open"
  BY <1>1, <1>2, HeadFacts DEF CallShape
<1>4. Apply(Live, m) = w
  BY <1>3 DEF Apply
<1>5. CASE UNCHANGED tables /\ \A hw \in HwIds : geofences[hw] = Absent
  <2>1. Live \in Tabs /\ \A hw \in HwIds : Live[hw] = Absent
    BY <1>1, <1>5, LiveTyped
  <2>2. Live = w
    BY <2>1 DEF Tabs
  <2> QED  BY <1>4, <1>5, <2>2, LiveSame
<1>6. CASE geofences' = w /\ idMap' = [id \in Ids |-> None]
  <2>1. /\ \A hw \in HwIds : geofences'[hw] = Absent
        /\ \A id \in Ids : idMap'[id] = None
    BY <1>6
  <2>2. Live' = w
    BY <2>1, NoneFacts DEF Live
  <2>3. MapsAgree'
    BY <2>1 DEF MapsAgree
  <2> QED  BY <1>4, <2>2, <2>3
<1> QED  BY <1>5, <1>6 DEF HandleEngineUp, tables

\* The id of a geofence that comes is not in the table yet.
LEMMA AddedLive ==
  ASSUME Sound, MapsAgree, msgs # <<>>, Fits(Live, Head(msgs)),
         Head(msgs).ok, Head(msgs).call.op = "add",
         Saved(Head(msgs).call.hw, Head(msgs).call.fence)
  PROVE  Live' = Apply(Live, Head(msgs)) /\ MapsAgree'
<1> DEFINE m == Head(msgs)
           hw == m.call.hw
           fence == m.call.fence
<1>1. StateTypes /\ Shapes /\ Waits
  BY DEF Sound, Waits
<1>2. hw \in HwIds /\ fence \in Fences /\ AddOf(reqs, P[1]) = fence.id /\ 1 \in DOMAIN P
  BY <1>1, SavedFacts, HeadFacts
<1>3. \A h \in HwIds : geofences[h].id # fence.id
  BY <1>1, <1>2, NoneFacts DEF Waits, Tokens
<1>4. Live[hw] = Absent
  BY DEF Fits
<1>5. Apply(Live, m) = [Live EXCEPT ![hw] = [fence EXCEPT !.paused = FALSE]]
  BY DEF Apply
<1>6. Saved(hw, fence)
  OBVIOUS
<1> HIDE DEF hw, fence, m
<1> QED  BY ONLY <1>1, <1>2, <1>3, <1>4, <1>5, <1>6, MapsAgree, SavedLive DEF m

LEMMA HandleReaddLive ==
  ASSUME Sound, MapsAgree, Fits(Live, Head(msgs)), HandleReadd
  PROVE  Live' = Apply(Live, Head(msgs)) /\ MapsAgree'
<1> DEFINE m == Head(msgs)
<1>1. StateTypes /\ Shapes
  BY DEF Sound
<1>2. msgs # <<>> /\ m.call.cb = "readd"
  BY DEF HandleReadd, Received
<1>3. m.call.op = "add"
  BY <1>1, <1>2, HeadFacts DEF CallShape
<1>4. CASE m.ok /\ Saved(m.call.hw, m.call.fence)
  BY <1>2, <1>3, <1>4, AddedLive
<1>5. CASE ~m.ok /\ UNCHANGED tables
  <2>1. Apply(Live, m) = Live
    BY <1>3, <1>5 DEF Apply
  <2> QED  BY <1>5, <2>1, LiveSame
<1> QED  BY <1>4, <1>5 DEF HandleReadd, tables

LEMMA HandleTurnLive ==
  ASSUME Sound, MapsAgree, HandleTurn
  PROVE  Live' = Apply(Live, Head(msgs)) /\ MapsAgree'
<1>1. StateTypes /\ Shapes
  BY DEF Sound
<1>2. msgs # <<>> /\ Head(msgs).call.cb = "turn" /\ UNCHANGED tables
  BY Zenon DEF HandleTurn, Received
<1>3. Head(msgs).call.op = "turn"
  BY <1>1, <1>2, HeadFacts DEF CallShape
<1>4. Apply(Live, Head(msgs)) = Live
  BY <1>3 DEF Apply
<1> QED  BY <1>2, <1>4, LiveSame, Zenon

LEMMA HandleAnswerLive ==
  ASSUME Sound, MapsAgree, Fits(Live, Head(msgs)), HandleAnswer, "modify" \notin Multi
  PROVE  Live' = Apply(Live, Head(msgs)) /\ MapsAgree'
<1> DEFINE x == Head(msgs)
           m == x.call
           hw == m.hw
           f == geofences[hw]
<1>1. StateTypes /\ Shapes /\ Waits /\ RequestsTrue
  BY DEF Sound, Waits
<1>2. msgs # <<>> /\ m.cb = "done" /\ (IF x.ok THEN Succeeded(m) ELSE UNCHANGED tables)
  BY DEF HandleAnswer, Received
<1>3. CallShape(reqs, m) /\ m \in Calls
  BY <1>1, <1>2, HeadFacts
<1>4. m.op \in Kinds /\ m.r \in Reqs /\ reqs[m.r] # NoRequest /\ RequestTrue(reqs[m.r])
  BY <1>1, <1>2, <1>3 DEF CallShape, RequestsTrue
<1>5. m.op # "open" /\ m.op # "turn"
  BY <1>4 DEF Kinds
<1>6. CASE ~x.ok
  <2>1. Apply(Live, x) = Live
    BY <1>5, <1>6 DEF Apply
  <2> QED  BY <1>2, <1>6, <2>1, LiveSame
<1>7. CASE x.ok /\ m.op = "add"
  <2>1. Saved(hw, m.fence)
    BY <1>2, <1>7 DEF Succeeded
  <2> QED  BY <1>2, <1>7, <2>1, AddedLive
<1>8. m.op # "add" => hw \in HwIds
  BY <1>3, <1>4 DEF CallShape
<1>9. CASE x.ok /\ m.op = "remove"
  <2>1. Removed(hw)
    BY <1>2, <1>9 DEF Succeeded
  <2>2. Apply(Live, x) = [Live EXCEPT ![hw] = Absent]
    BY <1>9 DEF Apply
  <2>3. \A h1, h2 \in HwIds : geofences[h1].id # None /\ geofences[h2].id = geofences[h1].id => h1 = h2
    BY <1>1 DEF Waits, Tokens
  <2>4. hw \in HwIds
    BY <1>8, <1>9
  <2> HIDE DEF x, hw
  <2> QED  BY <1>1, <2>1, <2>2, <2>3, <2>4, RemovedLive DEF x
<1>10. CASE x.ok /\ m.op \in {"pause", "resume", "modify"}
  <2> DEFINE opt == m.fence.opt
             g == Amended(m.op, f, opt)
  <2>1. hw \in HwIds /\ (f = Absent \/ f \in Fences)
    BY <1>1, <1>8, <1>10 DEF StateTypes
  <2>2. m.op \in {"pause", "resume"} \/ opt \in Opts
    BY <1>1, <1>3, <1>10, ModifyOption
  <2>3. f # Absent => g \in Fences /\ g.id = f.id
    BY <2>1, <2>2, AmendedFacts
  <2>4. Changed(hw, g)
    <3>1. CASE m.op = "pause"
      BY <1>2, <1>10, <3>1 DEF Succeeded, Amended
    <3>2. CASE m.op = "resume"
      BY <1>2, <1>10, <3>2 DEF Succeeded, Amended
    <3>3. CASE m.op = "modify"
      <4>1. reqs[m.r].sent = 0 /\ opt = reqs[m.r].opt
        <5>1. reqs[m.r].kind = "modify" /\ opt = reqs[m.r].opt /\ m.i \in DOMAIN reqs[m.r].ids
          BY <1>2, <1>3, <3>3 DEF CallShape
        <5>2. Len(reqs[m.r].ids) = 1 /\ reqs[m.r].ids \in Seq(Ids)
          BY <1>4, <5>1 DEF RequestTrue, Requests
        <5>3. m.i = 1
          <6>1. DOMAIN reqs[m.r].ids = 1 .. 1
            BY <5>2
          <6> QED  BY <5>1, <6>1
        <5>4. reqs[m.r].real[m.i] = "none"
          <6>1. 1 \in DOMAIN P /\ P[1].call = m
            BY <1>1, <1>2, HeadFacts
          <6>2. Pends(P[1])
            BY <1>2, <6>1 DEF Pends
          <6> QED  BY <1>1, <6>1, <6>2 DEF Waits, ItemsWait
        <5> QED  BY <1>4, <5>1, <5>2, <5>3, <5>4 DEF RequestTrue
      <4>2. OptionsRead(m.r) = {opt}
        BY <4>1 DEF OptionsRead
      <4>3. \E o \in {opt} : Changed(hw, [f EXCEPT !.opt = o])
        BY <1>2, <1>10, <3>3, <4>2 DEF Succeeded
      <4>4. g = [f EXCEPT !.opt = opt]
        BY <3>3 DEF Amended
      <4> HIDE DEF opt, f, hw, g
      <4> QED  BY <4>3, <4>4
    <3> QED  BY <1>10, <3>1, <3>2, <3>3
  <2>5. /\ Live' = IF Live[hw] = Absent THEN Live ELSE [Live EXCEPT ![hw] = g]
        /\ MapsAgree'
    <3> HIDE DEF g, hw, opt
    <3> QED  BY <1>1, <2>1, <2>3, <2>4, ChangedLive
  <2>6. Apply(Live, x) = IF Live[hw] = Absent THEN Live
                         ELSE [Live EXCEPT ![hw] = Amended(m.op, Live[hw], opt)]
    BY <1>10 DEF Apply
  <2>7. Live[hw] = Absent \/ Live[hw] = f
    BY <1>1, <2>1, LiveTyped
  <2> HIDE DEF x, hw, opt
  <2> QED  BY <2>5, <2>6, <2>7 DEF x
<1> QED  BY <1>4, <1>6, <1>7, <1>9, <1>10 DEF Kinds

-----------------------------------------------------------------------------
(***************************************************************************)
(* The views step by step.                                                 *)
(***************************************************************************)
LEMMA ViewFacts ==
  ASSUME StateTypes, NEW v, Views(v)
  PROVE  /\ v \in Seq(Tabs) /\ Len(v) = Len(msgs) + 1 /\ Len(msgs) \in Nat /\ v[1] = Live
         /\ \A k \in 1 .. Len(msgs) : /\ k + 1 \in 1 .. Len(v) /\ k \in 1 .. Len(v)
                                      /\ v[k] \in Tabs /\ v[k + 1] \in Tabs
                                      /\ Fits(v[k], msgs[k]) /\ v[k + 1] = Apply(v[k], msgs[k])
         /\ v[Len(msgs) + 1] \in Tabs
         /\ modemUp => Under(v[Len(msgs) + 1], modem, clients)
<1>1. v \in Seq(Tabs) /\ Len(v) = Len(msgs) + 1 /\ Len(msgs) \in Nat
  BY DEF Views, StateTypes
<1> DEFINE n == Len(msgs)
<1>2. /\ \A k \in 1 .. n : k + 1 \in 1 .. n + 1 /\ k \in 1 .. n + 1
      /\ n + 1 \in 1 .. n + 1
  <2>1. n \in Nat
    BY <1>1
  <2> HIDE DEF n
  <2> QED  BY <2>1
<1>3. \A k \in 1 .. Len(v) : v[k] \in Tabs
  BY <1>1
<1> QED  BY <1>1, <1>2, <1>3 DEF Views

\* The adapter takes a message: the next view is the present one.
LEMMA ViewTaken ==
  ASSUME StateTypes, ViewInv, msgs # <<>>, msgs' = Tail(msgs),
         UNCHANGED <<clients, modemVars>>, Live' = Apply(Live, Head(msgs))
  PROVE  ViewInv'
<1>1. PICK v : Views(v)
  BY DEF ViewInv
<1> DEFINE n == Len(msgs)
           t == Tail(msgs)
           w == Tail(v)
<1>2. /\ v \in Seq(Tabs) /\ Len(v) = n + 1 /\ v[1] = Live
      /\ \A k \in 1 .. n : Fits(v[k], msgs[k]) /\ v[k + 1] = Apply(v[k], msgs[k])
      /\ modemUp => Under(v[n + 1], modem, clients)
  BY <1>1, ViewFacts
<1>3. /\ Len(t) = n - 1 /\ n \in Nat /\ n >= 1 /\ Head(msgs) = msgs[1]
      /\ \A j \in 1 .. n - 1 : t[j] = msgs[j + 1]
  BY TailFacts DEF StateTypes
<1>4. v # <<>>
  BY <1>2, <1>3
<1>5. /\ w \in Seq(Tabs) /\ Len(w) = Len(v) - 1
      /\ \A j \in 1 .. Len(v) - 1 : w[j] = v[j + 1]
  BY <1>2, <1>4, TailFacts
<1> HIDE DEF n, t, w
<1>6. Len(w) = Len(t) + 1 /\ Len(t) + 1 = n
  BY <1>2, <1>3, <1>5
<1>7. w[1] = Apply(Live, Head(msgs))
  <2>1. 1 \in 1 .. Len(v) - 1 /\ 1 \in 1 .. n /\ 1 + 1 = 2
    BY <1>2, <1>3
  <2> QED  BY <1>2, <1>3, <1>5, <2>1
<1>8. ASSUME NEW k \in 1 .. Len(t)
      PROVE  Fits(w[k], t[k]) /\ w[k + 1] = Apply(w[k], t[k])
  <2> DEFINE k1 == k + 1
  <2>1. /\ k1 \in 1 .. n /\ k \in 1 .. n - 1 /\ k \in 1 .. Len(v) - 1 /\ k1 \in 1 .. Len(v) - 1
        /\ k + 1 = k1
    BY <1>2, <1>3
  <2> HIDE DEF k1
  <2>2. w[k] = v[k1] /\ t[k] = msgs[k1]
    BY <1>3, <1>5, <2>1
  <2>3. w[k1] = v[k1 + 1]
    BY <1>5, <2>1
  <2> QED  BY <1>2, <2>1, <2>2, <2>3
<1>9. modemUp => Under(w[Len(t) + 1], modem, clients)
  <2>1. n \in 1 .. Len(v) - 1
    BY <1>2, <1>3
  <2>2. w[n] = v[n + 1]
    BY <1>5, <2>1
  <2> QED  BY <1>2, <1>6, <2>2
<1>10. modem' = modem /\ modemUp' = modemUp /\ clients' = clients /\ msgs' = t
  BY DEF modemVars, t
<1>11. Views(w)'
  BY <1>5, <1>6, <1>7, <1>8, <1>9, <1>10 DEF Views
<1> QED  BY <1>11 DEF ViewInv

\* Nothing is taken or posted.
LEMMA ViewKept ==
  ASSUME StateTypes, NEW v, Views(v), msgs' = msgs, Live' = Live,
         modemUp' => Under(v[Len(msgs) + 1], modem', clients')
  PROVE  ViewInv'
<1>1. Views(v)'
  BY DEF Views
<1> QED  BY <1>1 DEF ViewInv

\* The modem's answer is one more message, and one more view.
LEMMA ViewPosted ==
  ASSUME StateTypes, NEW v, Views(v), NEW x \in Messages, msgs' = Append(msgs, x), Live' = Live,
         NEW w, w = Apply(v[Len(msgs) + 1], x), w \in Tabs, Fits(v[Len(msgs) + 1], x),
         modemUp' => Under(w, modem', clients')
  PROVE  ViewInv'
<1> DEFINE n == Len(msgs)
           t == Append(msgs, x)
           u == Append(v, w)
<1>1. /\ v \in Seq(Tabs) /\ Len(v) = n + 1 /\ n \in Nat /\ v[1] = Live
      /\ \A k \in 1 .. n : Fits(v[k], msgs[k]) /\ v[k + 1] = Apply(v[k], msgs[k])
  BY ViewFacts
<1>2. /\ Len(t) = n + 1 /\ t[n + 1] = x /\ \A k \in 1 .. n : t[k] = msgs[k]
  BY DEF StateTypes
<1>3. /\ u \in Seq(Tabs) /\ Len(u) = Len(v) + 1 /\ u[Len(v) + 1] = w
      /\ \A k \in 1 .. Len(v) : u[k] = v[k]
  BY <1>1
<1>4. w = Apply(v[n + 1], x) /\ Fits(v[n + 1], x)
  OBVIOUS
<1> HIDE DEF n, t, u
<1>5. u[1] = Live
  <2>1. 1 \in 1 .. Len(v)
    BY <1>1
  <2> QED  BY <1>1, <1>3, <2>1
<1>6. ASSUME NEW k \in 1 .. n + 1 PROVE Fits(u[k], t[k]) /\ u[k + 1] = Apply(u[k], t[k])
  <2>1. CASE k = n + 1
    <3> DEFINE m == n + 1
    <3>1. m \in 1 .. Len(v) /\ Len(v) = m
      BY <1>1
    <3>2. u[m] = v[m] /\ t[m] = x /\ u[m + 1] = w
      BY <1>2, <1>3, <3>1
    <3> QED  BY <1>4, <2>1, <3>2
  <2>2. CASE k \in 1 .. n
    <3> DEFINE k1 == k + 1
    <3>1. k \in 1 .. Len(v) /\ k1 \in 1 .. Len(v)
      BY <1>1, <2>2
    <3>2. u[k] = v[k] /\ u[k1] = v[k1] /\ t[k] = msgs[k]
      BY <1>2, <1>3, <2>2, <3>1
    <3>3. Fits(v[k], msgs[k]) /\ v[k1] = Apply(v[k], msgs[k])
      BY <1>1, <2>2
    <3> QED  BY <3>2, <3>3
  <2>3. k = n + 1 \/ k \in 1 .. n
    BY <1>1
  <2> QED  BY <2>1, <2>2, <2>3
<1>7. u[Len(t) + 1] = w /\ Len(u) = Len(t) + 1
  BY <1>1, <1>2, <1>3
<1>8. msgs' = t
  BY DEF t
<1>9. Views(u)'
  <2>1. \A k \in 1 .. Len(t) : Fits(u[k], t[k]) /\ u[k + 1] = Apply(u[k], t[k])
    BY <1>2, <1>6
  <2> QED  BY <1>3, <1>5, <1>7, <1>8, <2>1 DEF Views
<1> QED  BY <1>9 DEF ViewInv

\* What the modem does to a geofence, the adapter will do to it as well.
LEMMA ChangeUnder ==
  ASSUME NEW w \in Tabs, modem \in Tabs, Under(w, modem, clients), NEW c \in Calls,
         c.op \in Kinds \ {"add"}, c.hw \in HwIds, modem[c.hw] \in Fences,
         modem[c.hw].id = c.fence.id, c.op = "modify" => c.fence.opt \in Opts, Executed(c),
         NEW x, x = [ok |-> TRUE, call |-> c]
  PROVE  /\ Fits(w, x) /\ Under(Apply(w, x), modem', clients)
         /\ c.op = "pause" => Under(w, modem', clients)
<1> DEFINE hw == c.hw
           f == modem[hw]
           md == modem'
<1>1. x.ok /\ x.call = c
  OBVIOUS
<1>2. /\ w[hw] # Absent => w[hw].id = f.id /\ w[hw].opt = f.opt /\ (w[hw].paused => f.paused)
      /\ Owner[f.id] \in clients => w[hw].id = f.id
  BY NoneFacts DEF Under
<1>3. Fits(w, x)
  BY <1>1, <1>2 DEF Fits
<1>4. CASE c.op = "remove"
  <2>1. md = [modem EXCEPT ![hw] = Absent]
    BY <1>4 DEF Executed
  <2>2. Apply(w, x) = [w EXCEPT ![hw] = Absent]
    BY <1>1, <1>4 DEF Apply
  <2> DEFINE a == Apply(w, x)
  <2>3. /\ md[hw] = Absent /\ a[hw] = Absent
        /\ \A h \in HwIds : h # hw => md[h] = modem[h] /\ a[h] = w[h]
    BY <2>1, <2>2 DEF Tabs
  <2> HIDE DEF a, md, hw
  <2>4. Under(a, md, clients)
    BY <2>3 DEF Under
  <2> QED  BY <1>3, <1>4, <2>4 DEF a, md
<1>5. CASE c.op \in {"pause", "resume", "modify"}
  <2> DEFINE opt == c.fence.opt
             g == Amended(c.op, f, opt)
             e == Amended(c.op, w[hw], opt)
             a == Apply(w, x)
  <2>1. md = [modem EXCEPT ![hw] = g]
    BY <1>5 DEF Executed, Amended
  <2>2. a = IF w[hw] = Absent THEN w ELSE [w EXCEPT ![hw] = e]
    BY <1>1, <1>5 DEF Apply
  <2>3. g \in Fences /\ g.id = f.id /\ f.id = c.fence.id
    BY <1>5, AmendedFacts
  <2>4. w[hw] # Absent => w[hw] \in Fences
    BY DEF Tabs
  <2>5. w[hw] # Absent => e \in Fences /\ e.id = w[hw].id /\ e.opt = g.opt /\ (e.paused => g.paused)
    BY <1>2, <1>5, <2>4, AmendedFacts, AmendedSame
  <2>6. /\ md[hw] = g /\ a[hw] = IF w[hw] = Absent THEN Absent ELSE e
        /\ \A h \in HwIds : h # hw => md[h] = modem[h] /\ a[h] = w[h]
    <3> HIDE DEF g, e, a, md
    <3> QED  BY <2>1, <2>2 DEF Tabs
  <2>7. w[hw] = Absent => w[hw].id = None
    BY NoneFacts
  <2>8. Under(a, md, clients)
    <3> HIDE DEF a, md, g, e, hw, f
    <3>1. ASSUME NEW h \in HwIds
          PROVE  /\ a[h] # Absent => /\ md[h].id = a[h].id /\ md[h].opt = a[h].opt
                                     /\ a[h].paused => md[h].paused
                 /\ md[h] # Absent /\ Owner[md[h].id] \in clients => a[h].id = md[h].id
      <4>1. CASE h = hw
        BY <1>2, <2>3, <2>5, <2>6, <2>7, <4>1
      <4>2. CASE h # hw
        BY <2>6, <4>2 DEF Under
      <4> QED  BY <4>1, <4>2
    <3> QED  BY <3>1 DEF Under
  <2>9. ASSUME c.op = "pause" PROVE Under(w, md, clients)
    <3>1. g.opt = f.opt /\ g.paused
      BY <2>9 DEF Amended, Fences
    <3> HIDE DEF a, md, g, e, hw, f
    <3>2. ASSUME NEW h \in HwIds
          PROVE  /\ w[h] # Absent => /\ md[h].id = w[h].id /\ md[h].opt = w[h].opt
                                     /\ w[h].paused => md[h].paused
                 /\ md[h] # Absent /\ Owner[md[h].id] \in clients => w[h].id = md[h].id
      <4>1. CASE h = hw
        BY <1>2, <2>3, <2>6, <3>1, <4>1
      <4>2. CASE h # hw
        BY <2>6, <4>2 DEF Under
      <4> QED  BY <4>1, <4>2
    <3> QED  BY <3>2 DEF Under
  <2> QED  BY <1>3, <2>8, <2>9 DEF a, md
<1> QED  BY <1>4, <1>5 DEF Kinds

LEMMA AddUnder ==
  ASSUME NEW w \in Tabs, modem \in Tabs, Under(w, modem, clients), NEW c \in Calls,
         c.op = "add", c.fence \in Fences, NEW hw \in HwIds, c.hw = hw, modem[hw] = Absent,
         modem' = [modem EXCEPT ![hw] = [c.fence EXCEPT !.paused = FALSE]],
         NEW x, x = [ok |-> TRUE, call |-> c]
  PROVE  Fits(w, x) /\ Under(Apply(w, x), modem', clients)
<1> DEFINE g == [c.fence EXCEPT !.paused = FALSE]
           md == modem'
           a == Apply(w, x)
<1>1. w[hw] = Absent
  <2>1. w[hw] = Absent \/ w[hw] \in Fences
    BY DEF Tabs
  <2>2. w[hw] # Absent => modem[hw].id = w[hw].id
    BY DEF Under
  <2> QED  BY <2>1, <2>2, NoneFacts
<1>2. Fits(w, x)
  BY <1>1 DEF Fits
<1>3. a = [w EXCEPT ![hw] = g] /\ md = [modem EXCEPT ![hw] = g]
  BY DEF Apply
<1> HIDE DEF g, md, a
<1>4. /\ md[hw] = g /\ a[hw] = g
      /\ \A h \in HwIds : h # hw => md[h] = modem[h] /\ a[h] = w[h]
  BY <1>3 DEF Tabs
<1>5. Under(a, md, clients)
  BY <1>4 DEF Under
<1> QED  BY <1>2, <1>5 DEF a, md

LEMMA PostedViews ==
  ASSUME Sound, NEW v, Views(v), NEW d \in Calls, NEW ok \in BOOLEAN, CallShape(reqs, d),
         Posted(d, ok), d.op \in {"turn", "open"} => ok, ok /\ d.op = "add" => d.hw \in HwIds,
         UNCHANGED <<clients, tables>>, NEW x, x = [ok |-> ok, call |-> d],
         NEW u, u = v[Len(msgs) + 1], Fits(u, x),
         modemUp' => Under(Apply(u, x), modem', clients),
         modemUp' /\ d.cb = "ignore" => Under(u, modem', clients)
  PROVE  ViewInv'
<1>1. StateTypes /\ Shapes /\ RequestsTrue
  BY DEF Sound
<1>2. x \in Messages /\ x.ok = ok /\ x.call = d
  BY DEF Messages
<1>3. u \in Tabs
  BY <1>1, ViewFacts
<1>4. Live' = Live /\ clients' = clients
  BY LiveSame
<1>5. CASE d.cb = "ignore"
  <2>1. msgs' = msgs
    BY <1>5 DEF Posted
  <2> QED  BY <1>1, <1>4, <1>5, <2>1, ViewKept
<1>6. CASE d.cb # "ignore"
  <2>1. msgs' = Append(msgs, x)
    BY <1>6 DEF Posted
  <2>2. MsgShape(reqs, x)
    BY <1>2, <1>6 DEF MsgShape
  <2>3. d.op = "modify" => d.fence.opt \in Opts
    BY <1>1, ModifyOption
  <2>4. Apply(u, x) \in Tabs
    BY <1>2, <1>3, <2>2, <2>3, ApplyTyped
  <2> DEFINE w == Apply(u, x)
  <2>5. w = Apply(v[Len(msgs) + 1], x) /\ w \in Tabs /\ Fits(v[Len(msgs) + 1], x)
        /\ (modemUp' => Under(w, modem', clients'))
    BY <1>4, <2>4
  <2> HIDE DEF w
  <2> QED  BY <1>1, <1>2, <1>4, <2>1, <2>5, ViewPosted
<1> QED  BY <1>5, <1>6

\* LocApi takes a call.
LEMMA OpensTail ==
  ASSUME Opens, calls \in Seq(Calls), calls # <<>>, calls' = Tail(calls),
         \/ Head(calls).op # "open" /\ modemUp' = modemUp /\ (~modemUp => modem' = modem)
         \/ Head(calls).op = "open" /\ modemUp' = TRUE
  PROVE  Opens'
<1> DEFINE n == Len(calls)
           t == Tail(calls)
<1>1. /\ Len(t) = n - 1 /\ n \in Nat /\ n >= 1 /\ Head(calls) = calls[1]
      /\ \A j \in 1 .. n - 1 : t[j] = calls[j + 1]
  BY TailFacts
<1> HIDE DEF n, t
<1>2. ASSUME NEW j PROVE OpensAt(j)' <=> j \in 1 .. n - 1 /\ OpensAt(j + 1)
  <2>1. calls' = t /\ n = Len(calls)
    BY DEF t, n
  <2>2. CASE j \in 1 .. n - 1
    <3>1. j \in 1 .. Len(t) /\ j + 1 \in 1 .. n
      BY <1>1, <2>2
    <3>2. t[j] = calls[j + 1]
      BY <1>1, <2>2
    <3> QED  BY <2>1, <2>2, <3>1, <3>2 DEF OpensAt
  <2>3. CASE j \notin 1 .. n - 1
    BY <1>1, <2>1, <2>3 DEF OpensAt
  <2> QED  BY <2>2, <2>3
<1>3. ASSUME NEW i, NEW j, OpensAt(i)', OpensAt(j)' PROVE i = j /\ ~modemUp'
  <2>1. i \in 1 .. n - 1 /\ j \in 1 .. n - 1 /\ OpensAt(i + 1) /\ OpensAt(j + 1)
    BY <1>2, <1>3
  <2>2. i + 1 = j + 1 /\ ~modemUp
    BY <2>1 DEF Opens
  <2>3. Head(calls).op # "open"
    <3>1. ASSUME Head(calls).op = "open" PROVE FALSE
      <4>1. OpensAt(1)
        BY <1>1, <3>1 DEF OpensAt, n
      <4>2. 1 = i + 1
        BY <2>1, <4>1 DEF Opens
      <4> QED  BY <1>1, <2>1, <4>2
    <3> QED  BY <3>1
  <2> QED  BY <1>1, <2>1, <2>2, <2>3
<1>4. ASSUME ~modemUp' PROVE (\A hw \in HwIds : modem'[hw] = Absent) /\ \E j : OpensAt(j)'
  <2>1. Head(calls).op # "open" /\ ~modemUp /\ modem' = modem
    BY <1>4
  <2>2. PICK i : OpensAt(i)
    BY <2>1 DEF Opens
  <2>3. i # 1
    BY <1>1, <2>1, <2>2 DEF OpensAt
  <2> DEFINE j == i - 1
  <2>4. j \in 1 .. n - 1 /\ j + 1 = i
    BY <1>1, <2>2, <2>3 DEF OpensAt, n
  <2> HIDE DEF j
  <2>5. OpensAt(j)'
    BY <1>2, <2>2, <2>4
  <2> QED  BY <2>1, <2>5 DEF Opens
<1> QED  BY <1>3, <1>4 DEF Opens

LEMMA LocApiViews ==
  ASSUME Sound, ViewInv, Opens, LocApi
  PROVE  ViewInv' /\ Opens'
<1> DEFINE c == Head(calls)
<1>1. PICK v : Views(v)
  BY DEF ViewInv
<1> DEFINE u == v[Len(msgs) + 1]
<1>2. StateTypes /\ Shapes /\ RequestsTrue /\ calls # <<>> /\ calls' = Tail(calls)
      /\ UNCHANGED <<clients, tables>>
  BY DEF Sound, LocApi, ModemTurn, ModemAdd, ModemChange, ModemRefuse, ModemOpen, NextCall
<1>3. c \in Calls /\ CallShape(reqs, c)
  BY <1>2, HeadCallFacts
<1>4. modem \in Tabs /\ u \in Tabs /\ (modemUp => Under(u, modem, clients))
  BY <1>1, <1>2, ViewFacts DEF StateTypes, Tabs
<1>5. c.op # "open" /\ modemUp' = modemUp /\ (~modemUp => modem' = modem) => Opens'
  BY <1>2, OpensTail DEF StateTypes
<1>6. CASE ModemTurn
  <2>1. c.op = "turn" /\ Posted(c, TRUE) /\ UNCHANGED <<modem, modemUp>>
    BY <1>6 DEF ModemTurn, NextCall
  <2> DEFINE x == [ok |-> TRUE, call |-> c]
  <2>2. Fits(u, x) /\ Apply(u, x) = u
    BY <2>1 DEF Fits, Apply
  <2>3. modemUp' => Under(u, modem', clients)
    BY <1>4, <2>1
  <2> HIDE DEF x, u, c
  <2>4. ViewInv'
    BY <1>1, <1>2, <1>3, <2>1, <2>2, <2>3, PostedViews DEF x, u
  <2> QED  BY <1>5, <2>1, <2>4
<1>7. CASE ModemRefuse
  <2>1. c.op \in Kinds /\ Posted(c, FALSE) /\ UNCHANGED <<modem, modemUp>>
    BY <1>7 DEF ModemRefuse, NextCall
  <2> DEFINE x == [ok |-> FALSE, call |-> c]
  <2>2. c.op # "open" /\ c.op # "turn"
    BY <2>1 DEF Kinds
  <2>3. Fits(u, x) /\ Apply(u, x) = u
    BY <2>2 DEF Fits, Apply
  <2>4. modemUp' => Under(u, modem', clients)
    BY <1>4, <2>1
  <2> HIDE DEF x, u, c
  <2>5. ViewInv'
    BY <1>1, <1>2, <1>3, <2>1, <2>2, <2>3, <2>4, PostedViews DEF x, u
  <2> QED  BY <1>5, <2>1, <2>2, <2>5
<1>8. CASE ModemOpen
  <2>1. c.op = "open" /\ Posted(c, TRUE) /\ modem' = modem /\ modemUp' = TRUE
    BY <1>8 DEF ModemOpen, NextCall
  <2>2. c.cb = "engineUp"
    BY <1>3, <2>1 DEF CallShape
  <2> DEFINE x == [ok |-> TRUE, call |-> c]
  <2>3. Fits(u, x) /\ Apply(u, x) = [hw \in HwIds |-> Absent]
    BY <2>1 DEF Fits, Apply
  <2>4. ~modemUp
    <3>1. OpensAt(1)
      BY <1>2, <2>1, TailFacts DEF OpensAt, StateTypes
    <3> QED  BY <3>1 DEF Opens
  <2>5. Under(Apply(u, x), modem', clients)
    BY <2>1, <2>3, <2>4 DEF Under, Opens
  <2>6. Opens'
    BY <1>2, <2>1, OpensTail DEF StateTypes
  <2> HIDE DEF x, u, c
  <2>7. ViewInv'
    BY <1>1, <1>2, <1>3, <2>1, <2>2, <2>3, <2>5, PostedViews DEF x, u
  <2> QED  BY <2>6, <2>7
<1>9. CASE ModemChange
  <2>1. c.op \in Kinds \ {"add"} /\ Posted(c, TRUE) /\ Known(c) /\ Executed(c) /\ modemUp' = modemUp
    BY <1>9 DEF ModemChange, NextCall
  <2>2. /\ modemUp /\ c.hw \in HwIds /\ modem[c.hw] \in Fences /\ modem[c.hw].id = c.fence.id
        /\ c.op = "modify" => c.fence.opt \in Opts
    BY <1>2, <1>3, <2>1, ModemTypes DEF Known
  <2> DEFINE x == [ok |-> TRUE, call |-> c]
  <2>3. /\ Fits(u, x) /\ Under(Apply(u, x), modem', clients)
        /\ c.op = "pause" => Under(u, modem', clients)
    <3> HIDE DEF u, c
    <3> QED  BY <1>3, <1>4, <2>1, <2>2, ChangeUnder
  <2>4. c.cb = "ignore" => c.op = "pause"
    BY <1>3 DEF CallShape
  <2>5. c.op \notin {"turn", "open"}
    BY <2>1 DEF Kinds
  <2>6. Opens'
    BY <1>5, <2>1, <2>2, <2>5
  <2> HIDE DEF x, u, c
  <2>7. ViewInv'
    BY <1>1, <1>2, <1>3, <2>1, <2>2, <2>3, <2>4, <2>5, PostedViews DEF x, u
  <2> QED  BY <2>6, <2>7
<1>10. CASE ModemAdd
  <2>1. c.op = "add" /\ modemUp' = modemUp
    BY <1>10 DEF ModemAdd, NextCall
  <2>2. PICK hw \in HwIds : /\ modemUp /\ modem[hw] = Absent
                            /\ modem' = [modem EXCEPT ![hw] = [c.fence EXCEPT !.paused = FALSE]]
                            /\ Posted([c EXCEPT !.hw = hw], TRUE)
    BY <1>10 DEF ModemAdd
  <2> DEFINE d == [c EXCEPT !.hw = hw]
             x == [ok |-> TRUE, call |-> d]
  <2>3. d \in Calls /\ d.op = "add" /\ d.hw = hw /\ d.fence = c.fence /\ d.cb = c.cb
        /\ d.r = c.r /\ d.i = c.i
    BY <1>3, <2>1 DEF Calls
  <2> HIDE DEF d
  <2>4. CallShape(reqs, d) /\ d.fence \in Fences /\ d.cb # "ignore"
    BY <1>3, <2>1, <2>3 DEF CallShape
  <2>5. Fits(u, x) /\ Under(Apply(u, x), modem', clients)
    <3>1. modem' = [modem EXCEPT ![hw] = [d.fence EXCEPT !.paused = FALSE]]
      BY <2>2, <2>3
    <3> HIDE DEF u
    <3> QED  BY <1>4, <2>2, <2>3, <2>4, <3>1, AddUnder
  <2>6. Opens'
    BY <1>5, <2>1, <2>2
  <2>7. Posted(d, TRUE)
    BY <2>2 DEF d
  <2> HIDE DEF x, u, c
  <2>8. ViewInv'
    BY <1>1, <1>2, <2>3, <2>4, <2>5, <2>7, PostedViews DEF x, u
  <2> QED  BY <2>6, <2>8
<1> QED  BY <1>6, <1>7, <1>8, <1>9, <1>10 DEF LocApi

-----------------------------------------------------------------------------
(***************************************************************************)
(* Removal of a client: its geofences go from every view.                  *)
(***************************************************************************)
Without(S, w) == [hw \in HwIds |-> IF w[hw].id \in S THEN Absent ELSE w[hw]]

Put(w, h, f) == [w EXCEPT ![h] = f]

LEMMA WithoutFacts ==
  ASSUME NEW S \in SUBSET Ids, NEW w \in Tabs
  PROVE  /\ Without(S, w) \in Tabs
         /\ \A hw \in HwIds : Without(S, w)[hw] = IF w[hw].id \in S THEN Absent ELSE w[hw]
         /\ \A hw \in HwIds : Without(S, w)[hw] \in {Absent, w[hw]}
         /\ Without(S, [hw \in HwIds |-> Absent]) = [hw \in HwIds |-> Absent]
BY NoneFacts DEF Without, Tabs

LEMMA WithoutExcept ==
  ASSUME NEW S \in SUBSET Ids, NEW w \in Tabs, NEW h \in HwIds, NEW f \in Fences \cup {Absent}
  PROVE  Without(S, Put(w, h, f)) = Put(Without(S, w), h, IF f.id \in S THEN Absent ELSE f)
<1> DEFINE u == Put(w, h, f)
           a == Without(S, u)
           b == Without(S, w)
<1>1. u \in Tabs /\ u[h] = f /\ \A hw \in HwIds : hw # h => u[hw] = w[hw]
  BY DEF Tabs, Put
<1> HIDE DEF u
<1>2. /\ a \in Tabs /\ b \in Tabs
      /\ \A hw \in HwIds : a[hw] = IF u[hw].id \in S THEN Absent ELSE u[hw]
      /\ \A hw \in HwIds : b[hw] = IF w[hw].id \in S THEN Absent ELSE w[hw]
  BY <1>1, WithoutFacts
<1> HIDE DEF a, b
<1>3. ASSUME NEW g, g = IF f.id \in S THEN Absent ELSE f PROVE a = [b EXCEPT ![h] = g]
  <2>1. a \in [HwIds -> Fences \cup {Absent}] /\ b \in [HwIds -> Fences \cup {Absent}]
    BY <1>2 DEF Tabs
  <2>2. \A hw \in HwIds : a[hw] = IF hw = h THEN g ELSE b[hw]
    BY <1>1, <1>2, <1>3
  <2> QED  BY <2>1, <2>2
<1> QED  BY <1>3 DEF a, b, u, Put

LEMMA WithoutApply ==
  ASSUME NEW S \in SUBSET Ids, NEW w \in Tabs, NEW rq, NEW m \in Messages,
         CallShape(rq, m.call), m.ok /\ m.call.op = "add" => m.call.hw \in HwIds,
         m.call.op = "modify" => m.call.fence.opt \in Opts,
         m.ok /\ m.call.op = "add" => m.call.fence.id \notin S
  PROVE  /\ Without(S, Apply(w, m)) = Apply(Without(S, w), m)
         /\ Fits(w, m) => Fits(Without(S, w), m)
<1> DEFINE c == m.call
           u == Without(S, w)
<1>0. \A hw \in HwIds : w[hw] \in Fences \cup {Absent}
  BY DEF Tabs
<1>1. /\ u \in Tabs /\ \A hw \in HwIds : u[hw] = IF w[hw].id \in S THEN Absent ELSE w[hw]
      /\ \A hw \in HwIds : w[hw] \in Fences \cup {Absent}
  <2>1. u \in Tabs /\ \A hw \in HwIds : u[hw] = IF w[hw].id \in S THEN Absent ELSE w[hw]
    BY WithoutFacts
  <2> QED  BY <1>0, <2>1
<1>2. c.op \in Kinds \/ c.op \in {"turn", "open"}
  BY DEF Messages, Calls
<1>3. c.op \in Kinds \ {"add"} => c.hw \in HwIds
  BY DEF CallShape
<1>4. CASE c.op \in {"turn", "open"} \/ ~m.ok
  <2>1. Without(S, Apply(w, m)) = Apply(u, m)
    BY <1>4, WithoutFacts DEF Apply, Kinds
  <2>2. Fits(u, m)
    BY <1>4 DEF Fits
  <2> QED  BY <2>1, <2>2
<1>5. CASE m.ok /\ c.op = "add"
  <2> DEFINE h == c.hw
             f == [c.fence EXCEPT !.paused = FALSE]
  <2>1. h \in HwIds /\ f \in Fences /\ f.id \notin S
    <3>1. c.fence \in Fences
      BY <1>5 DEF CallShape
    <3> QED  BY <1>5, <3>1 DEF Fences
  <2>2. Apply(w, m) = [w EXCEPT ![h] = f] /\ Apply(u, m) = [u EXCEPT ![h] = f]
    BY <1>5 DEF Apply
  <2>3. Fits(w, m) => Fits(u, m)
    <3>1. w[h] = Absent => u[h] = Absent
      BY <1>1, <2>1
    <3> QED  BY <1>5, <3>1 DEF Fits
  <2> HIDE DEF h, f
  <2>4. Without(S, Put(w, h, f)) = Put(Without(S, w), h, f)
    <3>1. Without(S, Put(w, h, f)) = Put(Without(S, w), h, IF f.id \in S THEN Absent ELSE f)
      BY <2>1, WithoutExcept
    <3> QED  BY <2>1, <3>1
  <2> QED  BY <2>2, <2>3, <2>4 DEF Put
<1>6. CASE m.ok /\ c.op = "remove"
  <2> DEFINE h == c.hw
  <2>1. h \in HwIds
    BY <1>3, <1>6 DEF Kinds
  <2>2. Apply(w, m) = [w EXCEPT ![h] = Absent] /\ Apply(u, m) = [u EXCEPT ![h] = Absent]
    BY <1>6 DEF Apply
  <2>3. Fits(w, m) => Fits(u, m)
    <3>1. u[h] = Absent \/ u[h] = w[h]
      BY <1>1, <2>1
    <3> QED  BY <1>6, <3>1 DEF Fits
  <2> HIDE DEF h
  <2>4. Without(S, Put(w, h, Absent)) = Put(Without(S, w), h, Absent)
    <3>1. Without(S, Put(w, h, Absent))
            = Put(Without(S, w), h, IF Absent.id \in S THEN Absent ELSE Absent)
      BY <2>1, WithoutExcept
    <3> QED  BY <3>1
  <2> QED  BY <2>2, <2>3, <2>4 DEF Put
<1>7. CASE m.ok /\ c.op \in {"pause", "resume", "modify"}
  <2> DEFINE h == c.hw
             op == c.op
             opt == c.fence.opt
             g == Amended(op, w[h], opt)
  <2>1. h \in HwIds /\ (op \in {"pause", "resume"} \/ opt \in Opts)
    BY <1>3, <1>7 DEF Kinds
  <2>2. Fits(u, m)
    BY <1>7 DEF Fits
  <2>3. /\ Apply(w, m) = IF w[h] = Absent THEN w ELSE [w EXCEPT ![h] = Amended(op, w[h], opt)]
        /\ Apply(u, m) = IF u[h] = Absent THEN u ELSE [u EXCEPT ![h] = Amended(op, u[h], opt)]
    BY <1>7 DEF Apply
  <2> HIDE DEF h, op, opt
  <2>4. CASE w[h] = Absent
    BY <1>1, <2>1, <2>2, <2>3, <2>4
  <2>5. CASE w[h] # Absent
    <3>1. w[h] \in Fences
      BY <1>1, <2>1, <2>5
    <3>2. g \in Fences /\ g.id = w[h].id
      BY <2>1, <3>1, AmendedFacts
    <3>3. CASE w[h].id \in S
      <4>1. u[h] = Absent
        BY <1>1, <2>1, <3>3
      <4>2. [u EXCEPT ![h] = Absent] = u
        BY <1>1, <2>1, <4>1 DEF Tabs
      <4> HIDE DEF g
      <4>3. Without(S, Put(w, h, g)) = Put(Without(S, w), h, IF g.id \in S THEN Absent ELSE g)
        BY <2>1, <3>2, WithoutExcept
      <4>4. Without(S, Put(w, h, g)) = Put(u, h, Absent)
        BY <3>2, <3>3, <4>3
      <4> QED  BY <2>2, <2>3, <2>5, <4>1, <4>2, <4>4 DEF g, Put
    <3>4. CASE w[h].id \notin S
      <4>1. u[h] = w[h]
        BY <1>1, <2>1, <3>4
      <4> HIDE DEF g
      <4>2. Without(S, Put(w, h, g)) = Put(Without(S, w), h, IF g.id \in S THEN Absent ELSE g)
        BY <2>1, <3>2, WithoutExcept
      <4>3. Without(S, Put(w, h, g)) = Put(u, h, g)
        BY <3>2, <3>4, <4>2
      <4> QED  BY <2>2, <2>3, <2>5, <4>1, <4>3 DEF g, Put
    <3> QED  BY <3>3, <3>4
  <2> QED  BY <2>4, <2>5
<1> QED  BY <1>2, <1>4, <1>5, <1>6, <1>7 DEF Kinds

\* An id on its way to the adapter is not in its map yet.
LEMMA ComingUnmapped ==
  ASSUME Sound, MapsAgree, NEW k \in 1 .. Len(msgs), msgs[k].ok, msgs[k].call.op = "add"
  PROVE  idMap[msgs[k].call.fence.id] = None
<1> DEFINE id == msgs[k].call.fence.id
<1>1. StateTypes /\ Shapes /\ Waits
  BY DEF Sound, Waits
<1>2. k \in DOMAIN P /\ P[k] = Item(msgs[k].call, msgs[k].ok)
  <2>1. /\ DOMAIN P = 1 .. Len(msgs) + Len(calls) /\ Len(msgs) \in Nat /\ Len(calls) \in Nat
        /\ \A j \in 1 .. Len(msgs) : P[j] = Item(msgs[j].call, msgs[j].ok)
    <3>1. msgs \in Seq(Messages) /\ calls \in Seq(Calls)
      BY <1>1 DEF StateTypes
    <3> QED  BY ONLY <3>1, PipeType DEF P
  <2>2. k \in 1 .. Len(msgs)
    OBVIOUS
  <2> DEFINE n == Len(msgs)
             l == Len(calls)
  <2>3. DOMAIN P = 1 .. n + l /\ n \in Nat /\ l \in Nat /\ k \in 1 .. n
    BY ONLY <2>1, <2>2
  <2> HIDE DEF n, l
  <2>4. k \in DOMAIN P
    BY ONLY <2>3
  <2> QED  BY ONLY <2>1, <2>2, <2>4
<1>3. P[k].call = msgs[k].call /\ P[k].live /\ CallShape(reqs, msgs[k].call)
  <2>1. P[k].call = msgs[k].call /\ P[k].live = msgs[k].ok
    BY <1>2 DEF Item
  <2> QED  BY <1>1, <1>2, <2>1, PipeShapes
<1>4. AddOf(reqs, P[k]) = id /\ id \in Ids /\ id # None
  BY <1>3, NoneFacts DEF AddOf, CallShape, Kinds
<1>5. \A hw \in HwIds : geofences[hw].id # id
  BY <1>1, <1>2, <1>4 DEF Waits, Tokens
<1> QED  BY <1>1, <1>4, <1>5 DEF MapsAgree, StateTypes

LEMMA RemoveClientViews ==
  ASSUME Sound, MapsAgree, ViewInv, NEW c \in Clients, RemoveClient(c)
  PROVE  ViewInv' /\ MapsAgree'
<1> DEFINE S == {id \in Ids : Owner[id] = c /\ idMap[id] # None}
           it == idMap'
<1>1. StateTypes /\ Shapes /\ RequestsTrue
  BY DEF Sound
<1>2. /\ msgs' = msgs /\ geofences' = geofences /\ modem' = modem /\ modemUp' = modemUp
      /\ clients' = clients \ {c}
      /\ it = [id \in Ids |-> IF id \in S THEN None ELSE idMap[id]]
  BY DEF RemoveClient, modemVars
<1>3. S \in SUBSET Ids /\ (\A id \in S : Owner[id] = c /\ idMap[id] # None)
  OBVIOUS
<1> HIDE DEF S
<1>4. PICK v : Views(v)
  BY DEF ViewInv
<1> DEFINE n == Len(msgs)
           w == [k \in 1 .. n + 1 |-> Without(S, v[k])]
<1>5. /\ v \in Seq(Tabs) /\ Len(v) = n + 1 /\ n \in Nat /\ v[1] = Live
      /\ \A k \in 1 .. n : k + 1 \in 1 .. n + 1 /\ k \in 1 .. n + 1
      /\ \A k \in 1 .. n : Fits(v[k], msgs[k]) /\ v[k + 1] = Apply(v[k], msgs[k])
      /\ modemUp => Under(v[n + 1], modem, clients)
  BY <1>1, <1>4, ViewFacts
<1>6. 1 \in 1 .. n + 1 /\ n + 1 \in 1 .. n + 1 /\ \A k \in 1 .. n + 1 : v[k] \in Tabs
  BY <1>5
<1>7. w \in Seq(Tabs) /\ Len(w) = n + 1 /\ \A k \in 1 .. n + 1 : w[k] = Without(S, v[k])
  <2>1. \A k \in 1 .. n + 1 : Without(S, v[k]) \in Tabs
    BY <1>3, <1>6, WithoutFacts
  <2>2. w \in [1 .. n + 1 -> Tabs]
    BY <2>1
  <2> QED  BY <1>5, <2>2
<1> HIDE DEF w
<1>8. Without(S, Live) = Live' /\ MapsAgree'
  <2>1. /\ geofences \in [HwIds -> Fences \cup {Absent}] /\ Live \in Tabs
        /\ \A hw \in HwIds : Live[hw] = IF geofences[hw].id # None /\ idMap[geofences[hw].id] = hw
                                        THEN geofences[hw] ELSE Absent
    BY <1>1, LiveTyped DEF StateTypes
  <2> DEFINE u == Without(S, Live)
  <2>2. u \in Tabs /\ \A hw \in HwIds : u[hw] = IF Live[hw].id \in S THEN Absent ELSE Live[hw]
    BY ONLY <1>3, <2>1, WithoutFacts
  <2>3. ASSUME NEW hw \in HwIds
        PROVE  u[hw] = IF geofences[hw].id # None /\ it[geofences[hw].id] = hw
                       THEN geofences[hw] ELSE Absent
    <3>1. CASE geofences[hw] = Absent
      BY <1>3, <2>1, <2>2, <3>1, NoneFacts
    <3>2. CASE geofences[hw] # Absent
      <4>1. geofences[hw] \in Fences /\ geofences[hw].id \in Ids /\ geofences[hw].id # None /\ hw # None
        BY <2>1, <3>2, NoneFacts
      <4>2. it[geofences[hw].id] = IF geofences[hw].id \in S THEN None ELSE idMap[geofences[hw].id]
        BY <1>2, <4>1
      <4> HIDE DEF it, u
      <4>3. CASE geofences[hw].id \in S
        BY <1>3, <2>1, <2>2, <4>1, <4>2, <4>3, NoneFacts
      <4>4. CASE geofences[hw].id \notin S
        BY <1>3, <2>1, <2>2, <4>1, <4>2, <4>4, NoneFacts
      <4> QED  BY <4>3, <4>4
    <3> QED  BY <3>1, <3>2
  <2>4. Live' = u
    <3> HIDE DEF u
    <3> QED  BY <1>2, <2>1, <2>2, <2>3, LiveNext
  <2>5. MapsAgree'
    BY <1>2 DEF MapsAgree
  <2> QED  BY <2>4, <2>5
<1>9. ASSUME NEW k \in 1 .. n PROVE Fits(w[k], msgs[k]) /\ w[k + 1] = Apply(w[k], msgs[k])
  <2> DEFINE x == msgs[k]
  <2>1. x \in Messages /\ x.call \in Calls /\ CallShape(reqs, x.call)
        /\ (x.ok /\ x.call.op = "add" => x.call.hw \in HwIds)
    <3>1. msgs \in Seq(Messages) /\ k \in 1 .. Len(msgs) /\ k \in DOMAIN msgs
      BY <1>1, <1>5 DEF StateTypes
    <3>2. x \in Messages
      BY ONLY <3>1
    <3>3. CallShape(reqs, x.call) /\ (x.ok /\ x.call.op = "add" => x.call.hw \in HwIds)
      BY <1>1, <3>1 DEF Shapes
    <3> QED  BY <3>2, <3>3 DEF Messages
  <2>2. x.call.op = "modify" => x.call.fence.opt \in Opts
    BY <1>1, <2>1, ModifyOption
  <2>3. x.ok /\ x.call.op = "add" => x.call.fence.id \notin S
    BY <1>3, ComingUnmapped
  <2>4. w[k] = Without(S, v[k]) /\ w[k + 1] = Without(S, v[k + 1]) /\ v[k] \in Tabs
        /\ Fits(v[k], x) /\ v[k + 1] = Apply(v[k], x)
    BY <1>5, <1>6, <1>7
  <2> HIDE DEF x
  <2>5. Without(S, Apply(v[k], x)) = Apply(Without(S, v[k]), x) /\ Fits(Without(S, v[k]), x)
    BY <1>3, <2>1, <2>2, <2>3, <2>4, WithoutApply
  <2> QED  BY <2>4, <2>5 DEF x
<1>10. modemUp => Under(w[n + 1], modem, clients \ {c})
  <2> DEFINE a == v[n + 1]
             b == w[n + 1]
  <2>1. \A hw \in HwIds : b[hw] = IF a[hw].id \in S THEN Absent ELSE a[hw]
    <3>1. a \in Tabs /\ b = Without(S, a) /\ S \in SUBSET Ids
      BY <1>3, <1>6, <1>7
    <3> QED  BY ONLY <3>1, WithoutFacts
  <2>2. modemUp => Under(a, modem, clients)
    BY <1>5
  <2> HIDE DEF a, b
  <2>3. ASSUME Under(a, modem, clients) PROVE Under(b, modem, clients \ {c})
    BY <1>3, <2>1, <2>3 DEF Under
  <2> QED  BY <2>2, <2>3 DEF a, b
<1>11. PICK u : u = w
  OBVIOUS
<1>12. Views(u)'
  <2>1. u[1] = Live'
    BY <1>5, <1>6, <1>7, <1>8, <1>11
  <2>2. modemUp' => Under(u[n + 1], modem', clients')
    BY <1>2, <1>10, <1>11
  <2>3. msgs' = msgs
    BY <1>2
  <2>4. \A k \in 1 .. n : Fits(u[k], msgs[k]) /\ u[k + 1] = Apply(u[k], msgs[k])
    BY <1>9, <1>11
  <2>5. u \in Seq(Tabs) /\ Len(u) = n + 1
    BY <1>7, <1>11
  <2> QED  BY <2>1, <2>2, <2>3, <2>4, <2>5 DEF Views
<1> QED  BY <1>8, <1>12 DEF ViewInv

-----------------------------------------------------------------------------
(***************************************************************************)
(* All of it, action by action.                                            *)
(***************************************************************************)
LEMMA OpensKept ==
  ASSUME Opens, CallsKept, modem' = modem, modemUp' = modemUp
  PROVE  Opens'
<1>1. ASSUME NEW j PROVE OpensAt(j)' <=> OpensAt(j)
  BY DEF OpensAt, CallsKept
<1> QED  BY <1>1 DEF Opens

LEMMA HeadFits ==
  ASSUME StateTypes, ViewInv, msgs # <<>>
  PROVE  Fits(Live, Head(msgs))
<1>1. PICK v : Views(v)
  BY DEF ViewInv
<1>2. Head(msgs) = msgs[1] /\ Len(msgs) \in Nat /\ Len(msgs) >= 1
  BY TailFacts DEF StateTypes
<1>3. 1 \in 1 .. Len(msgs)
  BY <1>2
<1> QED  BY <1>1, <1>2, <1>3, ViewFacts

LEMMA AdapterGeo ==
  ASSUME GeoInv, Adapter, "modify" \notin Multi
  PROVE  GeoInv'
<1>1. Sound /\ MapsAgree /\ ViewInv /\ Opens /\ StateTypes
  BY Zenon DEF GeoInv, Sound
<1>2. msgs # <<>> /\ msgs' = Tail(msgs) /\ UNCHANGED <<clients, modemVars>>
  BY Zenon DEF Adapter, HandleTurn, HandleAnswer, HandleDrop, HandleEngineUp, HandleReadd, Received
<1>3. Fits(Live, Head(msgs))
  BY <1>1, <1>2, HeadFits
<1>4. Sound' /\ CallsKept
  BY <1>1, HandleTurnSound, HandleAnswerSound, HandleDropSound, HandleEngineUpSound,
     HandleReaddSound DEF Adapter
<1>5. Live' = Apply(Live, Head(msgs)) /\ MapsAgree'
  BY <1>1, <1>3, HandleTurnLive, HandleAnswerLive, HandleDropLive, HandleEngineUpLive,
     HandleReaddLive DEF Adapter
<1>6. ViewInv'
  BY <1>1, <1>2, <1>5, ViewTaken
<1>7. Opens'
  BY <1>1, <1>2, <1>4, OpensKept DEF modemVars
<1> QED  BY <1>4, <1>5, <1>6, <1>7 DEF GeoInv

LEMMA AskedSound ==
  ASSUME Sound, NEW r \in Reqs, AddGeofences(r) \/ \E kind \in Kinds \ {"add"} : ChangeGeofences(r, kind)
  PROVE  Sound' /\ CallsKept /\ UNCHANGED <<clients, tables, msgs, modemVars>>
<1>1. StateTypes
  BY DEF Sound
<1>2. CASE AddGeofences(r)
  <2>1. PICK ids \in Batches("add", Ids \ used), opt \in Opts :
               Request(r, "add", ids, opt) /\ used' = used \cup {ids[j] : j \in DOMAIN ids}
    BY <1>2 DEF AddGeofences
  <2> DEFINE S == Ids \ used
  <2>2. S \subseteq Ids /\ ids \in Batches("add", S) /\ S = Ids \ used /\ "add" \in Kinds
    BY <2>1 DEF Kinds
  <2> HIDE DEF S
  <2>3. Sound' /\ CallsKept
    BY <2>1, <2>2, RequestSound
  <2> QED  BY <2>1, <2>3 DEF Request
<1>3. ASSUME NEW kind \in Kinds \ {"add"}, ChangeGeofences(r, kind)
      PROVE  Sound' /\ CallsKept /\ UNCHANGED <<clients, tables, msgs, modemVars>>
  <2>1. PICK ids \in Batches(kind, used), opt \in Opts : Request(r, kind, ids, opt)
    BY <1>3 DEF ChangeGeofences
  <2>2. used' = used /\ used \subseteq Ids /\ kind \in Kinds /\ kind # "add"
    BY <1>1, <1>3 DEF ChangeGeofences, StateTypes
  <2>3. Sound' /\ CallsKept
    BY <2>1, <2>2, RequestSound
  <2> QED  BY <2>1, <2>3 DEF Request
<1> QED  BY <1>2, <1>3

LEMMA AskedGeo ==
  ASSUME GeoInv, NEW r \in Reqs,
         AddGeofences(r) \/ \E kind \in Kinds \ {"add"} : ChangeGeofences(r, kind)
  PROVE  GeoInv'
<1>1. Sound /\ MapsAgree /\ ViewInv /\ Opens /\ StateTypes
  BY DEF GeoInv, Sound
<1>2. Sound' /\ CallsKept /\ UNCHANGED <<clients, tables, msgs, modemVars>>
  BY <1>1, AskedSound
<1>3. Live' = Live /\ MapsAgree'
  BY <1>1, <1>2, LiveSame
<1>4. PICK v : Views(v)
  BY <1>1 DEF ViewInv
<1>5. clients' = clients /\ msgs' = msgs /\ modem' = modem /\ modemUp' = modemUp
  BY <1>2 DEF modemVars
<1>6. ViewInv'
  <2>1. modemUp' => Under(v[Len(msgs) + 1], modem', clients')
    BY <1>1, <1>4, <1>5, ViewFacts
  <2> QED  BY <1>1, <1>3, <1>4, <1>5, <2>1, ViewKept
<1>7. Opens'
  BY <1>1, <1>2, <1>5, OpensKept
<1> QED  BY <1>2, <1>3, <1>6, <1>7 DEF GeoInv

LEMMA RemoveClientGeo ==
  ASSUME GeoInv, NEW c \in Clients, RemoveClient(c)
  PROVE  GeoInv'
<1>1. Sound /\ MapsAgree /\ ViewInv /\ Opens
  BY DEF GeoInv
<1>2. Sound' /\ CallsKept
  BY <1>1, RemoveClientSound
<1>3. ViewInv' /\ MapsAgree'
  BY <1>1, RemoveClientViews
<1>4. modem' = modem /\ modemUp' = modemUp
  BY DEF RemoveClient, modemVars
<1> QED  BY <1>1, <1>2, <1>3, <1>4, OpensKept DEF GeoInv

LEMMA LocApiGeo ==
  ASSUME GeoInv, LocApi
  PROVE  GeoInv'
<1>1. Sound /\ MapsAgree /\ ViewInv /\ Opens
  BY DEF GeoInv
<1>2. UNCHANGED tables
  BY DEF LocApi, ModemTurn, ModemAdd, ModemChange, ModemRefuse, ModemOpen, NextCall
<1>3. Sound' /\ ViewInv' /\ Opens' /\ MapsAgree'
  BY <1>1, <1>2, LocApiSound, LocApiViews, LiveSame
<1> QED  BY <1>3 DEF GeoInv

LEMMA ModemDownGeo ==
  ASSUME GeoInv, ModemDown
  PROVE  GeoInv'
<1>1. Sound /\ MapsAgree /\ ViewInv /\ Opens /\ StateTypes /\ calls \in Seq(Calls)
  BY DEF GeoInv, Sound, StateTypes
<1>2. /\ modemUp /\ modemUp' = FALSE /\ modem' = [hw \in HwIds |-> Absent]
      /\ calls' = Append(calls, OpenCall) /\ UNCHANGED tables /\ msgs' = msgs
  BY DEF ModemDown
<1>3. Sound'
  BY <1>1, ModemDownSound
<1>4. Live' = Live /\ MapsAgree'
  BY <1>1, <1>2, LiveSame
<1>5. PICK v : Views(v)
  BY <1>1 DEF ViewInv
<1>6. ViewInv'
  BY <1>1, <1>2, <1>4, <1>5, ViewKept
<1>7. Opens'
  <2> DEFINE n == Len(calls)
             d == Append(calls, OpenCall)
  <2>1. /\ Len(d) = n + 1 /\ n \in Nat /\ d[n + 1] = OpenCall
        /\ \A j \in 1 .. n : d[j] = calls[j]
    BY <1>1
  <2>2. \A j \in 1 .. n : calls[j].op # "open"
    BY <1>1, <1>2 DEF Opens, OpensAt
  <2>3. calls' = d
    BY <1>2
  <2> HIDE DEF n, d
  <2>4. ASSUME NEW j PROVE OpensAt(j)' <=> j = n + 1
    <3>1. OpensAt(j)' <=> j \in 1 .. Len(d) /\ d[j].op = "open"
      BY <2>3 DEF OpensAt
    <3>2. j \in 1 .. Len(d) <=> j \in 1 .. n \/ j = n + 1
      BY <2>1
    <3> QED  BY <2>1, <2>2, <3>1, <3>2, OpenFacts
  <2> QED  BY <1>2, <2>4 DEF Opens
<1> QED  BY <1>3, <1>4, <1>6, <1>7 DEF GeoInv

LEMMA GeoNext ==
  ASSUME GeoInv, [Next]_vars, "modify" \notin Multi
  PROVE  GeoInv'
<1>1. CASE Client
  BY <1>1, AskedGeo, RemoveClientGeo DEF Client
<1>2. CASE Adapter
  BY <1>2, AdapterGeo
<1>3. CASE LocApi
  BY <1>3, LocApiGeo
<1>4. CASE ModemDown
  BY <1>4, ModemDownGeo
<1>5. CASE UNCHANGED vars
  <2>1. UNCHANGED <<clients, used, geofences, idMap, reqs, msgs, calls, modem, modemUp, ssrs>>
    BY <1>5 DEF vars, tables, modemVars
  <2>2. P' = P /\ Live' = Live
    BY <2>1 DEF P, Live
  <2>3. Sound' /\ MapsAgree' /\ Opens'
    BY <2>1, <2>2 DEF GeoInv, Sound, StateTypes, RequestsTrue, Shapes, MapsAgree, Opens, OpensAt
  <2>4. ViewInv'
    BY <2>1, <2>2 DEF GeoInv, ViewInv, Views
  <2> QED  BY <2>3, <2>4 DEF GeoInv
<1> QED  BY <1>1, <1>2, <1>3, <1>4, <1>5 DEF Next

LEMMA GeoStart == Init => GeoInv
<1> SUFFICES ASSUME Init PROVE GeoInv
  OBVIOUS
<1>1. /\ clients = Clients /\ used = {} /\ geofences = [hw \in HwIds |-> Absent]
      /\ idMap = [id \in Ids |-> None] /\ reqs = [r \in Reqs |-> NoRequest]
      /\ msgs = <<>> /\ calls = <<OpenCall>> /\ modem = [hw \in HwIds |-> Absent]
      /\ modemUp = FALSE /\ ssrs = 0
  BY DEF Init
<1>2. /\ OpenCall \in Calls /\ OpenCall.op = "open" /\ OpenCall.cb = "engineUp"
      /\ CallShape(reqs, OpenCall)
  BY OpenFacts
<1>3. /\ calls \in Seq(Calls) /\ Len(calls) = 1 /\ calls[1] = OpenCall
      /\ msgs \in Seq(Messages) /\ Len(msgs) = 0 /\ DOMAIN calls = 1 .. 1 /\ DOMAIN msgs = 1 .. 0
  BY <1>1, <1>2
<1>4. StateTypes
  <2>1. geofences \in [HwIds -> Fences \cup {Absent}] /\ modem \in [HwIds -> Fences \cup {Absent}]
        /\ idMap \in [Ids -> HwIds \cup {None}]
    BY <1>1
  <2>2. clients \subseteq Clients /\ used \subseteq Ids /\ modemUp \in BOOLEAN /\ ssrs \in 0 .. MaxSsr
    <3>1. 0 \in 0 .. MaxSsr
      BY BoundsAssumption
    <3>2. modemUp \in BOOLEAN
      BY <1>1
    <3> QED  BY <1>1, <3>1, <3>2
  <2> QED  BY <1>3, <2>1, <2>2 DEF StateTypes
<1>5. RequestsTrue
  BY <1>1 DEF RequestsTrue
<1>6. Shapes
  BY <1>2, <1>3 DEF Shapes
<1>7. DOMAIN P = 1 .. 1 /\ P[1] = Item(OpenCall, TRUE)
  <2>1. /\ DOMAIN P = 1 .. Len(msgs) + Len(calls)
        /\ \A j \in 1 .. Len(calls) : P[Len(msgs) + j] = Item(calls[j], TRUE)
    BY <1>3, PipeType DEF P
  <2>2. 1 \in 1 .. Len(calls)
    BY <1>3
  <2>3. P[Len(msgs) + 1] = Item(calls[1], TRUE)
    BY <2>1, <2>2
  <2>4. Len(msgs) + 1 = 1 /\ Len(msgs) + Len(calls) = 1
    BY ONLY <1>3
  <2>5. P[1] = Item(calls[1], TRUE) /\ DOMAIN P = 1 .. 1
    BY <2>1, <2>3, <2>4
  <2> QED  BY <1>3, <2>5
<1>8. \A j \in DOMAIN P : j = 1 /\ AddOf(reqs, P[j]) = None /\ ~Pends(P[j]) /\ \A id : ~Drops(P[j], id)
  <2> DEFINE x == Item(OpenCall, TRUE)
  <2>1. x.call = OpenCall
    BY DEF Item
  <2> HIDE DEF x
  <2>2. AddOf(reqs, x) = None /\ ~Pends(x) /\ \A id : ~Drops(x, id)
    BY <1>2, <2>1 DEF AddOf, Pends, Drops
  <2>3. \A j \in DOMAIN P : j = 1 /\ P[j] = x
    <3>1. \A j \in 1 .. 1 : j = 1
      OBVIOUS
    <3> QED  BY <1>7, <3>1 DEF x
  <2> QED  BY <2>2, <2>3
<1>9. Tokens(P, reqs, geofences, used)
  BY <1>1, <1>8, NoneFacts DEF Tokens
<1>10. DropsFirst(P, reqs, idMap)
  BY <1>8 DEF DropsFirst
<1>11. ItemsOrdered(P)
  BY <1>8 DEF ItemsOrdered, Ordered
<1>12. ItemsWait(P, reqs)
  <2>1. \A r \in Reqs : DOMAIN reqs[r].real = {}
    BY <1>1 DEF NoRequest
  <2> QED  BY <1>8, <2>1 DEF ItemsWait
<1>13. MapsAgree
  BY <1>1 DEF MapsAgree
<1>14. ViewInv
  <2>1. Live \in Tabs
    BY <1>4, LiveTyped
  <2>2. <<Live>> \in Seq(Tabs) /\ Len(<<Live>>) = 1 /\ <<Live>>[1] = Live
    BY <2>1
  <2>3. 1 .. Len(msgs) = {} /\ Len(msgs) + 1 = 1
    BY <1>3
  <2>4. Views(<<Live>>)
    BY <1>1, <2>2, <2>3 DEF Views
  <2> QED  BY <2>4 DEF ViewInv
<1>15. Opens
  <2>1. \A j : OpensAt(j) <=> j = 1
    BY <1>2, <1>3 DEF OpensAt
  <2> QED  BY <1>1, <2>1 DEF Opens
<1> QED  BY <1>4, <1>5, <1>6, <1>9, <1>10, <1>11, <1>12, <1>13, <1>14, <1>15 DEF GeoInv, Sound

LEMMA GeoShows == GeoInv => GeofencesAgree
<1> SUFFICES ASSUME GeoInv PROVE GeofencesAgree
  OBVIOUS
<1>1. Sound /\ StateTypes /\ RequestsTrue /\ Shapes /\ Waits /\ MapsAgree /\ ViewInv /\ Opens
  BY DEF GeoInv, Sound, Waits
<1>2. TypeOK
  <2>1. ASSUME NEW j \in DOMAIN msgs PROVE msgs[j].ok \in BOOLEAN /\ msgs[j].call \in Calls
    <3>1. msgs[j] \in Messages
      BY <1>1 DEF StateTypes
    <3> QED  BY <3>1 DEF Messages
  <2> QED  BY <1>1, <2>1 DEF TypeOK, StateTypes, RequestsTrue
<1>3. FencesAgree
  <2> SUFFICES ASSUME Quiescent PROVE
        /\ \A id \in Ids : idMap[id] # None =>
             /\ modem[idMap[id]].id = id /\ modem[idMap[id]].opt = geofences[idMap[id]].opt
             /\ geofences[idMap[id]].paused => modem[idMap[id]].paused
        /\ \A hw \in HwIds : modem[hw] # Absent /\ Owner[modem[hw].id] \in clients
                               => idMap[modem[hw].id] = hw
    BY DEF FencesAgree
  <2>1. msgs = <<>> /\ calls = <<>> /\ Len(msgs) = 0 /\ Len(calls) = 0
    BY DEF Quiescent
  <2>2. modemUp
    <3>1. \A j : ~OpensAt(j)
      BY <2>1 DEF OpensAt
    <3> QED  BY <1>1, <3>1 DEF Opens
  <2>3. PICK v : Views(v)
    BY <1>1 DEF ViewInv
  <2>4. Under(Live, modem, clients)
    <3>1. v[1] = Live /\ Under(v[Len(msgs) + 1], modem, clients)
      BY <1>1, <2>2, <2>3, ViewFacts
    <3>2. Len(msgs) + 1 = 1
      BY <2>1
    <3> QED  BY <3>1, <3>2
  <2>5. ASSUME NEW id \in Ids, idMap[id] # None
        PROVE  /\ modem[idMap[id]].id = id /\ modem[idMap[id]].opt = geofences[idMap[id]].opt
               /\ geofences[idMap[id]].paused => modem[idMap[id]].paused
    <3>1. /\ idMap[id] \in HwIds /\ Live[idMap[id]] = geofences[idMap[id]]
          /\ geofences[idMap[id]].id = id /\ geofences[idMap[id]] \in Fences
      BY <1>1, <2>5, LiveFacts
    <3>2. Live[idMap[id]] # Absent
      BY <3>1, NoneFacts
    <3> QED  BY <2>4, <3>1, <3>2 DEF Under
  <2>6. ASSUME NEW hw \in HwIds, modem[hw] # Absent, Owner[modem[hw].id] \in clients
        PROVE  idMap[modem[hw].id] = hw
    <3>1. Live[hw].id = modem[hw].id
      BY <2>4, <2>6 DEF Under
    <3>2. modem[hw].id # None
      BY <1>1, <2>6, NoneFacts DEF StateTypes
    <3>3. Live[hw] # Absent
      BY <3>1, <3>2, NoneFacts
    <3>4. Live[hw] = IF geofences[hw].id # None /\ idMap[geofences[hw].id] = hw
                     THEN geofences[hw] ELSE Absent
      BY <1>1, LiveTyped
    <3> QED  BY <3>1, <3>3, <3>4
  <2> QED  BY <2>5, <2>6
<1>4. Answered
  <2> SUFFICES ASSUME Quiescent, NEW r \in Reqs, reqs[r] # NoRequest
               PROVE  \/ reqs[r].sent = 1
                      \/ reqs[r].kind = "resume" /\ Last(reqs[r].real) = "failed"
    BY DEF Answered
  <2>1. DOMAIN P = {}
    <3>1. msgs = <<>> /\ calls = <<>> /\ Len(msgs) = 0 /\ Len(calls) = 0
      BY DEF Quiescent
    <3>2. DOMAIN P = 1 .. Len(msgs) + Len(calls)
      BY <1>1, PipeType DEF P, StateTypes
    <3> QED  BY <3>1, <3>2
  <2> DEFINE q == reqs[r]
             n == Len(q.ids)
  <2>2. RequestTrue(q)
    BY <1>1 DEF RequestsTrue
  <2>3. q.ids \in Seq(Ids) /\ q.real \in Seq(Errors) /\ Len(q.real) = n /\ n >= 1
    BY <2>2 DEF RequestTrue, Requests
  <2>4. n \in DOMAIN q.real
    BY <2>3
  <2>5. q.real[n] # "none"
    <3>1. \A i \in DOMAIN q.real : q.real[i] # "none"
      BY <1>1, <2>1 DEF Waits, ItemsWait
    <3> QED  BY <2>4, <3>1
  <2>6. Last(q.real) = q.real[n]
    BY <2>3 DEF Last
  <2> QED  BY <2>2, <2>5, <2>6 DEF RequestTrue
<1> QED  BY <1>1, <1>2, <1>3, <1>4 DEF GeofencesAgree

\* What clients can reach is what the modem runs, with its options, whenever
\* nothing is under way, and every request was answered by then: whatever was
\* refused, restarted or removed on the way.  Only modify may not name two
\* geofences: the array of its options is freed with the first report.
THEOREM GeofencesAlwaysAgree ==
  ASSUME "modify" \notin Multi
  PROVE  Spec => []GeofencesAgree
<1>1. GeoInv /\ [Next]_vars => GeoInv'
  BY GeoNext
<1> QED  BY <1>1, GeoStart, GeoShows, PTL DEF Spec

-----------------------------------------------------------------------------
(***************************************************************************)
(* What requests are told.                                                 *)
(***************************************************************************)
Truthful == {"add", "remove", "pause"}

\* The earlier geofences of an addition have results: their items were ahead.
LEMMA EarlierDone ==
  ASSUME StateTypes, Shapes, Waits, RequestsTrue, 1 \in DOMAIN P, P[1].call.cb = "done",
         NEW r, r = P[1].call.r, NEW i \in DOMAIN reqs[r].real, i < P[1].call.i
  PROVE  reqs[r].real[i] # "none"
<1>1. Pends(P[1])
  BY DEF Pends
<1>2. r \in Reqs /\ \A j \in DOMAIN P : j \in Nat /\ j >= 1
  BY <1>1, OnlyItem
<1>3. ASSUME reqs[r].real[i] = "none" PROVE FALSE
  <2>1. PICK j \in DOMAIN P : PendsFor(P[j], r, i)
    BY <1>2, <1>3 DEF Waits, ItemsWait
  <2>2. Ordered(j, P[j], 1, P[1])
    BY <2>1 DEF Waits, ItemsOrdered
  <2>3. j < 1
    BY <1>1, <2>1, <2>2 DEF Ordered, PendsFor
  <2> QED  BY <1>2, <2>1, <2>3
<1> QED  BY <1>3

LEMMA ReportTrue ==
  ASSUME Sound, RequestsTrue', SameAsks(reqs, reqs'), Multi \subseteq {"add"},
         1 \in DOMAIN P, Pends(P[1]),
         NEW r, r = P[1].call.r, NEW i, i = P[1].call.i,
         NEW err \in {"ok", "failed", "unknown"}, NEW writes \in BOOLEAN, NEW reports \in BOOLEAN,
         reqs[r].kind \in Truthful => writes, reqs[r].kind = "add" => P[1].call.cb = "done",
         Resulting(r, i, err, writes, reports)
  PROVE  AnswersTrue(Truthful)
<1> DEFINE q == reqs[r]
           t == reqs'[r]
           n == Len(q.ids)
<1>1. StateTypes /\ Shapes /\ Waits /\ RequestsTrue
  BY DEF Sound, Waits
<1>2. r \in Reqs /\ q # NoRequest /\ i \in DOMAIN q.ids
  BY <1>1, OnlyItem
<1>3. t # NoRequest /\ t.kind = q.kind /\ t.ids = q.ids
  BY <1>2 DEF SameAsks
<1>4. RequestTrue(q) /\ RequestTrue(t)
  BY <1>1, <1>2, <1>3 DEF RequestsTrue
<1>5. /\ q.ids \in Seq(Ids) /\ q.real \in Seq(Errors) /\ q.errs \in Seq(Errors)
      /\ Len(q.real) = n /\ Len(q.errs) = n /\ n \in Nat /\ n >= 1
  BY <1>4 DEF RequestTrue, Requests
<1>6. /\ t.real = [q.real EXCEPT ![i] = err]
      /\ t.errs = [q.errs EXCEPT ![i] = IF writes THEN err ELSE @]
      /\ t.sent # q.sent => i = n
      /\ \A s \in Reqs : s # r => reqs'[s] = reqs[s]
  BY DEF Resulting
<1>7. ASSUME t.kind \in Truthful, t.sent # q.sent
      PROVE  t.errs = t.real /\ "none" \notin Range(t.errs)
  <2>1. i = n /\ writes
    BY <1>3, <1>6, <1>7
  <2>2. DOMAIN q.real = 1 .. n /\ DOMAIN q.errs = 1 .. n /\ n \in 1 .. n
    BY <1>5
  <2> HIDE DEF q, t, n
  <2>3. /\ DOMAIN t.real = 1 .. n /\ t.real[n] = err /\ \A j \in 1 .. n : j # n => t.real[j] = q.real[j]
        /\ DOMAIN t.errs = 1 .. n /\ t.errs[n] = err
    BY <1>5, <1>6, <2>1, <2>2
  <2>4. err # "none"
    OBVIOUS
  <2>5. CASE t.kind = "add"
    <3>1. t.errs = t.real
      BY <1>4, <2>5 DEF RequestTrue
    <3>2. ASSUME NEW j \in 1 .. n PROVE t.real[j] # "none"
      <4>1. CASE j = n
        BY <2>3, <2>4, <4>1
      <4>2. CASE j # n
        <5>1. j < i /\ j \in DOMAIN reqs[r].real
          BY <1>5, <2>1, <2>2, <4>2 DEF q
        <5>2. P[1].call.cb = "done"
          BY <1>3, <2>5 DEF q
        <5>3. reqs[r].real[j] # "none"
          BY <1>1, <5>1, <5>2, EarlierDone
        <5> QED  BY <2>3, <4>2, <5>3 DEF q
      <4> QED  BY <4>1, <4>2
    <3> QED  BY <2>3, <3>1, <3>2 DEF Range
  <2>6. CASE t.kind # "add"
    <3>1. n = 1
      BY <1>3, <1>4, <2>6 DEF RequestTrue, n
    <3>2. \A j \in 1 .. n : j = 1
      BY <3>1
    <3>3. t.real \in Seq(Errors) /\ t.errs \in Seq(Errors)
      BY <1>4 DEF RequestTrue, Requests
    <3>4. Len(t.real) = 1 /\ Len(t.errs) = 1 /\ t.real[1] = err /\ t.errs[1] = err
      <4>1. Len(t.real) = n /\ Len(t.errs) = n
        <5>1. Len(t.real) = Len(t.ids) /\ Len(t.errs) = Len(t.ids)
          BY <1>4 DEF RequestTrue
        <5> QED  BY <1>3, <5>1 DEF n
      <4> QED  BY <2>3, <3>1, <4>1
    <3>5. t.errs = t.real
      BY <3>3, <3>4
    <3>6. \A j \in DOMAIN t.errs : t.errs[j] = err
      BY <2>3, <3>1, <3>2
    <3> QED  BY <2>4, <3>5, <3>6 DEF Range
  <2> QED  BY <2>5, <2>6
<1> QED  BY <1>6, <1>7 DEF AnswersTrue

LEMMA NothingSent ==
  ASSUME \A s \in Reqs : reqs'[s].sent = reqs[s].sent
  PROVE  AnswersTrue(Truthful)
BY Zenon DEF AnswersTrue

LEMMA TurnTrue ==
  ASSUME Sound, HandleTurn, Multi \subseteq {"add"}
  PROVE  AnswersTrue(Truthful)
<1> DEFINE m == Head(msgs).call
           q == reqs[m.r]
           id == q.ids[m.i]
<1>1. StateTypes /\ Shapes /\ Waits /\ RequestsTrue
  BY Zenon DEF Sound, Waits
<1>2. msgs # <<>> /\ m.cb = "turn"
  BY Zenon DEF HandleTurn, Received
<1>3. 1 \in DOMAIN P /\ P[1].call = m /\ CallShape(reqs, m)
  BY <1>1, <1>2, HeadFacts
<1>4. Pends(P[1]) /\ m.r \in Reqs /\ q # NoRequest /\ m.i \in DOMAIN q.ids
  BY <1>2, <1>3 DEF Pends, CallShape
<1>5. CASE UNCHANGED reqs
  BY <1>5, NothingSent
<1>6. CASE q.kind # "add" /\ reqs' = [reqs EXCEPT ![m.r].errs[m.i] = "ok"]
  <2>1. \A s \in Reqs : reqs'[s].sent = reqs[s].sent
    BY <1>1, <1>4, <1>6, MarkedFacts
  <2> QED  BY <2>1, NothingSent
<1>7. CASE q.kind # "add" /\ Ended(m.r, m.i, "unknown", TRUE, TRUE)
  <2>1. q.real[m.i] = "none"
    BY <1>1, <1>3, <1>4, OnlyItem
  <2>2. RequestsTrue' /\ SameAsks(reqs, reqs') /\ Resulting(m.r, m.i, "unknown", TRUE, TRUE)
    BY <1>1, <1>4, <1>7, <2>1, EndedFacts
  <2> QED  BY <1>3, <1>4, <1>7, <2>2, ReportTrue
<1> QED  BY <1>5, <1>6, <1>7, Zenon DEF HandleTurn

LEMMA AnswersAreTrue ==
  ASSUME Sound, HandleAnswer, Multi \subseteq {"add"}
  PROVE  AnswersTrue(Truthful)
<1> DEFINE m == Head(msgs).call
<1>1. Answers(m) /\ RequestsTrue' /\ SameAsks(reqs, reqs')
  BY AnswerFacts
<1>2. PICK err \in {"ok", "failed"}, writes \in BOOLEAN, reports \in BOOLEAN :
        (m.op \notin {"resume", "modify"} => writes) /\ Resulting(m.r, m.i, err, writes, reports)
  BY AnswerFacts
<1>3. /\ 1 \in DOMAIN P /\ Pends(P[1]) /\ P[1].call = m /\ m.cb = "done" /\ m.op = reqs[m.r].kind
      /\ reqs[m.r].kind \in Truthful => writes
  BY <1>1, <1>2 DEF Answers, Truthful
<1>4. err \in {"ok", "failed", "unknown"}
  OBVIOUS
<1> QED  BY <1>1, <1>2, <1>3, <1>4, ReportTrue

LEMMA StepTrue ==
  ASSUME Sound, Next, Multi \subseteq {"add"}
  PROVE  AnswersTrue(Truthful)
<1>1. CASE Client
  <2>1. ASSUME NEW r, NEW kind, NEW ids, NEW opt, Request(r, kind, ids, opt)
        PROVE  \A s \in Reqs : reqs'[s].sent = reqs[s].sent
    <3> DEFINE n == Len(ids)
               blank == [j \in 1 .. n |-> "none"]
               ask == [kind |-> kind, ids |-> ids, opt |-> opt,
                       errs |-> blank, real |-> blank, sent |-> 0]
    <3>1. reqs[r] = NoRequest /\ reqs' = [reqs EXCEPT ![r] = ask]
      BY <2>1 DEF Request
    <3>2. ask.sent = 0 /\ NoRequest.sent = 0
      BY DEF NoRequest
    <3>3. reqs \in [Reqs -> Requests \cup {NoRequest}]
      BY DEF Sound, RequestsTrue
    <3> HIDE DEF ask
    <3> QED  BY <3>1, <3>2, <3>3
  <2>2. CASE \E c \in Clients : RemoveClient(c)
    <3>1. reqs' = reqs
      BY <2>2 DEF RemoveClient
    <3> QED  BY <3>1, NothingSent
  <2>3. ASSUME NEW r \in Reqs,
               AddGeofences(r) \/ \E kind \in Kinds \ {"add"} : ChangeGeofences(r, kind)
        PROVE  AnswersTrue(Truthful)
    <3>1. \E kind, ids, opt : Request(r, kind, ids, opt)
      BY <2>3 DEF AddGeofences, ChangeGeofences
    <3> QED  BY <2>1, <3>1, NothingSent
  <2> QED  BY <1>1, <2>2, <2>3 DEF Client
<1>2. CASE Adapter
  <2>1. CASE HandleDrop \/ HandleEngineUp \/ HandleReadd
    <3>1. reqs' = reqs
      BY <2>1 DEF HandleDrop, HandleEngineUp, HandleReadd
    <3> QED  BY <3>1, NothingSent
  <2> QED  BY <1>2, <2>1, TurnTrue, AnswersAreTrue DEF Adapter
<1>3. CASE LocApi
  <2>1. reqs' = reqs
    BY <1>3 DEF LocApi, ModemTurn, ModemAdd, ModemChange, ModemRefuse, ModemOpen, NextCall
  <2> QED  BY <2>1, NothingSent
<1>4. CASE ModemDown
  <2>1. reqs' = reqs
    BY <1>4 DEF ModemDown
  <2> QED  BY <2>1, NothingSent
<1> QED  BY <1>1, <1>2, <1>3, <1>4 DEF Next

\* An addition, a removal or a pause is answered when each of its geofences has
\* its result, and with these results, where only additions name more than one:
\* an id that is not known is answered without its turn at the modem, ahead of
\* the geofences named before it.
THEOREM GeofenceAnswersTrue ==
  ASSUME Multi \subseteq {"add"}
  PROVE  Spec => AnswerTrue
<1>1. "modify" \notin Multi
  OBVIOUS
<1>2. GeoInv /\ [Next]_vars => GeoInv'
  BY <1>1, GeoNext
<1>3. GeoInv /\ [Next]_vars => [AnswersTrue({"add", "remove", "pause"})]_vars
  <2> SUFFICES ASSUME GeoInv, Next PROVE AnswersTrue({"add", "remove", "pause"})
    OBVIOUS
  <2> QED  BY StepTrue DEF GeoInv, Truthful
<1> QED  BY <1>2, <1>3, GeoStart, PTL DEF Spec, AnswerTrue

-----------------------------------------------------------------------------
(***************************************************************************)
(* NTRIP: the types of what the proofs look at.                            *)
(***************************************************************************)
SourceRequests == [source : Sources \cup {NoSource}, gga : {"none", "old", "new"}]

\* The types of what the proofs look at.
StreamTypes ==
  /\ enabled \in BOOLEAN /\ noPending \in BOOLEAN /\ streaming \in BOOLEAN
  /\ consent \in BOOLEAN /\ inSession \in BOOLEAN /\ suspended \in BOOLEAN
  /\ daemonUp \in BOOLEAN /\ statusAsked \in BOOLEAN
  /\ ntripParams \in Sources \cup {NoSource}
  /\ gga \in {"none", "old", "new"} /\ lastGga \in {"zero", "recent", "old"}
  /\ startAnswers \in 0 .. MaxAnswers
  /\ keptParams \in SourceRequests /\ daemonSource \in SourceRequests

\* What the daemon reads.
DaemonReads ==
  /\ ~daemonUp => daemonSource = Nothing
  /\ daemonUp => \/ daemonSource.source = keptParams.source
                 \/ statusAsked /\ daemonSource = Nothing

\* Every handler starts the stream, stops it or leaves what was asked.
Asks ==
  \/ UNCHANGED keptParams
     /\ \/ UNCHANGED daemonSource
        \/ /\ daemonUp /\ daemonSource # Nothing
           /\ \E p \in {"none", "old", "new"} :
                daemonSource' = [daemonSource EXCEPT !.gga = p]
  \/ keptParams' \in SourceRequests /\ daemonSource' = Told(keptParams')

LEMMA NothingType == Nothing \in SourceRequests
BY DEF Nothing, SourceRequests

LEMMA CheckAsks ==
  ASSUME NEW source \in Sources \cup {NoSource}, NEW on, NEW clear, NEW running,
         NEW position \in {"none", "old", "new"}, NEW valid,
         CheckUpdate(source, on, clear, running, position, valid)
  PROVE  Asks
<1>1. ASSUME StartDgnssSource(source, position) PROVE Asks
  <2> DEFINE asked == [source |-> source,
                       gga |-> IF source \in Wanting THEN position ELSE "none"]
  <2>1. keptParams' = asked /\ daemonSource' = Told(asked)
    BY <1>1 DEF StartDgnssSource
  <2>2. asked \in SourceRequests
    BY DEF SourceRequests
  <2> QED  BY <2>1, <2>2 DEF Asks
<1> QED  BY <1>1 DEF CheckUpdate, Asks

LEMMA StopAsks ==
  ASSUME Stop
  PROVE  Asks
BY NothingType DEF Stop, StopDgnssSource, Asks

LEMMA AsksRead ==
  ASSUME StreamTypes, DaemonReads, Asks, UNCHANGED <<daemonUp, statusAsked>>
  PROVE  DaemonReads' /\ keptParams' \in SourceRequests /\ daemonSource' \in SourceRequests
<1>1. CASE UNCHANGED keptParams /\ UNCHANGED daemonSource
  BY <1>1 DEF StreamTypes, DaemonReads, Nothing
<1>2. ASSUME UNCHANGED keptParams, daemonUp, daemonSource # Nothing,
             NEW p \in {"none", "old", "new"}, daemonSource' = [daemonSource EXCEPT !.gga = p]
      PROVE  DaemonReads' /\ keptParams' \in SourceRequests /\ daemonSource' \in SourceRequests
  <2>1. daemonSource' \in SourceRequests /\ daemonSource'.source = daemonSource.source
    BY <1>2 DEF StreamTypes, SourceRequests
  <2> QED  BY <1>2, <2>1 DEF StreamTypes, DaemonReads
<1>3. CASE keptParams' \in SourceRequests /\ daemonSource' = Told(keptParams')
  BY <1>3 DEF StreamTypes, DaemonReads, Told, Nothing
<1> QED  BY <1>1, <1>2, <1>3 DEF Asks

-----------------------------------------------------------------------------
LEMMA StreamInit ==
  ASSUME NtripInit
  PROVE  StreamTypes /\ DaemonReads
<1>1. 0 \in 0 .. MaxAnswers
  BY AnswersAssumption
<1>2. StreamTypes
  BY <1>1, NothingType DEF NtripInit, StreamTypes
<1>3. DaemonReads
  BY DEF NtripInit, DaemonReads
<1> QED  BY <1>2, <1>3

\* What a handler of the adapter leaves of the types.
LEMMA HandlerTypes ==
  ASSUME StreamTypes,
         \/ \E s \in Sources : HandleEnablePPENtrip(s)
         \/ HandleDisablePPENtrip
         \/ StartTimeBasedTracking \/ StartAnswered \/ StartRefused \/ StopTracking
         \/ SuspendSessions \/ RestartSessions
         \/ \E valid \in BOOLEAN : ReportGGA(valid)
  PROVE  Asks /\ UNCHANGED <<daemonUp, statusAsked>>
<1> USE DEF daemon, dgnssState, StreamTypes
<1>1. ASSUME NEW s \in Sources, HandleEnablePPENtrip(s)
      PROVE  Asks /\ UNCHANGED <<daemonUp, statusAsked>>
  <2>1. CASE IsDgnssNmeaRequired(s)
    BY <1>1, <2>1 DEF HandleEnablePPENtrip, Asks
  <2>2. CASE ~IsDgnssNmeaRequired(s)
    BY <1>1, <2>2, CheckAsks DEF HandleEnablePPENtrip
  <2> QED  BY <2>1, <2>2
<1>2. CASE HandleDisablePPENtrip
  BY <1>2, StopAsks DEF HandleDisablePPENtrip
<1>3. CASE StartTimeBasedTracking \/ StartRefused
  BY <1>3 DEF StartTimeBasedTracking, StartRefused, Asks
<1>4. CASE StartAnswered
  BY <1>4, CheckAsks DEF StartAnswered, CheckAgain
<1>5. CASE StopTracking \/ SuspendSessions
  BY <1>5, StopAsks DEF StopTracking, SuspendSessions, StopWithSession
<1>6. CASE RestartSessions
  <2>1. CASE inSession
    BY <1>6, <2>1, CheckAsks DEF RestartSessions, CheckAgain
  <2>2. CASE ~inSession
    BY <1>6, <2>2 DEF RestartSessions, Asks
  <2> QED  BY <1>6, <2>1, <2>2 DEF RestartSessions
<1>7. ASSUME NEW valid \in BOOLEAN, ReportGGA(valid)
      PROVE  Asks /\ UNCHANGED <<daemonUp, statusAsked>>
  BY <1>7, CheckAsks DEF ReportGGA
<1> QED  BY <1>1, <1>2, <1>3, <1>4, <1>5, <1>6, <1>7

\* The bits after a look at the stream.
LEMMA CheckTypes ==
  ASSUME StreamTypes, NEW source \in Sources \cup {NoSource}, NEW on \in BOOLEAN,
         NEW clear \in BOOLEAN, NEW running \in BOOLEAN,
         NEW position \in {"none", "old", "new"}, NEW valid,
         CheckUpdate(source, on, clear, running, position, valid)
  PROVE  /\ enabled' \in BOOLEAN /\ noPending' \in BOOLEAN /\ streaming' \in BOOLEAN
         /\ ntripParams' \in Sources \cup {NoSource}
         /\ gga' \in {"none", "old", "new"} /\ lastGga' \in {"zero", "recent", "old"}
BY DEF CheckUpdate, StreamTypes

LEMMA StreamStep ==
  ASSUME StreamTypes, DaemonReads, [NtripNext]_ntripVars
  PROVE  StreamTypes' /\ DaemonReads'
<1> USE DEF daemon, dgnssState
<1> DEFINE Bits == /\ enabled \in BOOLEAN /\ noPending \in BOOLEAN /\ streaming \in BOOLEAN
                   /\ ntripParams \in Sources \cup {NoSource}
                   /\ gga \in {"none", "old", "new"} /\ lastGga \in {"zero", "recent", "old"}
           Rest == /\ consent \in BOOLEAN /\ inSession \in BOOLEAN /\ suspended \in BOOLEAN
                   /\ startAnswers \in 0 .. MaxAnswers
<1>1. CASE \/ \E s \in Sources : HandleEnablePPENtrip(s)
           \/ HandleDisablePPENtrip
           \/ StartTimeBasedTracking \/ StartAnswered \/ StartRefused \/ StopTracking
           \/ SuspendSessions \/ RestartSessions
           \/ \E valid \in BOOLEAN : ReportGGA(valid)
  <2>1. /\ UNCHANGED <<daemonUp, statusAsked>>
        /\ DaemonReads' /\ keptParams' \in SourceRequests /\ daemonSource' \in SourceRequests
    BY <1>1, HandlerTypes, AsksRead
  <2>2. Rest'
    <3>1. startAnswers' \in 0 .. MaxAnswers
      <4>1. \/ UNCHANGED startAnswers
            \/ startAnswers < MaxAnswers /\ startAnswers' = startAnswers + 1
            \/ startAnswers > 0 /\ startAnswers' = startAnswers - 1
        BY <1>1
           DEF HandleEnablePPENtrip, HandleDisablePPENtrip, StartTimeBasedTracking,
               StartAnswered, StartRefused, StopTracking, SuspendSessions, RestartSessions,
               ReportGGA
      <4>2. startAnswers \in 0 .. MaxAnswers
        BY DEF StreamTypes
      <4> QED  BY <4>1, <4>2, AnswersAssumption
    <3>2. consent' \in BOOLEAN /\ inSession' \in BOOLEAN /\ suspended' \in BOOLEAN
      BY <1>1
       DEF StreamTypes, HandleEnablePPENtrip, HandleDisablePPENtrip, StartTimeBasedTracking,
           StartAnswered, StartRefused, StopTracking, SuspendSessions, RestartSessions, ReportGGA
    <3> QED  BY <3>1, <3>2
  <2>3. Bits'
    <3>1. ASSUME NEW s \in Sources, HandleEnablePPENtrip(s) PROVE Bits'
      <4>1. CASE IsDgnssNmeaRequired(s)
        BY <3>1, <4>1 DEF HandleEnablePPENtrip
      <4>2. CASE ~IsDgnssNmeaRequired(s)
        BY <3>1, <4>2, CheckTypes DEF HandleEnablePPENtrip
      <4> QED  BY <4>1, <4>2
    <3>2. CASE HandleDisablePPENtrip
      BY <3>2 DEF HandleDisablePPENtrip, Stop, StreamTypes
    <3>3. CASE StartTimeBasedTracking \/ StartRefused
      BY <3>3 DEF StartTimeBasedTracking, StartRefused, StreamTypes
    <3>4. CASE StartAnswered
      BY <3>4, CheckTypes, ZenonT(40) DEF StartAnswered, CheckAgain, StreamTypes
    <3>5. CASE StopTracking \/ SuspendSessions
      BY <3>5 DEF StopTracking, SuspendSessions, StopWithSession, Stop, StreamTypes
    <3>6. CASE RestartSessions
      BY <3>6, CheckTypes, ZenonT(40) DEF RestartSessions, CheckAgain, StreamTypes
    <3>7. ASSUME NEW valid \in BOOLEAN, ReportGGA(valid) PROVE Bits'
      BY <3>7, CheckTypes DEF ReportGGA, StreamTypes
    <3> QED  BY <1>1, <3>1, <3>2, <3>3, <3>4, <3>5, <3>6, <3>7
  <2> QED  BY <2>1, <2>2, <2>3 DEF StreamTypes
<1>2. CASE HandleStatusRequest
  BY <1>2, NothingType, Zenon DEF HandleStatusRequest, StreamTypes, DaemonReads, Told, Nothing
<1>3. CASE UpdateNTRIPGGAConsent \/ TenMinutes
  <2>1. /\ UNCHANGED <<enabled, noPending, streaming, ntripParams, gga, inSession, suspended,
                       startAnswers, keptParams, daemonSource, daemonUp, statusAsked>>
        /\ consent' \in BOOLEAN /\ lastGga' \in {"zero", "recent", "old"}
    <3>1. CASE UpdateNTRIPGGAConsent
      BY <3>1 DEF UpdateNTRIPGGAConsent, StreamTypes
    <3>2. CASE TenMinutes
      BY <3>2 DEF TenMinutes, StreamTypes
    <3> QED  BY <1>3, <3>1, <3>2
  <2> QED  BY <2>1 DEF StreamTypes, DaemonReads, Nothing
<1>4. CASE DaemonDies \/ DaemonReturns
  <2>1. CASE DaemonDies
    BY <2>1, NothingType DEF DaemonDies, StreamTypes, DaemonReads
  <2>2. CASE DaemonReturns
    BY <2>2 DEF DaemonReturns, StreamTypes, DaemonReads
  <2> QED  BY <1>4, <2>1, <2>2
<1>5. CASE UNCHANGED ntripVars
  BY <1>5 DEF ntripVars, StreamTypes, DaemonReads, Nothing
<1> QED  BY <1>1, <1>2, <1>3, <1>4, <1>5 DEF NtripNext

-----------------------------------------------------------------------------
(***************************************************************************)
(* Only the sessions, the daemon and the source change.                    *)
(***************************************************************************)
\* The stream runs for the enabled source and a session, and what is pending.
Required == IsDgnssNmeaRequired(ntripParams)

StreamTrue ==
  /\ streaming => /\ enabled /\ inSession /\ keptParams.source = ntripParams
                  /\ Required => noPending
  /\ ~streaming => keptParams = Nothing
  /\ enabled => ntripParams \in Sources /\ (~Required => noPending)
  /\ enabled /\ inSession /\ noPending /\ ~streaming => startAnswers > 0 \/ suspended

\* The sentence is of the session, and there is one if none is pending.
SentenceTrue ==
  /\ gga # "old" /\ (~inSession \/ ~consent => gga = "none")
  /\ Required /\ enabled /\ noPending => gga = "new"

SteadyInv == StreamTrue /\ SentenceTrue /\ PositionFresh /\ PositionGiven

\* A look at the stream of a session in which nothing runs that could run.
LEMMA CheckSteady ==
  ASSUME StreamTypes, SteadyInv, UNCHANGED consent, UNCHANGED inSession,
         NEW source \in Sources \cup {NoSource}, NEW on \in BOOLEAN, NEW clear \in BOOLEAN,
         NEW running \in BOOLEAN, NEW position \in {"none", "new"}, NEW valid,
         CheckUpdate(source, on, clear, running, position, valid),
         running = streaming, running => on /\ source = ntripParams /\ clear,
         on => source \in Sources /\ (~IsDgnssNmeaRequired(source) => clear),
         ~inSession \/ ~consent => position = "none",
         IsDgnssNmeaRequired(source) /\ on /\ clear => position = "new"
  PROVE  SteadyInv'
<1> DEFINE starts == inSession /\ on /\ clear /\ ~running
<1>1. /\ enabled' = on /\ noPending' = clear /\ ntripParams' = source /\ gga' = position
      /\ streaming' = (running \/ starts)
  BY DEF CheckUpdate
<1>2. Required' <=> IsDgnssNmeaRequired(source)
  BY <1>1 DEF Required, IsDgnssNmeaRequired
<1>3. SentenceTrue'
  BY <1>1, <1>2 DEF SentenceTrue
<1>4. CASE starts
  <2>1. keptParams' = [source |-> source,
                       gga |-> IF source \in Wanting THEN position ELSE "none"]
    BY <1>4 DEF CheckUpdate, StartDgnssSource
  <2>2. keptParams'.source = source
        /\ keptParams'.gga = IF source \in Wanting THEN position ELSE "none"
    BY <2>1
  <2>3. StreamTrue'
    BY <1>1, <1>2, <1>4, <2>2 DEF StreamTrue
  <2>4. PositionFresh' /\ PositionGiven'
    BY <1>4, <2>2 DEF PositionFresh, PositionGiven, IsDgnssNmeaRequired
  <2> QED  BY <1>3, <2>3, <2>4 DEF SteadyInv
<1>5. CASE ~starts
  <2>1. UNCHANGED keptParams
    BY <1>5 DEF CheckUpdate
  <2>2. StreamTrue'
    BY <1>1, <1>2, <1>5, <2>1 DEF StreamTrue, SteadyInv, StreamTypes, Nothing
  <2>3. PositionFresh' /\ PositionGiven'
    BY <2>1 DEF SteadyInv, PositionFresh, PositionGiven
  <2> QED  BY <1>3, <2>2, <2>3 DEF SteadyInv
<1> QED  BY <1>4, <1>5

LEMMA StopSteady ==
  ASSUME StreamTypes, SteadyInv, Stop
  PROVE  /\ gga' = "none" /\ ~streaming' /\ keptParams' = Nothing
         /\ keptParams'.gga = "none" /\ keptParams'.source = NoSource
BY DEF Stop, StopDgnssSource, SteadyInv, StreamTrue, Nothing

LEMMA SteadyStep ==
  ASSUME Steady, StreamTypes, SteadyInv, [NtripNext]_ntripVars
  PROVE  SteadyInv'
<1> USE DEF daemon, dgnssState
<1>1. UNCHANGED consent
  BY DEF Steady, NtripNext, HandleEnablePPENtrip, HandleDisablePPENtrip, StartTimeBasedTracking,
         StartAnswered, StartRefused, StopTracking, SuspendSessions, RestartSessions, ReportGGA,
         HandleStatusRequest, UpdateNTRIPGGAConsent, TenMinutes, DaemonDies, DaemonReturns,
         ntripVars
<1>2. ASSUME NEW s \in Sources, HandleEnablePPENtrip(s) PROVE SteadyInv'
  <2>1. ~streaming /\ keptParams = Nothing /\ UNCHANGED <<inSession, startAnswers, suspended>>
    BY <1>2 DEF HandleEnablePPENtrip, Steady, SteadyInv, StreamTrue
  <2>2. CASE IsDgnssNmeaRequired(s)
    BY <1>1, <1>2, <2>1, <2>2
       DEF HandleEnablePPENtrip, SteadyInv, StreamTrue, SentenceTrue, PositionFresh,
           PositionGiven, Required, IsDgnssNmeaRequired, Nothing
  <2>3. CASE ~IsDgnssNmeaRequired(s)
    <3>1. CheckUpdate(s, TRUE, TRUE, FALSE, "none", FALSE)
      BY <1>2, <2>3 DEF HandleEnablePPENtrip
    <3> QED  BY <1>1, <2>1, <2>3, <3>1, CheckSteady DEF StreamTypes
  <2> QED  BY <2>2, <2>3
<1>3. CASE HandleDisablePPENtrip
  <2>1. /\ gga' = "none" /\ ~streaming' /\ keptParams' = Nothing
        /\ keptParams'.gga = "none" /\ keptParams'.source = NoSource /\ ~enabled'
    BY <1>3, StopSteady DEF HandleDisablePPENtrip
  <2> QED
    BY <1>1, <2>1, SourcesAssumption
       DEF SteadyInv, StreamTrue, SentenceTrue, PositionFresh, PositionGiven, Nothing
<1>4. CASE StartTimeBasedTracking
  <2>1. /\ ~inSession /\ inSession' /\ startAnswers' > 0
        /\ gga' = IF gga = "new" THEN "old" ELSE gga
        /\ UNCHANGED <<enabled, noPending, streaming, ntripParams, suspended, keptParams>>
    BY <1>4 DEF StartTimeBasedTracking, StreamTypes
  <2>2. gga' = "none" /\ gga = "none" /\ ~streaming
    BY <2>1 DEF SteadyInv, SentenceTrue, StreamTrue
  <2> QED
    BY <1>1, <2>1, <2>2
       DEF SteadyInv, StreamTrue, SentenceTrue, PositionFresh, PositionGiven, Required,
           IsDgnssNmeaRequired, Nothing
<1>5. CASE StartAnswered
  <2>1. CheckUpdate(ntripParams, enabled, noPending, streaming, gga, FALSE) /\ UNCHANGED inSession
    BY <1>5 DEF StartAnswered, CheckAgain
  <2> QED  BY <1>1, <2>1, CheckSteady DEF StreamTypes, SteadyInv, StreamTrue, SentenceTrue, Required
<1>6. CASE StopTracking \/ SuspendSessions
  <2>1. StopWithSession /\ (inSession' = FALSE \/ suspended' = TRUE)
    BY <1>6 DEF StopTracking, SuspendSessions
  <2>2. /\ gga' = "none" /\ ~streaming' /\ keptParams' = Nothing
        /\ keptParams'.gga = "none" /\ keptParams'.source = NoSource
        /\ noPending' = (noPending /\ ~Required) /\ UNCHANGED <<enabled, ntripParams>>
    BY <2>1, StopSteady DEF StopWithSession, Required
  <2>3. Required' = Required
    BY <1>1, <2>2 DEF Required, IsDgnssNmeaRequired
  <2> QED
    BY <1>1, <2>1, <2>2, <2>3, SourcesAssumption
       DEF SteadyInv, StreamTrue, SentenceTrue, PositionFresh, PositionGiven, Nothing
<1>7. CASE RestartSessions
  <2>1. CASE inSession
    <3>1. CheckUpdate(ntripParams, enabled, noPending, streaming, gga, FALSE)
          /\ UNCHANGED inSession
      BY <1>7, <2>1 DEF RestartSessions, CheckAgain
    <3> QED
      BY <1>1, <3>1, CheckSteady DEF StreamTypes, SteadyInv, StreamTrue, SentenceTrue, Required
  <2>2. CASE ~inSession
    BY <1>1, <1>7, <2>2
       DEF RestartSessions, SteadyInv, StreamTrue, SentenceTrue, PositionFresh, PositionGiven,
           Required, IsDgnssNmeaRequired, Nothing
  <2> QED  BY <2>1, <2>2
<1>8. ASSUME NEW valid \in BOOLEAN, ReportGGA(valid) PROVE SteadyInv'
  <2>1. /\ inSession /\ Required /\ UNCHANGED inSession
        /\ CheckUpdate(ntripParams, enabled, TRUE, streaming, "new", valid)
    BY <1>8 DEF ReportGGA, Required, Steady
  <2>2. consent
    BY <2>1 DEF Required, IsDgnssNmeaRequired
  <2> QED  BY <1>1, <2>1, <2>2, CheckSteady DEF StreamTypes, SteadyInv, StreamTrue, Required
<1>9. CASE \/ HandleStatusRequest \/ TenMinutes \/ DaemonDies \/ DaemonReturns
           \/ UNCHANGED ntripVars
  <2>1. UNCHANGED <<enabled, noPending, streaming, ntripParams, gga, inSession, suspended,
                    startAnswers, keptParams>>
    BY <1>9 DEF HandleStatusRequest, TenMinutes, DaemonDies, DaemonReturns, ntripVars
  <2> QED
    BY <1>1, <2>1
       DEF SteadyInv, StreamTrue, SentenceTrue, PositionFresh, PositionGiven, Required,
           IsDgnssNmeaRequired, Nothing
<1> QED
  BY <1>2, <1>3, <1>4, <1>5, <1>6, <1>7, <1>8, <1>9 DEF NtripNext, Steady, StartRefused,
     UpdateNTRIPGGAConsent

\* A daemon reads the source that it was asked for last, whatever happens to the
\* sessions, the settings, the modem and the daemon itself.  If sentences are the
\* adapter's own, the modem starts when asked, consent stays and a source is enabled
\* only while none is in use, that is the source it should read, and it gets a
\* position, one of the running session, if it wants one.
THEOREM NtripCorrectionsTrue == NtripSpec => []CorrectionsTrue
<1> DEFINE Inv == StreamTypes /\ DaemonReads /\ (Steady => SteadyInv)
<1>1. NtripInit => Inv
  <2> SUFFICES ASSUME NtripInit PROVE Inv
    OBVIOUS
  <2>1. SteadyInv
    BY SourcesAssumption
       DEF NtripInit, SteadyInv, StreamTrue, SentenceTrue, PositionFresh, PositionGiven,
           Required, Nothing
  <2> QED  BY <2>1, StreamInit
<1>2. Inv /\ [NtripNext]_ntripVars => Inv'
  BY StreamStep, SteadyStep DEF Steady
<1>3. Inv => CorrectionsTrue
  <2> SUFFICES ASSUME Inv PROVE CorrectionsTrue
    OBVIOUS
  <2>1. DaemonFollows
    BY DEF DaemonFollows, Settled, DaemonReads
  <2>2. ASSUME Steady, Settled
        PROVE  /\ daemonSource.source =
                    IF enabled /\ inSession /\ (IsDgnssNmeaRequired(ntripParams) => noPending)
                    THEN ntripParams ELSE NoSource
               /\ streaming <=> keptParams # Nothing
    <3>1. /\ daemonSource.source = keptParams.source /\ StreamTrue
          /\ startAnswers = 0 /\ ~suspended
      BY <2>1, <2>2 DEF DaemonFollows, Settled, SteadyInv
    <3>2. streaming => keptParams # Nothing
      BY <3>1, SourcesAssumption DEF StreamTrue, Nothing
    <3>3. streaming <=> enabled /\ inSession /\ (Required => noPending)
      BY <3>1 DEF StreamTrue
    <3> QED  BY <3>1, <3>2, <3>3 DEF StreamTrue, Nothing, Required
  <2> QED  BY <2>1, <2>2 DEF CorrectionsTrue, SourceFollows, SteadyInv
<1> QED  BY <1>1, <1>2, <1>3, PTL DEF NtripSpec

=============================================================================
