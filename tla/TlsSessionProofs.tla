--------------------------- MODULE TlsSessionProofs ---------------------------
(***************************************************************************)
(* TlsInv is an invariant for every number of pieces of a record, every    *)
(* number and kind of records, and every way in which receives and sends   *)
(* cut the two streams.  What one record does to the engine (ParseNextGood) *)
(* is carried by induction over the records of a receive to                *)
(* tls_consume_stream (ConsumeGood); the rest is about the calls.          *)
(***************************************************************************)
EXTENDS TlsSession, DataInduction, SequenceTheorems, TLAPS

(* The parts of the invariant, for an engine t, for g read and w written.    *)
DataTo(p) == {i \in 1 .. p : Kind(i) = "data" /\ \E j \in 1 .. i : Kind(j) = "finished"}

Shaken(t) ==
  IF t.stage = "established" THEN \E j \in 1 .. t.parsed : Kind(j) = "finished"
  ELSE \A j \in 1 .. t.parsed : Kind(j) = "finished" => t.critical /\ j = t.parsed

Increasing(s) == \A i, j \in 1 .. Len(s) : i < j => s[i] < s[j]

Reads(g, t) ==
  /\ {(g \o t.app)[i] : i \in 1 .. Len(g \o t.app)} = DataTo(t.parsed)
  /\ Increasing(g \o t.app)

Whole(w, t) ==
  /\ Len(w) + Len(t.out) = Len(t.made)
  /\ \A i \in 1 .. Len(w) : w[i] = i
  /\ \A i \in 1 .. Len(t.out) : t.out[i] = Len(w) + i

(* Nothing that is not an alert is left out of w.                             *)
AllSent(w, t) == \A i \in 1 .. Len(t.made) : t.made[i] # "alert" => \E j \in 1 .. Len(w) : w[j] = i

NoPage(t) == \A i \in 1 .. Len(t.made) : t.made[i] # "page"

--------------------------------------------------------------------------------
(* The engine.                                                              *)

(* A unit that is written is the next one, and it is the last of what is     *)
(* pending.                                                                 *)
LEMMA WritePacketGood ==
  ASSUME NEW t \in Engine, NEW k \in {"flight", "alert", "page"}
  PROVE  LET u == WritePacket(t, k) IN
         /\ u \in Engine
         /\ u.stage = t.stage /\ u.critical = t.critical
         /\ u.parsed = t.parsed /\ u.app = t.app
         /\ u.made = Append(t.made, k) /\ u.out = Append(t.out, Len(t.made) + 1)
         /\ \A w \in Seq(Nat) : Whole(w, t) => Whole(w, u)
         /\ NoPage(t) /\ k # "page" => NoPage(u)
<1> DEFINE u == WritePacket(t, k)
<1>1. /\ u = [t EXCEPT !.out = Append(t.out, Len(t.made) + 1), !.made = Append(t.made, k)]
      /\ t.out \in Seq(Nat) /\ t.made \in Seq({"flight", "alert", "page"})
  BY DEF WritePacket, Engine
<1>2. /\ Append(t.out, Len(t.made) + 1) \in Seq(Nat)
      /\ Append(t.made, k) \in Seq({"flight", "alert", "page"})
  BY <1>1
<1>3. /\ u \in Engine
      /\ u.stage = t.stage /\ u.critical = t.critical
      /\ u.parsed = t.parsed /\ u.app = t.app
      /\ u.made = Append(t.made, k) /\ u.out = Append(t.out, Len(t.made) + 1)
  BY <1>1, <1>2 DEF Engine
<1> HIDE DEF u
<1>4. ASSUME NEW w \in Seq(Nat), Whole(w, t) PROVE Whole(w, u)
  <2>1. /\ Len(u.out) = Len(t.out) + 1 /\ Len(u.made) = Len(t.made) + 1
        /\ Len(w) \in Nat /\ Len(t.out) \in Nat /\ Len(t.made) \in Nat
        /\ \A i \in 1 .. Len(t.out) : u.out[i] = t.out[i]
        /\ u.out[Len(t.out) + 1] = Len(t.made) + 1
    BY <1>1, <1>3
  <2>2. /\ Len(w) + Len(t.out) = Len(t.made)
        /\ Len(w) \in Nat /\ Len(t.out) \in Nat /\ Len(t.made) \in Nat
    BY <1>1, <1>4 DEF Whole
  <2>3. ASSUME NEW i \in 1 .. Len(u.out) PROVE u.out[i] = Len(w) + i
    <3>1. CASE i \in 1 .. Len(t.out)
      BY <1>4, <2>1, <3>1 DEF Whole
    <3>2. CASE i = Len(t.out) + 1
      <4>1. Len(t.made) + 1 = Len(w) + (Len(t.out) + 1)
        BY <2>2
      <4>2. u.out[i] = Len(t.made) + 1
        BY <2>1, <3>2
      <4> QED BY <3>2, <4>1, <4>2
    <3>3. i \in 1 .. Len(t.out) + 1
      BY <2>1
    <3>4. i \in 1 .. Len(t.out) \/ i = Len(t.out) + 1
      BY <2>2, <3>3
    <3> QED BY <3>1, <3>2, <3>4
  <2>4. Len(w) + Len(u.out) = Len(u.made)
    <3>1. Len(u.out) = Len(t.out) + 1 /\ Len(u.made) = Len(t.made) + 1
      BY <2>1
    <3>2. Len(w) + (Len(t.out) + 1) = Len(t.made) + 1
      BY <2>2
    <3> QED BY <3>1, <3>2
  <2> QED BY <1>4, <2>3, <2>4 DEF Whole
<1>5. NoPage(t) /\ k # "page" => NoPage(u)
  BY <1>1, <1>3 DEF NoPage
<1> QED BY <1>3, <1>4, <1>5 DEF u

LEMMA FailGood ==
  ASSUME NEW t \in Engine
  PROVE  LET u == Fail(t) IN
         /\ u \in Engine /\ u.critical
         /\ u.stage = t.stage /\ u.parsed = t.parsed /\ u.app = t.app
         /\ u.made = t.made /\ u.out = t.out
BY DEF Fail, Engine

(* What the engine must be after record i, if it was t0 before the receive,  *)
(* g being what was read so far.                                             *)
Good(t0, g, i) ==
  {t \in Engine :
     /\ t.parsed \in t0.parsed .. i
     /\ ~t.critical => t.parsed = i
     /\ t.parsed = t0.parsed => t = t0
     /\ Shaken(t) /\ Reads(g, t)
     /\ \A w \in Seq(Nat) : Whole(w, t0) => Whole(w, t)
     /\ NoPage(t0) => NoPage(t)}

LEMMA OneMore ==
  ASSUME NEW p \in Nat
  PROVE  1 .. p + 1 = (1 .. p) \cup {p + 1}
OBVIOUS

LEMMA IncreasingAppend ==
  ASSUME NEW r \in Seq(Nat), NEW n \in Nat, Increasing(r), \A i \in 1 .. Len(r) : r[i] < n
  PROVE  Increasing(Append(r, n))
<1> DEFINE s == Append(r, n)
<1>1. /\ Len(r) \in Nat /\ 1 .. Len(s) = 1 .. Len(r) + 1 /\ s[Len(r) + 1] = n
      /\ \A i \in 1 .. Len(r) : s[i] = r[i] /\ r[i] \in Nat
  OBVIOUS
<1> HIDE DEF s
<1>2. SUFFICES ASSUME NEW i \in 1 .. Len(r) + 1, NEW j \in 1 .. Len(r) + 1, i < j
               PROVE  s[i] < s[j]
  BY <1>1 DEF Increasing, s
<1>3. i \in 1 .. Len(r) /\ (j \in 1 .. Len(r) \/ j = Len(r) + 1)
  BY <1>1, <1>2
<1>4. CASE j \in 1 .. Len(r)
  BY <1>1, <1>2, <1>3, <1>4 DEF Increasing
<1>5. CASE j = Len(r) + 1
  BY <1>1, <1>3, <1>5
<1> QED BY <1>3, <1>4, <1>5

(* Data that is put at the end of what was read.                              *)
LEMMA ReadsAppend ==
  ASSUME NEW g \in Seq(Nat), NEW a \in Seq(Nat), NEW p \in Nat,
         {(g \o a)[i] : i \in 1 .. Len(g \o a)} = DataTo(p), Increasing(g \o a),
         Kind(p + 1) = "data", \E j \in 1 .. p : Kind(j) = "finished"
  PROVE  LET read == g \o Append(a, p + 1) IN
         {read[i] : i \in 1 .. Len(read)} = DataTo(p + 1) /\ Increasing(read)
<1> DEFINE r == g \o a
           s == Append(r, p + 1)
<1>1. g \o Append(a, p + 1) = s
  OBVIOUS
<1>2. r \in Seq(Nat) /\ Increasing(r) /\ Len(r) \in Nat /\ Len(s) = Len(r) + 1 /\ s[Len(r) + 1] = p + 1
      /\ \A i \in 1 .. Len(r) : s[i] = r[i] /\ r[i] \in Nat
  OBVIOUS
<1>3. DataTo(p + 1) = DataTo(p) \cup {p + 1}
  <2>1. 1 .. p + 1 = (1 .. p) \cup {p + 1}
    BY OneMore
  <2>2. \E j \in 1 .. p + 1 : Kind(j) = "finished"
    BY <2>1
  <2> QED BY <2>1, <2>2 DEF DataTo
<1>4. \A i \in 1 .. Len(r) : r[i] < p + 1
  <2> TAKE i \in 1 .. Len(r)
  <2>1. r[i] \in DataTo(p)
    OBVIOUS
  <2> QED BY <2>1 DEF DataTo
<1>5. {s[i] : i \in 1 .. Len(s)} = {r[i] : i \in 1 .. Len(r)} \cup {s[Len(r) + 1]}
  <2> HIDE DEF r, s
  <2>1. 1 .. Len(s) = (1 .. Len(r)) \cup {Len(r) + 1}
    BY <1>2
  <2> QED BY <1>2, <2>1
<1>6. {s[i] : i \in 1 .. Len(s)} = DataTo(p + 1)
  BY <1>2, <1>3, <1>5
<1> HIDE DEF r, s
<1>7. Increasing(s)
  <2>1. r \in Seq(Nat) /\ p + 1 \in Nat /\ Increasing(r) /\ s = Append(r, p + 1)
    BY <1>2 DEF s
  <2>2. Increasing(Append(r, p + 1))
    BY <1>4, <2>1, IncreasingAppend, Zenon
  <2> QED BY <2>1, <2>2, Zenon
<1> QED BY <1>1, <1>6, <1>7 DEF r, s

(* What tls_parse_message makes of record i.                                 *)
LEMMA ParseMessageGives ==
  ASSUME NEW t \in Engine, ~t.critical, NEW i \in Nat, NEW k
  PROVE  LET v == ParseMessage(t, i, k) IN
         /\ v \in Engine /\ v.parsed = i
         /\ \A w \in Seq(Nat) : Whole(w, t) => Whole(w, v)
         /\ NoPage(t) => NoPage(v)
         /\ v.stage = "established" => t.stage = "established" \/ k = "finished"
         /\ v.stage # "established" => t.stage # "established" /\ (k = "finished" => v.critical)
         /\ IF k = "data" /\ t.stage = "established"
            THEN v.app = Append(t.app, i) /\ v.stage = "established" /\ ~v.critical
            ELSE v.app = t.app
<1> DEFINE u == [t EXCEPT !.parsed = i]
           v == ParseMessage(t, i, k)
<1>1. /\ u \in Engine /\ u.parsed = i /\ u.stage = t.stage /\ ~u.critical
      /\ u.app = t.app /\ u.out = t.out /\ u.made = t.made
  BY DEF Engine
<1>2. /\ \A w \in Seq(Nat) : Whole(w, t) => Whole(w, u)
      /\ NoPage(t) => NoPage(u)
  BY <1>1, Zenon DEF Whole, NoPage
<1>3. v = CASE k = "hello" /\ t.stage = "start" ->
                 WritePacket([u EXCEPT !.stage = "hello"], "flight")
            [] k = "finished" /\ t.stage = "hello" ->
                 WritePacket([u EXCEPT !.stage = "established"], "flight")
            [] k = "data" /\ t.stage = "established" -> [u EXCEPT !.app = Append(@, i)]
            [] k = "closing" -> u
            [] k \in {"hello", "finished"} /\ t.stage = "established" -> WritePacket(u, "alert")
            [] k \in {"fatal", "junk"} -> Fail(u)
            [] OTHER -> Fail(WritePacket(u, "alert"))
  BY DEF ParseMessage
<1> HIDE DEF u, v
<1>4. ASSUME NEW s \in {"start", "hello", "established"}
      PROVE  LET x == [u EXCEPT !.stage = s]
                 y == WritePacket(x, "flight")
             IN  /\ y \in Engine /\ y.parsed = i /\ y.stage = s /\ ~y.critical /\ y.app = t.app
                 /\ \A w \in Seq(Nat) : Whole(w, t) => Whole(w, y)
                 /\ NoPage(t) => NoPage(y)
  <2> DEFINE x == [u EXCEPT !.stage = s]
             y == WritePacket(x, "flight")
  <2>1. /\ x \in Engine /\ x.parsed = i /\ x.stage = s /\ ~x.critical
        /\ x.app = t.app /\ x.out = t.out /\ x.made = t.made
    BY <1>1 DEF Engine
  <2> HIDE DEF x
  <2>2. /\ \A w \in Seq(Nat) : Whole(w, t) => Whole(w, x)
        /\ NoPage(t) => NoPage(x)
    BY <2>1, Zenon DEF Whole, NoPage
  <2>3. /\ y \in Engine /\ y.stage = x.stage /\ y.critical = x.critical
        /\ y.parsed = x.parsed /\ y.app = x.app
        /\ \A w \in Seq(Nat) : Whole(w, x) => Whole(w, y)
        /\ NoPage(x) => NoPage(y)
    BY <2>1, WritePacketGood
  <2> HIDE DEF y
  <2>4. /\ y \in Engine /\ y.parsed = i /\ y.stage = s /\ ~y.critical /\ y.app = t.app
        /\ \A w \in Seq(Nat) : Whole(w, t) => Whole(w, y)
        /\ NoPage(t) => NoPage(y)
    BY <2>1, <2>2, <2>3
  <2> QED BY <2>4 DEF x, y
<1>5. LET y == WritePacket(u, "alert")
          z == Fail(y)
      IN  /\ y \in Engine /\ y.parsed = i /\ y.stage = t.stage /\ y.app = t.app
          /\ \A w \in Seq(Nat) : Whole(w, t) => Whole(w, y)
          /\ NoPage(t) => NoPage(y)
          /\ z \in Engine /\ z.parsed = i /\ z.stage = t.stage /\ z.app = t.app /\ z.critical
          /\ \A w \in Seq(Nat) : Whole(w, t) => Whole(w, z)
          /\ NoPage(t) => NoPage(z)
  <2> DEFINE y == WritePacket(u, "alert")
             z == Fail(y)
  <2>1. /\ y \in Engine /\ y.stage = u.stage /\ y.parsed = u.parsed /\ y.app = u.app
        /\ \A w \in Seq(Nat) : Whole(w, u) => Whole(w, y)
        /\ NoPage(u) => NoPage(y)
    BY <1>1, WritePacketGood
  <2> HIDE DEF y
  <2>2. /\ z \in Engine /\ z.critical /\ z.stage = y.stage /\ z.parsed = y.parsed
        /\ z.app = y.app /\ z.made = y.made /\ z.out = y.out
    BY <2>1, FailGood
  <2> HIDE DEF z
  <2>3. /\ \A w \in Seq(Nat) : Whole(w, y) => Whole(w, z)
        /\ NoPage(y) => NoPage(z)
    BY <2>2, Zenon DEF Whole, NoPage
  <2>4. /\ y \in Engine /\ y.parsed = i /\ y.stage = t.stage /\ y.app = t.app
        /\ \A w \in Seq(Nat) : Whole(w, t) => Whole(w, y)
        /\ NoPage(t) => NoPage(y)
    BY <1>1, <1>2, <2>1
  <2>5. /\ z \in Engine /\ z.parsed = i /\ z.stage = t.stage /\ z.app = t.app /\ z.critical
        /\ \A w \in Seq(Nat) : Whole(w, t) => Whole(w, z)
        /\ NoPage(t) => NoPage(z)
    BY <2>2, <2>3, <2>4
  <2> QED BY <2>4, <2>5 DEF y, z
<1>6. LET x == [u EXCEPT !.app = Append(@, i)]
      IN  /\ x \in Engine /\ x.parsed = i /\ x.stage = t.stage /\ ~x.critical
          /\ x.app = Append(t.app, i)
          /\ \A w \in Seq(Nat) : Whole(w, t) => Whole(w, x)
          /\ NoPage(t) => NoPage(x)
  <2> DEFINE x == [u EXCEPT !.app = Append(@, i)]
  <2>1. /\ x \in Engine /\ x.parsed = i /\ x.stage = t.stage /\ ~x.critical
        /\ x.app = Append(t.app, i) /\ x.out = t.out /\ x.made = t.made
    <3>1. u.app \in Seq(Nat) /\ Append(u.app, i) \in Seq(Nat)
      BY <1>1 DEF Engine
    <3>2. x = [u EXCEPT !.app = Append(u.app, i)]
      OBVIOUS
    <3> QED BY <1>1, <3>1, <3>2 DEF Engine
  <2> HIDE DEF x
  <2>2. /\ \A w \in Seq(Nat) : Whole(w, t) => Whole(w, x)
        /\ NoPage(t) => NoPage(x)
    BY <2>1, Zenon DEF Whole, NoPage
  <2>3. /\ x \in Engine /\ x.parsed = i /\ x.stage = t.stage /\ ~x.critical
        /\ x.app = Append(t.app, i)
        /\ \A w \in Seq(Nat) : Whole(w, t) => Whole(w, x)
        /\ NoPage(t) => NoPage(x)
    BY <2>1, <2>2
  <2> QED BY <2>3 DEF x
<1>7. LET z == Fail(u)
      IN  /\ z \in Engine /\ z.parsed = i /\ z.stage = t.stage /\ z.app = t.app /\ z.critical
          /\ \A w \in Seq(Nat) : Whole(w, t) => Whole(w, z)
          /\ NoPage(t) => NoPage(z)
  <2> DEFINE z == Fail(u)
  <2>1. /\ z \in Engine /\ z.critical /\ z.stage = u.stage /\ z.parsed = u.parsed
        /\ z.app = u.app /\ z.made = u.made /\ z.out = u.out
    BY <1>1, FailGood
  <2> HIDE DEF z
  <2>2. /\ \A w \in Seq(Nat) : Whole(w, u) => Whole(w, z)
        /\ NoPage(u) => NoPage(z)
    BY <2>1, Zenon DEF Whole, NoPage
  <2>3. /\ z \in Engine /\ z.parsed = i /\ z.stage = t.stage /\ z.app = t.app /\ z.critical
        /\ \A w \in Seq(Nat) : Whole(w, t) => Whole(w, z)
        /\ NoPage(t) => NoPage(z)
    BY <1>1, <1>2, <2>1, <2>2
  <2> QED BY <2>3 DEF z
<1> DEFINE Given(x) ==
      /\ x \in Engine /\ x.parsed = i
      /\ \A w \in Seq(Nat) : Whole(w, t) => Whole(w, x)
      /\ NoPage(t) => NoPage(x)
      /\ x.stage = "established" => t.stage = "established" \/ k = "finished"
      /\ x.stage # "established" => t.stage # "established" /\ (k = "finished" => x.critical)
      /\ IF k = "data" /\ t.stage = "established"
         THEN x.app = Append(t.app, i) /\ x.stage = "established" /\ ~x.critical
         ELSE x.app = t.app
<1>a. CASE k = "hello" /\ t.stage = "start"
  <2>1. v = WritePacket([u EXCEPT !.stage = "hello"], "flight")
    BY <1>3, <1>a
  <2>2. Given(WritePacket([u EXCEPT !.stage = "hello"], "flight"))
    BY <1>4, <1>a
  <2> QED BY <2>1, <2>2 DEF v
<1>b. CASE k = "finished" /\ t.stage = "hello"
  <2>1. v = WritePacket([u EXCEPT !.stage = "established"], "flight")
    BY <1>3, <1>b
  <2>2. Given(WritePacket([u EXCEPT !.stage = "established"], "flight"))
    BY <1>4, <1>b
  <2> QED BY <2>1, <2>2 DEF v
<1>c. CASE k = "data" /\ t.stage = "established"
  <2>1. v = [u EXCEPT !.app = Append(@, i)]
    BY <1>3, <1>c
  <2>2. Given([u EXCEPT !.app = Append(@, i)])
    BY <1>6, <1>c
  <2> QED BY <2>1, <2>2 DEF v
<1>d. CASE k = "closing"
  <2>1. v = u
    BY <1>3, <1>d
  <2>2. Given(u)
    BY <1>1, <1>2, <1>d
  <2> QED BY <2>1, <2>2 DEF v
<1>e. CASE k \in {"hello", "finished"} /\ t.stage = "established"
  <2>1. v = WritePacket(u, "alert")
    BY <1>3, <1>e
  <2>2. Given(WritePacket(u, "alert"))
    BY <1>5, <1>e
  <2> QED BY <2>1, <2>2 DEF v
<1>f. CASE k \in {"fatal", "junk"}
  <2>1. v = Fail(u)
    BY <1>3, <1>f
  <2>2. Given(Fail(u))
    BY <1>7, <1>f
  <2> QED BY <2>1, <2>2 DEF v
<1>g. CASE /\ ~(k = "hello" /\ t.stage = "start") /\ ~(k = "finished" /\ t.stage = "hello")
           /\ ~(k = "data" /\ t.stage = "established") /\ k # "closing"
           /\ ~(k \in {"hello", "finished"} /\ t.stage = "established")
           /\ k \notin {"fatal", "junk"}
  <2>1. v = Fail(WritePacket(u, "alert"))
    BY <1>3, <1>g
  <2>2. Given(Fail(WritePacket(u, "alert")))
    BY <1>5, <1>g
  <2> QED BY <2>1, <2>2 DEF v
<1> QED BY <1>a, <1>b, <1>c, <1>d, <1>e, <1>f, <1>g

(* Record i is parsed, or passed over after a critical error.                 *)
LEMMA ParseNextGood ==
  ASSUME NEW t0 \in Engine, NEW g \in Seq(Nat), NEW i \in Nat, i > t0.parsed,
         NEW t \in Good(t0, g, i - 1)
  PROVE  ParseNext(t, i, Kind(i)) \in Good(t0, g, i)
<1>1. /\ t \in Engine /\ t.parsed \in t0.parsed .. i - 1 /\ t0.parsed \in Nat
      /\ ~t.critical => t.parsed = i - 1
      /\ t.parsed = t0.parsed => t = t0
      /\ Shaken(t) /\ Reads(g, t)
      /\ \A w \in Seq(Nat) : Whole(w, t0) => Whole(w, t)
      /\ NoPage(t0) => NoPage(t)
  BY DEF Good, Engine
<1>2. CASE t.critical
  <2>1. ParseNext(t, i, Kind(i)) = t
    BY <1>2 DEF ParseNext
  <2>2. t.parsed \in t0.parsed .. i
    BY <1>1
  <2> QED BY <1>1, <1>2, <2>1, <2>2 DEF Good
<1>3. CASE ~t.critical
  <2> DEFINE k == Kind(i)
             v == ParseMessage(t, i, k)
  <2>1. ParseNext(t, i, Kind(i)) = v
    BY <1>3 DEF ParseNext
  <2>2. /\ v \in Engine /\ v.parsed = i
        /\ \A w \in Seq(Nat) : Whole(w, t) => Whole(w, v)
        /\ NoPage(t) => NoPage(v)
        /\ v.stage = "established" => t.stage = "established" \/ k = "finished"
        /\ v.stage # "established" => t.stage # "established" /\ (k = "finished" => v.critical)
        /\ IF k = "data" /\ t.stage = "established"
           THEN v.app = Append(t.app, i) /\ v.stage = "established" /\ ~v.critical
           ELSE v.app = t.app
    <3> HIDE DEF k
    <3> QED BY <1>1, <1>3, ParseMessageGives
  <2> HIDE DEF v
  <2>3. t.parsed = i - 1 /\ i - 1 \in Nat /\ i = (i - 1) + 1
    BY <1>1, <1>3
  <2>4. 1 .. i = (1 .. t.parsed) \cup {i}
    BY <2>3
  <2>5. Shaken(v)
    <3>1. CASE v.stage = "established"
      <4>1. \E j \in 1 .. i : Kind(j) = "finished"
        <5>1. CASE t.stage = "established"
          BY <1>1, <2>4, <5>1 DEF Shaken
        <5>2. CASE k = "finished"
          BY <2>4, <5>2
        <5> QED BY <2>2, <3>1, <5>1, <5>2
      <4> QED BY <2>2, <3>1, <4>1 DEF Shaken
    <3>2. CASE v.stage # "established"
      <4>1. \A j \in 1 .. t.parsed : Kind(j) # "finished"
        BY <1>1, <1>3, <2>2, <3>2 DEF Shaken
      <4>2. \A j \in 1 .. i : Kind(j) = "finished" => v.critical /\ j = i
        BY <2>2, <2>4, <3>2, <4>1
      <4> QED BY <2>2, <3>2, <4>2 DEF Shaken
    <3> QED BY <3>1, <3>2
  <2>6. Reads(g, v)
    <3>1. t.app \in Seq(Nat)
      BY <1>1 DEF Engine
    <3>2. CASE k = "data" /\ t.stage = "established"
      <4>1. \E j \in 1 .. t.parsed : Kind(j) = "finished"
        BY <1>1, <3>2 DEF Shaken
      <4>2. Kind(t.parsed + 1) = "data" /\ t.parsed \in Nat
        BY <2>3, <3>2
      <4>3. /\ {(g \o t.app)[j] : j \in 1 .. Len(g \o t.app)} = DataTo(t.parsed)
            /\ Increasing(g \o t.app)
        BY <1>1 DEF Reads
      <4>4. v.app = Append(t.app, t.parsed + 1) /\ v.parsed = t.parsed + 1
        BY <2>2, <2>3, <3>2
      <4> HIDE DEF k
      <4> DEFINE read == g \o Append(t.app, t.parsed + 1)
      <4>5. {read[j] : j \in 1 .. Len(read)} = DataTo(t.parsed + 1) /\ Increasing(read)
        BY <3>1, <4>1, <4>2, <4>3, ReadsAppend, Zenon
      <4> QED BY <4>4, <4>5, Zenon DEF Reads
    <3>3. CASE ~(k = "data" /\ t.stage = "established")
      <4>1. i \notin DataTo(i)
        <5>1. CASE k # "data"
          BY <5>1 DEF DataTo
        <5>2. CASE t.stage # "established" /\ k = "data"
          <6>1. \A j \in 1 .. t.parsed : Kind(j) # "finished"
            BY <1>1, <1>3, <5>2 DEF Shaken
          <6>2. \A j \in 1 .. i : Kind(j) # "finished"
            BY <2>4, <5>2, <6>1
          <6> QED BY <6>2 DEF DataTo
        <5> QED BY <3>3, <5>1, <5>2
      <4>2. DataTo(i) = DataTo(t.parsed)
        BY <2>4, <4>1 DEF DataTo
      <4> QED BY <1>1, <2>2, <3>3, <4>2 DEF Reads
    <3> QED BY <3>2, <3>3
  <2>7. v.parsed \in t0.parsed .. i /\ v.parsed # t0.parsed
    BY <1>1, <2>2
  <2>8. /\ \A w \in Seq(Nat) : Whole(w, t0) => Whole(w, v)
        /\ NoPage(t0) => NoPage(v)
    BY <1>1, <2>2
  <2> QED BY <2>1, <2>2, <2>5, <2>6, <2>7, <2>8 DEF Good
<1> QED BY <1>2, <1>3

(* tls_consume_stream, by induction over the records.                         *)
LEMMA ConsumeGood ==
  ASSUME tls \in Engine, NEW g \in Seq(Nat), NEW n \in Nat,
         tls.parsed <= n \div RecordParts,
         tls \in Good(tls, g, tls.parsed)
  PROVE  ConsumeStream(n) \in Good(tls, g, n \div RecordParts)
<1> DEFINE a == tls.parsed
           b == n \div RecordParts
           T == [i \in a .. b |-> Good(tls, g, i)]
           step == [i \in a + 1 .. b |->
                      [t \in Engine |-> ParseNext(t, i, Kind(i))]]
<1>1. a \in Nat /\ b \in Nat /\ a <= b
  BY PartsAssumption DEF Engine
<1>2. ASSUME NEW i \in a + 1 .. b, NEW t \in T[i - 1] PROVE step[i][t] \in T[i]
  <2>1. i \in Nat /\ i > tls.parsed /\ i - 1 \in a .. b /\ i \in a .. b
    BY <1>1
  <2>2. t \in Good(tls, g, i - 1)
    BY <2>1
  <2>3. t \in Engine
    BY <2>2 DEF Good
  <2>4. ParseNext(t, i, Kind(i)) \in Good(tls, g, i)
    BY <2>1, <2>2, ParseNextGood
  <2> QED BY <2>1, <2>3, <2>4
<1>3. tls \in T[a]
  BY <1>1
<1> DEFINE Shape(f) == f = [i \in a .. b |-> IF i = a THEN tls ELSE ParseNext(f[i - 1], i, Kind(i))]
<1>4. PICK h : Computed(h, tls, step, T, Engine, a, b)
  <2>1. \A i \in a .. b : T[i] \subseteq Engine
    BY DEF Good
  <2>2. a \in Int /\ b \in Int
    BY <1>1
  <2> HIDE DEF a, b, T, step
  <2>3. Leads(step, T, Engine, a, b)
    BY <1>2, <2>1 DEF Leads
  <2> QED BY <1>1, <1>3, <2>2, <2>3, RecursionExists
<1>5. Shape(h)
  <2>1. ASSUME NEW i \in a .. b, i # a PROVE h[i] = ParseNext(h[i - 1], i, Kind(i))
    <3>1. i \in a + 1 .. b /\ i - 1 \in a .. b
      BY <1>1, <2>1
    <3>2. h[i - 1] \in Engine
      BY <1>4, <3>1 DEF Good, Computed
    <3> QED BY <1>4, <3>1, <3>2 DEF Computed
  <2> HIDE DEF a, b, T, step
  <2> QED BY <1>4, <2>1 DEF Computed
<1> DEFINE f == CHOOSE f : Shape(f)
<1>6. ConsumeStream(n) = f[b]
  BY DEF ConsumeStream
<1>7. Shape(f)
  <2> HIDE DEF Shape
  <2> QED BY <1>5
<1> HIDE DEF f
<1>8. \A i \in a .. b : f[i] \in Good(tls, g, i)
  <2> DEFINE S == {i \in a .. b : f[i] \in Good(tls, g, i)}
  <2>1. a \in S
    BY <1>1, <1>7
  <2>2. ASSUME NEW i \in a .. b - 1, i \in S PROVE i + 1 \in S
    <3>1. i + 1 \in a .. b /\ i + 1 # a /\ (i + 1) - 1 = i /\ i + 1 \in Nat /\ i + 1 > tls.parsed
      BY <1>1
    <3>2. f[i] \in Good(tls, g, (i + 1) - 1)
      BY <2>2, <3>1
    <3>3. f[i + 1] = ParseNext(f[i], i + 1, Kind(i + 1))
      BY <1>7, <3>1
    <3>4. f[i + 1] \in Good(tls, g, i + 1)
      BY <3>1, <3>2, <3>3, ParseNextGood
    <3> QED BY <3>1, <3>4
  <2>3. \A i \in a .. b : i \in S
    <3>1. a \in Int /\ b \in Int /\ \A i \in a .. b - 1 : i \in S => i + 1 \in S
      BY <1>1, <2>2
    <3> HIDE DEF S, a, b
    <3> QED BY <2>1, <3>1, IntervalInduction
  <2> QED BY <2>3
<1> QED BY <1>1, <1>6, <1>8

--------------------------------------------------------------------------------
(* The invariant taken apart: the input, and the output while the session is  *)
(* open, when it is to be shut down, and when it is over.                     *)
Input ==
  /\ tls.parsed <= received \div RecordParts
  /\ tls.critical \/ tls.parsed = received \div RecordParts
  /\ Shaken(tls) /\ Reads(got, tls)

Early == at \in {"accept", "read", "forbidden"}

OpenOutput ==
  at \notin {"shutdown", "over"} =>
    /\ \A i \in 1 .. Len(wire) : wire[i] = i
    /\ broken \/ Whole(wire, tls)
    /\ Early => got = << >> /\ NoPage(tls)

ShutOutput ==
  at = "shutdown" =>
    /\ \A i \in 1 .. Len(Sent) : Sent[i] = i
    /\ broken \/ Whole(Sent, tls)
    /\ Contains(wire, Plain) => NoPage(tls)

OverOutput ==
  at = "over" =>
    /\ \A i \in 1 .. Len(Sent) : Sent[i] = i
    /\ Contains(wire, Plain) => NoPage(tls)
    /\ blocking /\ ~broken /\ got # << >> => AllSent(wire, tls)

Flat ==
  /\ TypeOK
  /\ sending => at \in {"accept", "read", "header", "content"}
  /\ Input /\ OpenOutput /\ ShutOutput /\ OverOutput /\ Pending

LEMMA SentOf ==
  ASSUME TypeOK
  PROVE  /\ Sent \in Seq(Nat) /\ Len(Sent) <= Len(wire)
         /\ \A i \in 1 .. Len(Sent) : Sent[i] = wire[i]
         /\ (\A i \in 1 .. Len(wire) : wire[i] = i) => Sent = wire /\ ~Contains(wire, Plain)
<1>1. wire \in Seq(Nat) /\ Len(wire) \in Nat /\ DOMAIN wire = 1 .. Len(wire)
  BY DEF TypeOK
<1>2. CASE wire # << >> /\ Last(wire) = Plain
  <2>1. Sent = SubSeq(wire, 1, Len(wire) - 1)
    BY <1>2 DEF Sent, Front
  <2>2. Len(wire) \in 1 .. Len(wire)
    BY <1>1, <1>2, EmptySeq
  <2>3. wire[Len(wire)] # Len(wire)
    BY <1>1, <1>2, <2>2 DEF Last, Plain
  <2>4. /\ Sent \in Seq(Nat) /\ Len(Sent) = Len(wire) - 1
        /\ \A i \in 1 .. Len(wire) - 1 : Sent[i] = wire[i]
    BY <1>1, <2>1, <2>2
  <2>5. /\ Len(Sent) <= Len(wire)
        /\ \A i \in 1 .. Len(Sent) : Sent[i] = wire[i]
    BY <1>1, <2>4
  <2> QED BY <2>2, <2>3, <2>4, <2>5
<1>3. CASE ~(wire # << >> /\ Last(wire) = Plain)
  <2>1. Sent = wire
    BY <1>3 DEF Sent
  <2>2. (\A i \in 1 .. Len(wire) : wire[i] = i) => ~Contains(wire, Plain)
    BY <1>1 DEF Contains, Plain
  <2> QED BY <1>1, <2>1, <2>2
<1> QED BY <1>2, <1>3

(* With nothing pending, all that was written is sent.                        *)
LEMMA SentAll ==
  ASSUME NEW w \in Seq(Nat), NEW t \in Engine, Whole(w, t), t.out = << >>
  PROVE  \A i \in 1 .. Len(t.made) : \E j \in 1 .. Len(w) : w[j] = i
<1>1. Len(t.out) = 0 /\ Len(w) \in Nat
  OBVIOUS
<1>2. Len(w) = Len(t.made)
  BY <1>1 DEF Whole
<1> QED BY <1>2 DEF Whole

(* What is sent and pending, put together.                                   *)
LEMMA Together ==
  ASSUME NEW w \in Seq(Nat), NEW t \in Engine
  PROVE  Whole(w, t) <=> /\ \A i \in 1 .. Len(w \o t.out) : (w \o t.out)[i] = i
                         /\ Len(w \o t.out) = Len(t.made)
<1> DEFINE a == w \o t.out
<1>1. t.out \in Seq(Nat) /\ t.made \in Seq({"flight", "alert", "page"})
  BY DEF Engine
<1>2. /\ Len(w) \in Nat /\ Len(t.out) \in Nat /\ Len(a) = Len(w) + Len(t.out)
      /\ \A i \in 1 .. Len(w) : a[i] = w[i]
      /\ \A i \in 1 .. Len(t.out) : a[Len(w) + i] = t.out[i]
  BY <1>1
<1> HIDE DEF a
<1>3. ASSUME Whole(w, t), NEW i \in 1 .. Len(a) PROVE a[i] = i
  <2>1. CASE i \in 1 .. Len(w)
    BY <1>2, <1>3, <2>1 DEF Whole
  <2>2. CASE i \notin 1 .. Len(w)
    <3>1. i - Len(w) \in 1 .. Len(t.out) /\ Len(w) + (i - Len(w)) = i
      BY <1>2, <2>2
    <3>2. a[i] = t.out[i - Len(w)]
      BY <1>2, <3>1
    <3> QED BY <1>3, <3>1, <3>2 DEF Whole
  <2> QED BY <2>1, <2>2
<1>4. ASSUME \A i \in 1 .. Len(a) : a[i] = i
      PROVE  /\ \A i \in 1 .. Len(w) : w[i] = i
             /\ \A i \in 1 .. Len(t.out) : t.out[i] = Len(w) + i
  <2>1. ASSUME NEW i \in 1 .. Len(w) PROVE w[i] = i
    <3>1. i \in 1 .. Len(a)
      BY <1>2
    <3> QED BY <1>2, <1>4, <3>1
  <2>2. ASSUME NEW i \in 1 .. Len(t.out) PROVE t.out[i] = Len(w) + i
    <3>1. Len(w) + i \in 1 .. Len(a)
      BY <1>2
    <3> QED BY <1>2, <1>4, <3>1
  <2> QED BY <2>1, <2>2
<1>5. Whole(w, t) => /\ \A i \in 1 .. Len(a) : a[i] = i
                     /\ Len(a) = Len(t.made)
  BY <1>2, <1>3 DEF Whole
<1>6. ASSUME \A i \in 1 .. Len(a) : a[i] = i, Len(a) = Len(t.made) PROVE Whole(w, t)
  BY <1>2, <1>4, <1>6 DEF Whole
<1> QED BY <1>5, <1>6 DEF a

LEMMA InputIs ==
  ASSUME TypeOK
  PROVE  Parsing /\ ReadsWhatWasSent <=> Input
<1>1. got \o tls.app \in Seq(Nat)
  BY DEF TypeOK, Engine
<1>2. DOMAIN (got \o tls.app) = 1 .. Len(got \o tls.app)
  BY <1>1
<1>3. Data = DataTo(tls.parsed)
  BY DEF Data, DataTo
<1>4. ReadsWhatWasSent <=> (tls.critical \/ tls.parsed = received \div RecordParts) /\ Reads(got, tls)
  BY <1>2, <1>3, Zenon DEF ReadsWhatWasSent, Reads, Increasing
<1> QED BY <1>4 DEF Parsing, Shaken, Input

LEMMA StreamIs ==
  ASSUME TypeOK
  PROVE  StreamIntact <=> /\ \A i \in 1 .. Len(Sent) : Sent[i] = i
                          /\ broken \/ at = "over" \/ Whole(Sent, tls)
                          /\ Contains(wire, Plain) => NoPage(tls)
<1>1. /\ Sent \in Seq(Nat) /\ tls \in Engine
      /\ tls.out \in Seq(Nat) /\ tls.made \in Seq({"flight", "alert", "page"})
  BY SentOf DEF TypeOK, Engine
<1>2. /\ Sent \o tls.out \in Seq(Nat)
      /\ DOMAIN Sent = 1 .. Len(Sent) /\ DOMAIN tls.made = 1 .. Len(tls.made)
      /\ DOMAIN (Sent \o tls.out) = 1 .. Len(Sent \o tls.out)
  BY <1>1
<1>3. Whole(Sent, tls) <=> /\ \A i \in 1 .. Len(Sent \o tls.out) : (Sent \o tls.out)[i] = i
                           /\ Len(Sent \o tls.out) = Len(tls.made)
  BY <1>1, Together
<1>4. Whole(Sent, tls) => \A i \in 1 .. Len(Sent) : Sent[i] = i
  BY DEF Whole
<1>5. CASE broken \/ at = "over"
  BY <1>2, <1>5, Zenon DEF StreamIntact, NoPage
<1>6. CASE ~(broken \/ at = "over")
  BY <1>2, <1>3, <1>4, <1>6, Zenon DEF StreamIntact, NoPage
<1> QED BY <1>5, <1>6

LEMMA LossIs ==
  ASSUME TypeOK
  PROVE  OnlyAlertsLost <=>
           (/\ blocking /\ ~broken
            /\ \/ at \in {"forbidden", "shutdown"} /\ ~tls.critical
               \/ at \in {"shutdown", "over"} /\ got # << >>
            => AllSent(wire, tls))
<1>1. DOMAIN tls.made = 1 .. Len(tls.made) /\ DOMAIN wire = 1 .. Len(wire)
  BY DEF TypeOK, Engine
<1> QED BY <1>1, Zenon DEF OnlyAlertsLost, AllSent

LEMMA InvFlat == TlsInv => Flat
<1> SUFFICES ASSUME TlsInv PROVE Flat
  OBVIOUS
<1>1. TypeOK /\ Pending /\ (sending => at \in {"accept", "read", "header", "content"})
  BY DEF TlsInv
<1>2. Input
  BY InputIs DEF TlsInv
<1>3. /\ \A i \in 1 .. Len(Sent) : Sent[i] = i
      /\ broken \/ at = "over" \/ Whole(Sent, tls)
      /\ Contains(wire, Plain) => NoPage(tls)
  BY StreamIs DEF TlsInv
<1>4. OpenOutput
  <2> SUFFICES ASSUME at \notin {"shutdown", "over"}
               PROVE  /\ \A i \in 1 .. Len(wire) : wire[i] = i
                      /\ broken \/ Whole(wire, tls)
                      /\ Early => got = << >> /\ NoPage(tls)
    BY DEF OpenOutput
  <2>1. DOMAIN wire = 1 .. Len(wire) /\ DOMAIN tls.made = 1 .. Len(tls.made)
    BY <1>1 DEF TypeOK, Engine
  <2>2. /\ \A i \in 1 .. Len(wire) : wire[i] = i
        /\ Early => got = << >> /\ NoPage(tls)
    BY <2>1 DEF TlsInv, Writing, Early, NoPage
  <2>3. Sent = wire
    BY <1>1, <2>2, SentOf
  <2> QED BY <1>3, <2>2, <2>3
<1>5. ShutOutput
  BY <1>3 DEF ShutOutput
<1>6. OverOutput
  <2>1. at = "over" /\ blocking /\ ~broken /\ got # << >> => AllSent(wire, tls)
    BY <1>1, LossIs DEF TlsInv
  <2> QED BY <1>3, <2>1 DEF OverOutput
<1> QED BY <1>1, <1>2, <1>4, <1>5, <1>6 DEF Flat

LEMMA FlatInv == Flat => TlsInv
<1> SUFFICES ASSUME Flat PROVE TlsInv
  OBVIOUS
<1>1. /\ TypeOK /\ Pending /\ (sending => at \in {"accept", "read", "header", "content"})
      /\ Input /\ OpenOutput /\ ShutOutput /\ OverOutput
  BY DEF Flat
<1>2. /\ wire \in Seq(Nat) /\ tls \in Engine /\ Sent \in Seq(Nat)
      /\ at \in {"accept", "read", "header", "content", "forbidden", "shutdown", "over"}
      /\ DOMAIN wire = 1 .. Len(wire) /\ DOMAIN tls.made = 1 .. Len(tls.made)
  BY <1>1, SentOf DEF TypeOK, Engine
<1>3. Parsing /\ ReadsWhatWasSent
  BY <1>1, InputIs
<1>4. at \notin {"shutdown", "over"} => Sent = wire /\ ~Contains(wire, Plain)
  BY <1>1, SentOf DEF OpenOutput
<1>5. /\ \A i \in 1 .. Len(Sent) : Sent[i] = i
      /\ broken \/ at = "over" \/ Whole(Sent, tls)
      /\ Contains(wire, Plain) => NoPage(tls)
  <2>1. CASE at = "shutdown"
    BY <1>1, <2>1 DEF ShutOutput
  <2>2. CASE at = "over"
    BY <1>1, <2>2 DEF OverOutput
  <2>3. CASE at \notin {"shutdown", "over"}
    BY <1>1, <1>4, <2>3 DEF OpenOutput
  <2> QED BY <2>1, <2>2, <2>3
<1>6. StreamIntact
  BY <1>1, <1>5, StreamIs
<1>7. Writing
  BY <1>1, <1>2 DEF OpenOutput, Early, NoPage, Writing
<1>8. OnlyAlertsLost
  <2> SUFFICES ASSUME blocking, ~broken,
                      \/ at \in {"forbidden", "shutdown"} /\ ~tls.critical
                      \/ at \in {"shutdown", "over"} /\ got # << >>
               PROVE  AllSent(wire, tls)
    BY <1>1, LossIs
  <2>1. CASE at = "over"
    BY <1>1, <2>1 DEF OverOutput
  <2>2. CASE at \in {"forbidden", "shutdown"}
    <3>1. tls.out = << >>
      BY <1>1, <2>2 DEF Pending
    <3>2. Whole(Sent, tls)
      BY <1>5, <2>2
    <3>3. \A i \in 1 .. Len(tls.made) : \E j \in 1 .. Len(Sent) : Sent[j] = i
      BY <1>2, <3>1, <3>2, SentAll
    <3>4. \A j \in 1 .. Len(Sent) : j \in 1 .. Len(wire) /\ wire[j] = Sent[j]
      BY <1>1, <1>2, SentOf
    <3> QED BY <3>3, <3>4 DEF AllSent
  <2> QED BY <2>1, <2>2
<1> QED BY <1>1, <1>3, <1>6, <1>7, <1>8 DEF TlsInv

LEMMA FlatInvNext == (Flat => TlsInv)'
  BY FlatInv, PTL

LEMMA SentOfNext ==
  (TypeOK => /\ Sent \in Seq(Nat) /\ Len(Sent) <= Len(wire)
             /\ \A i \in 1 .. Len(Sent) : Sent[i] = wire[i]
             /\ (\A i \in 1 .. Len(wire) : wire[i] = i) => Sent = wire /\ ~Contains(wire, Plain))'
<1>1. TypeOK => /\ Sent \in Seq(Nat) /\ Len(Sent) <= Len(wire)
                /\ \A i \in 1 .. Len(Sent) : Sent[i] = wire[i]
                /\ (\A i \in 1 .. Len(wire) : wire[i] = i) => Sent = wire /\ ~Contains(wire, Plain)
  BY SentOf
<1> QED BY <1>1, PTL

--------------------------------------------------------------------------------
(* What the actions have in common.                                         *)

(* The engine as it is: nothing is due to be parsed.                         *)
LEMMA InputNext ==
  ASSUME \A j \in 1 .. tls'.parsed : Kind(j)' = Kind(j), tls'.parsed \in Nat,
         tls'.parsed <= received' \div RecordParts,
         tls'.critical \/ tls'.parsed = received' \div RecordParts,
         Shaken(tls'), Reads(got', tls')
  PROVE  Input'
<1>1. Shaken(tls)'
  BY DEF Shaken
<1>2. DataTo(tls.parsed)' = DataTo(tls'.parsed)
  <2>1. \A i \in 1 .. tls'.parsed : \A j \in 1 .. i : j \in 1 .. tls'.parsed
    OBVIOUS
  <2>2. \A i \in 1 .. tls'.parsed :
           (Kind(i) = "data" /\ \E j \in 1 .. i : Kind(j) = "finished")'
             <=> (Kind(i) = "data" /\ \E j \in 1 .. i : Kind(j) = "finished")
    BY <2>1
  <2> QED BY <2>2 DEF DataTo
<1>3. Reads(got, tls)'
  BY <1>2 DEF Reads, Increasing
<1> QED BY <1>1, <1>3 DEF Input

LEMMA FlatNextOpen ==
  ASSUME TypeOK', Input', Pending', at' \notin {"shutdown", "over"},
         sending' => at' \in {"accept", "read", "header", "content"},
         \A i \in 1 .. Len(wire') : wire'[i] = i,
         broken' \/ Whole(wire', tls'),
         at' \in {"accept", "read", "forbidden"} => got' = << >> /\ NoPage(tls')
  PROVE  Flat'
<1>1. OpenOutput'
  BY DEF OpenOutput, Early, Whole, NoPage
<1>2. ShutOutput' /\ OverOutput'
  BY DEF ShutOutput, OverOutput
<1> QED BY <1>1, <1>2 DEF Flat

(* Whole records, in what has come.                                          *)
LEMMA DivMod ==
  ASSUME NEW d \in Nat \ {0}, NEW n \in Nat
  PROVE  n % d \in 0 .. d - 1 /\ n \div d \in Nat /\ n = d * (n \div d) + (n % d)
  BY Z3

LEMMA DivLess ==
  ASSUME NEW m \in Nat, NEW n \in Nat, m <= n, NEW d \in Nat \ {0}
  PROVE  m \div d \in Nat /\ n \div d \in Nat /\ m \div d <= n \div d
<1> DEFINE p == m \div d
           q == n \div d
           r == m % d
           s == n % d
<1>1. /\ p \in Nat /\ q \in Nat
      /\ m = d * p + r /\ n = d * q + s
      /\ r \in 0 .. d - 1 /\ s \in 0 .. d - 1
  BY DivMod
<1> HIDE DEF p, q, r, s
<1>2. SUFFICES ASSUME q < p PROVE FALSE
  BY <1>1 DEF p, q
<1>3. /\ d * (q + 1) <= d * p /\ d * (q + 1) = d * q + d
      /\ d * p \in Nat /\ d * q \in Nat
  BY <1>1, <1>2
<1> QED BY <1>1, <1>3

LEMMA RecordInside ==
  ASSUME NEW n \in Nat, NEW d \in Nat \ {0}, NEW i \in 1 .. n \div d
  PROVE  i * d \in 1 .. n
<1> DEFINE q == n \div d
           s == n % d
<1>1. q \in Nat /\ n = d * q + s /\ s \in 0 .. d - 1
  BY DivMod
<1>2. i \in 1 .. q
  OBVIOUS
<1> HIDE DEF q, s
<1>3. i * d <= d * q /\ i * d >= 1 /\ i * d \in Nat /\ d * q \in Nat
  BY <1>1, <1>2
<1> QED BY <1>1, <1>3

(* While the session is open.                                                *)
LEMMA FlatFacts ==
  ASSUME Flat
  PROVE  /\ TypeOK /\ tls \in Engine /\ got \in Seq(Nat) /\ wire \in Seq(Nat)
         /\ tls.parsed \in Nat /\ tls.out \in Seq(Nat) /\ tls.app \in Seq(Nat)
         /\ tls.parsed <= received \div RecordParts
         /\ tls.critical \/ tls.parsed = received \div RecordParts
         /\ Shaken(tls) /\ Reads(got, tls)
         /\ at \notin {"shutdown", "over"} => /\ \A i \in 1 .. Len(wire) : wire[i] = i
                                              /\ broken \/ Whole(wire, tls)
         /\ at \in {"accept", "read", "forbidden"} => got = << >> /\ NoPage(tls)
BY DEF Flat, TypeOK, Engine, Input, OpenOutput, Early

(* An engine with other output has read the same.                            *)
LEMMA SameInput ==
  ASSUME NEW t, NEW u, u.stage = t.stage, u.parsed = t.parsed, u.app = t.app,
         t.critical => u.critical
  PROVE  /\ Shaken(t) => Shaken(u)
         /\ \A g : Reads(g, t) => Reads(g, u)
BY Zenon DEF Shaken, Reads

(* tls_read takes the data out of the engine.                                *)
LEMMA TakeGood ==
  ASSUME NEW t \in Engine, NEW g \in Seq(Nat)
  PROVE  LET u == [t EXCEPT !.app = << >>] IN
         /\ u \in Engine /\ u.critical = t.critical /\ u.parsed = t.parsed
         /\ g \o t.app \in Seq(Nat)
         /\ Shaken(t) => Shaken(u)
         /\ Reads(g, t) => Reads(g \o t.app, u)
         /\ \A w : Whole(w, t) => Whole(w, u)
<1> DEFINE u == [t EXCEPT !.app = << >>]
           h == g \o t.app
<1>1. /\ u \in Engine /\ u.critical = t.critical /\ u.parsed = t.parsed /\ u.stage = t.stage
      /\ u.app = << >> /\ u.out = t.out /\ u.made = t.made
      /\ t.app \in Seq(Nat) /\ h \in Seq(Nat)
  <2>1. << >> \in Seq(Nat) /\ t.app \in Seq(Nat) /\ h \in Seq(Nat)
    BY DEF Engine
  <2> QED BY <2>1 DEF Engine
<1>2. h \o u.app = h
  BY <1>1
<1> HIDE DEF u
<1>3. Shaken(t) => Shaken(u)
  BY <1>1 DEF Shaken
<1>4. Reads(g, t) => Reads(h, u)
  BY <1>1, <1>2, Zenon DEF Reads
<1>5. \A w : Whole(w, t) => Whole(w, u)
  BY <1>1, Zenon DEF Whole
<1> QED BY <1>1, <1>3, <1>4, <1>5 DEF u

(* A step after which the engine is t, that leaves the session open and what  *)
(* was read alone.                                                           *)
LEMMA EarlyStep ==
  ASSUME Flat, NEW t \in Engine, tls' = t, UNCHANGED <<blocking, stream, got>>,
         at \in {"accept", "read", "forbidden"}, at' \in {"accept", "read", "forbidden"},
         hungUp' \in BOOLEAN, broken' \in BOOLEAN, sending' \in BOOLEAN,
         accepted' \in {"pending", "one", "error"},
         received' \in 0 .. Len(stream), wire' \in Seq(Nat),
         t.parsed <= received' \div RecordParts,
         t.critical \/ t.parsed = received' \div RecordParts,
         Shaken(t), Reads(got, t), NoPage(t),
         \A i \in 1 .. Len(wire') : wire'[i] = i, broken' \/ Whole(wire', t),
         sending' => at' # "forbidden",
         blocking /\ ~broken' /\ ~sending' => t.critical \/ t.out = << >>
  PROVE  Flat'
<1>1. TypeOK'
  BY FlatFacts DEF TypeOK
<1>2. Input'
  <2>1. \A j \in 1 .. tls'.parsed : Kind(j)' = Kind(j)
    BY DEF Kind
  <2>2. t.parsed \in Nat
    BY DEF Engine
  <2> QED BY <2>1, <2>2, InputNext
<1>3. Pending'
  BY DEF Pending
<1>4. got' = << >>
  BY FlatFacts
<1> QED BY <1>1, <1>2, <1>3, <1>4, FlatNextOpen

(* The end of an SSL_read after its engine has become t.                     *)
LEMMA AfterRead ==
  ASSUME Flat, NEW t \in Engine, AfterReadStep(t), UNCHANGED <<blocking, stream, accepted>>,
         at = "read", sending' = FALSE,
         hungUp' \in BOOLEAN, broken' \in BOOLEAN,
         received' \in 0 .. Len(stream), wire' \in Seq(Nat),
         t.parsed <= received' \div RecordParts,
         t.critical \/ t.parsed = received' \div RecordParts,
         Shaken(t), Reads(got, t), NoPage(t),
         \A i \in 1 .. Len(wire') : wire'[i] = i, broken' \/ Whole(wire', t),
         blocking /\ ~broken' => t.critical \/ t.out = << >>
  PROVE  Flat'
<1>1. accepted' \in {"pending", "one", "error"}
  BY FlatFacts DEF TypeOK
<1>2. CASE t.app # << >> /\ TakeData(t) /\ at' = "header"
  <2>1. /\ tls' = [t EXCEPT !.app = << >>] /\ got' = got \o t.app
    BY <1>2 DEF TakeData
  <2>2. /\ tls' \in Engine /\ tls'.critical = t.critical /\ tls'.parsed = t.parsed
        /\ got' \in Seq(Nat) /\ Shaken(tls') /\ Reads(got', tls')
        /\ broken' \/ Whole(wire', tls')
    BY <2>1, FlatFacts, TakeGood
  <2>3. TypeOK'
    BY <1>1, <1>2, <2>2, FlatFacts DEF TypeOK
  <2>4. Input'
    <3>1. \A j \in 1 .. tls'.parsed : Kind(j)' = Kind(j)
      BY DEF Kind
    <3>2. tls'.parsed \in Nat
      BY <2>2 DEF Engine
    <3> QED BY <2>2, <3>1, <3>2, InputNext
  <2>5. Pending'
    BY <1>2 DEF Pending
  <2> QED BY <1>2, <2>2, <2>3, <2>4, <2>5, FlatNextOpen
<1>3. CASE tls' = t /\ UNCHANGED got /\ at' \in {"read", "forbidden"}
  BY <1>1, <1>3, EarlyStep
<1> QED BY <1>2, <1>3 DEF AfterReadStep

(* A receive that returns up to piece n.                                     *)
LEMMA Received ==
  ASSUME Flat, NEW n \in received + 1 .. Len(stream)
  PROVE  LET t == ConsumeStream(n) IN
         /\ t \in Engine
         /\ t.parsed <= n \div RecordParts
         /\ t.critical \/ t.parsed = n \div RecordParts
         /\ Shaken(t) /\ Reads(got, t)
         /\ Whole(wire, tls) => Whole(wire, t)
         /\ NoPage(tls) => NoPage(t)
         /\ t.parsed > tls.parsed \/ t = tls
<1> DEFINE t == ConsumeStream(n)
<1>1. n \in Nat /\ received \in Nat /\ received <= n
  BY FlatFacts DEF TypeOK
<1>2. n \div RecordParts \in Nat /\ received \div RecordParts \in Nat
      /\ received \div RecordParts <= n \div RecordParts
  BY <1>1, PartsAssumption, DivLess
<1>3. tls.parsed <= n \div RecordParts /\ tls.parsed \in Nat
  BY <1>2, FlatFacts
<1>4. tls \in Good(tls, got, tls.parsed)
  BY FlatFacts DEF Good
<1>5. t \in Good(tls, got, n \div RecordParts)
  BY <1>1, <1>3, <1>4, FlatFacts, ConsumeGood
<1> HIDE DEF t
<1>6. /\ t \in Engine /\ t.parsed \in tls.parsed .. n \div RecordParts
      /\ ~t.critical => t.parsed = n \div RecordParts
      /\ t.parsed = tls.parsed => t = tls
      /\ Shaken(t) /\ Reads(got, t)
      /\ Whole(wire, tls) => Whole(wire, t)
      /\ NoPage(tls) => NoPage(t)
  BY <1>5, FlatFacts DEF Good
<1>7. t.parsed <= n \div RecordParts /\ (t.parsed > tls.parsed \/ t.parsed = tls.parsed)
  BY <1>2, <1>3, <1>6
<1> QED BY <1>6, <1>7 DEF t

--------------------------------------------------------------------------------
(* The actions: the peer.                                                   *)

(* What the peer adds completes no record that was parsed.                   *)
LEMMA PeerSendsFlat == Flat /\ PeerSends => Flat'
<1> SUFFICES ASSUME Flat, PeerSends PROVE Flat'
  OBVIOUS
<1>1. PICK k \in Kinds : stream' = Append(stream, k)
  BY DEF PeerSends
<1>2. UNCHANGED <<blocking, hungUp, received, tls, wire, broken, at, sending, accepted, got>>
      /\ at # "over"
  BY DEF PeerSends
<1>3. stream \in Seq(Kinds) /\ received \in 0 .. Len(stream) /\ Len(stream) \in Nat
  BY FlatFacts DEF TypeOK
<1>4. /\ stream' \in Seq(Kinds) /\ Len(stream') = Len(stream) + 1
      /\ \A i \in 1 .. Len(stream) : stream'[i] = stream[i]
  BY <1>1, <1>3
<1>5. TypeOK'
  <2>1. received' \in 0 .. Len(stream')
    BY <1>2, <1>3, <1>4
  <2> QED BY <1>2, <1>4, <2>1, FlatFacts DEF TypeOK
<1>6. Input'
  <2>1. ASSUME NEW j \in 1 .. tls'.parsed PROVE Kind(j)' = Kind(j)
    <3>1. received \div RecordParts \in Nat
      BY <1>3, DivLess, PartsAssumption
    <3>2. j \in 1 .. received \div RecordParts
      BY <1>2, <3>1, FlatFacts
    <3>3. j * RecordParts \in 1 .. received
      BY <1>3, <3>2, RecordInside, PartsAssumption
    <3>4. j * RecordParts \in 1 .. Len(stream)
      BY <1>3, <3>3
    <3> QED BY <1>4, <3>4 DEF Kind
  <2> QED BY <1>2, <2>1, FlatFacts, InputNext
<1>7. Pending' /\ OpenOutput' /\ ShutOutput' /\ OverOutput'
  BY <1>2 DEF Flat, Pending, OpenOutput, ShutOutput, OverOutput, Early, Whole, NoPage,
     AllSent, Sent
<1> QED BY <1>2, <1>5, <1>6, <1>7 DEF Flat

LEMMA QuietFlat == Flat /\ UNCHANGED vars => Flat'
<1> SUFFICES ASSUME Flat, UNCHANGED vars PROVE Flat'
  OBVIOUS
<1>1. UNCHANGED <<blocking, stream, hungUp, received, tls, wire, broken, at, sending, accepted, got>>
  BY DEF vars
<1>2. TypeOK'
  BY <1>1, FlatFacts DEF TypeOK
<1>3. Input'
  <2>1. \A j \in 1 .. tls'.parsed : Kind(j)' = Kind(j)
    BY <1>1 DEF Kind
  <2> QED BY <1>1, <2>1, FlatFacts, InputNext
<1>4. Pending' /\ OpenOutput' /\ ShutOutput' /\ OverOutput'
  BY <1>1 DEF Flat, Pending, OpenOutput, ShutOutput, OverOutput, Early, Whole, NoPage,
     AllSent, Sent
<1> QED BY <1>1, <1>2, <1>3, <1>4 DEF Flat

LEMMA PeerHangsUpFlat == Flat /\ PeerHangsUp => Flat'
<1> SUFFICES ASSUME Flat, PeerHangsUp PROVE Flat'
  OBVIOUS
<1>1. UNCHANGED <<blocking, stream, received, tls, wire, broken, at, sending, accepted, got>>
      /\ hungUp' = TRUE
  BY DEF PeerHangsUp
<1>2. TypeOK'
  BY <1>1, FlatFacts DEF TypeOK
<1>3. Input'
  <2>1. \A j \in 1 .. tls'.parsed : Kind(j)' = Kind(j)
    BY <1>1 DEF Kind
  <2> QED BY <1>1, <2>1, FlatFacts, InputNext
<1>4. Pending' /\ OpenOutput' /\ ShutOutput' /\ OverOutput'
  BY <1>1 DEF Flat, Pending, OpenOutput, ShutOutput, OverOutput, Early, Whole, NoPage,
     AllSent, Sent
<1> QED BY <1>1, <1>2, <1>3, <1>4 DEF Flat

--------------------------------------------------------------------------------
(* The actions: SSL_accept and SSL_read.                                    *)
LEMMA AcceptReceivesFlat == Flat /\ AcceptReceives => Flat'
<1> SUFFICES ASSUME Flat, AcceptReceives PROVE Flat'
  OBVIOUS
<1>1. at = "accept" /\ ~sending /\ UNCHANGED <<blocking, stream, hungUp, wire, broken, got>>
  BY DEF AcceptReceives, peerVars
<1>2. PICK n \in received + 1 .. Len(stream) :
         LET t == ConsumeStream(n) IN
         /\ received' = n
         /\ tls' = t
         /\ sending' = (~t.critical /\ t.out # << >>)
         /\ IF sending' THEN UNCHANGED <<at, accepted>> ELSE AfterAcceptStep(t)
  BY DEF AcceptReceives
<1> DEFINE t == ConsumeStream(n)
<1>3. /\ t \in Engine
      /\ t.parsed <= n \div RecordParts
      /\ t.critical \/ t.parsed = n \div RecordParts
      /\ Shaken(t) /\ Reads(got, t)
      /\ Whole(wire, tls) => Whole(wire, t)
      /\ NoPage(tls) => NoPage(t)
  BY Received
<1>4. n \in 0 .. Len(stream)
  BY FlatFacts DEF TypeOK
<1>5. /\ received' = n /\ tls' = t
      /\ sending' = (~t.critical /\ t.out # << >>)
      /\ at' \in {"accept", "read"} /\ (accepted' = "one" \/ accepted' = accepted)
  BY <1>1, <1>2 DEF AfterAcceptStep, AcceptReturns
<1> HIDE DEF t
<1>6. /\ hungUp' \in BOOLEAN /\ broken' \in BOOLEAN /\ sending' \in BOOLEAN
      /\ accepted' \in {"pending", "one", "error"} /\ wire' \in Seq(Nat)
      /\ UNCHANGED <<blocking, stream, got>>
  BY <1>1, <1>5, FlatFacts DEF TypeOK
<1>7. /\ \A i \in 1 .. Len(wire') : wire'[i] = i
      /\ broken' \/ Whole(wire', t)
      /\ NoPage(t)
  BY <1>1, <1>3, FlatFacts
<1>8. ~sending' => t.critical \/ t.out = << >>
  BY <1>5
<1> QED BY <1>1, <1>3, <1>4, <1>5, <1>6, <1>7, <1>8, EarlyStep

(* A call that fails without a receive.                                      *)
LEMMA StillFlat ==
  ASSUME Flat, UNCHANGED <<blocking, stream, hungUp, received, tls, wire, broken, sending, got>>,
         at \in {"accept", "read"}, at' \in {"read", "forbidden"}, ~sending,
         accepted' \in {"pending", "one", "error"}
  PROVE  Flat'
<1>1. /\ hungUp' \in BOOLEAN /\ broken' \in BOOLEAN /\ sending' \in BOOLEAN
      /\ received' \in 0 .. Len(stream) /\ wire' \in Seq(Nat)
  BY FlatFacts DEF TypeOK
<1>2. blocking /\ ~broken => tls.critical \/ tls.out = << >>
  BY DEF Flat, Pending
<1>3. /\ tls \in Engine /\ tls' = tls
      /\ tls.parsed <= received' \div RecordParts
      /\ tls.critical \/ tls.parsed = received' \div RecordParts
      /\ Shaken(tls) /\ Reads(got, tls) /\ NoPage(tls)
      /\ \A i \in 1 .. Len(wire') : wire'[i] = i
      /\ broken' \/ Whole(wire', tls)
  BY FlatFacts
<1> QED BY <1>1, <1>2, <1>3, EarlyStep

LEMMA AcceptFailsFlat == Flat /\ AcceptFails => Flat'
BY StillFlat DEF AcceptFails, AcceptReturns, peerVars

LEMMA ReadFailsFlat == Flat /\ ReadFails => Flat'
BY StillFlat, FlatFacts DEF ReadFails, ReadLoops, peerVars, TypeOK

LEMMA ReadAtOnceFlat == Flat /\ ReadAtOnce => Flat'
<1> SUFFICES ASSUME Flat, ReadAtOnce PROVE Flat'
  OBVIOUS
<1>1. /\ at = "read" /\ ~sending
      /\ UNCHANGED <<blocking, stream, hungUp, received, wire, broken, sending, accepted>>
  BY DEF ReadAtOnce, peerVars
<1>2. CASE tls.app # << >> /\ TakeData(tls) /\ at' = "header"
  <2>1. AfterReadStep(tls)
    BY <1>2 DEF AfterReadStep
  <2>2. /\ hungUp' \in BOOLEAN /\ broken' \in BOOLEAN /\ sending' = FALSE
        /\ received' \in 0 .. Len(stream) /\ wire' \in Seq(Nat)
    BY <1>1, FlatFacts DEF TypeOK
  <2>3. blocking /\ ~broken => tls.critical \/ tls.out = << >>
    BY <1>1 DEF Flat, Pending
  <2>4. /\ tls \in Engine
        /\ tls.parsed <= received' \div RecordParts
        /\ tls.critical \/ tls.parsed = received' \div RecordParts
        /\ Shaken(tls) /\ Reads(got, tls) /\ NoPage(tls)
        /\ \A i \in 1 .. Len(wire') : wire'[i] = i
        /\ broken' \/ Whole(wire', tls)
    BY <1>1, FlatFacts
  <2> QED BY <1>1, <2>1, <2>2, <2>3, <2>4, AfterRead
<1>3. CASE at' = "forbidden" /\ UNCHANGED <<got, tls>>
  BY <1>1, <1>3, StillFlat, FlatFacts DEF TypeOK
<1> QED BY <1>2, <1>3 DEF ReadAtOnce

LEMMA ReadReceivesFlat == Flat /\ ReadReceives => Flat'
<1> SUFFICES ASSUME Flat, ReadReceives PROVE Flat'
  OBVIOUS
<1>1. /\ at = "read" /\ ~sending /\ ~tls.critical
      /\ UNCHANGED <<blocking, stream, hungUp, wire, broken, accepted>>
  BY DEF ReadReceives, ReadLoops, peerVars
<1>2. PICK n \in received + 1 .. Len(stream) :
         LET t == ConsumeStream(n) IN
         /\ received' = n
         /\ sending' = (~t.critical /\ t.parsed > tls.parsed /\ t.out # << >>)
         /\ IF sending' THEN tls' = t /\ UNCHANGED <<at, got>> ELSE AfterReadStep(t)
  BY DEF ReadReceives
<1> DEFINE t == ConsumeStream(n)
<1>3. /\ t \in Engine
      /\ t.parsed <= n \div RecordParts
      /\ t.critical \/ t.parsed = n \div RecordParts
      /\ Shaken(t) /\ Reads(got, t)
      /\ Whole(wire, tls) => Whole(wire, t)
      /\ NoPage(tls) => NoPage(t)
      /\ t.parsed > tls.parsed \/ t = tls
  BY Received
<1>4. n \in 0 .. Len(stream)
  BY FlatFacts DEF TypeOK
<1>5. /\ received' = n
      /\ sending' = (~t.critical /\ t.parsed > tls.parsed /\ t.out # << >>)
      /\ IF sending' THEN tls' = t /\ UNCHANGED <<at, got>> ELSE AfterReadStep(t)
  BY <1>2
<1> HIDE DEF t
<1>6. /\ hungUp' \in BOOLEAN /\ broken' \in BOOLEAN
      /\ accepted' \in {"pending", "one", "error"} /\ wire' \in Seq(Nat)
  BY <1>1, FlatFacts DEF TypeOK
<1>7. /\ \A i \in 1 .. Len(wire') : wire'[i] = i
      /\ broken' \/ Whole(wire', t)
      /\ NoPage(t)
  BY <1>1, <1>3, FlatFacts
<1>8. CASE sending'
  <2>1. tls' = t /\ at' = "read" /\ UNCHANGED <<blocking, stream, got>> /\ sending' \in BOOLEAN
    BY <1>1, <1>5, <1>8
  <2> QED BY <1>1, <1>3, <1>4, <1>5, <1>6, <1>7, <1>8, <2>1, EarlyStep
<1>9. CASE ~sending'
  <2>1. blocking /\ ~broken => tls.out = << >>
    BY <1>1 DEF Flat, Pending
  <2>2. blocking /\ ~broken' => t.critical \/ t.out = << >>
    <3>1. CASE t.parsed > tls.parsed
      BY <1>5, <1>9, <3>1
    <3>2. CASE t = tls
      BY <1>1, <2>1, <3>2
    <3> QED BY <1>3, <3>1, <3>2
  <2>3. AfterReadStep(t) /\ sending' = FALSE
    BY <1>5, <1>9
  <2> QED BY <1>1, <1>3, <1>4, <1>5, <1>6, <1>7, <2>2, <2>3, AfterRead
<1> QED BY <1>8, <1>9

--------------------------------------------------------------------------------
(* The actions: the 403, SSL_write and SSL_shutdown.                        *)

(* The session is to be shut down: what was sent through it is intact.       *)
LEMMA FlatNextShut ==
  ASSUME TypeOK', Input', Pending', at' = "shutdown", ~sending',
         NEW w \in Seq(Nat), wire' = w \/ (wire' = Append(w, Plain) /\ NoPage(tls')),
         \A i \in 1 .. Len(w) : w[i] = i,
         broken' \/ Whole(w, tls')
  PROVE  Flat'
<1>1. Sent' = w /\ (Contains(wire, Plain)' => NoPage(tls'))
  <2>1. CASE wire' = w
    BY <2>1, SentOfNext
  <2>2. CASE wire' = Append(w, Plain) /\ NoPage(tls')
    <3>1. /\ wire' # << >> /\ Last(wire)' = Plain /\ Len(wire') = Len(w) + 1
          /\ SubSeq(wire', 1, Len(wire') - 1) = w
      BY <2>2 DEF Last, Plain
    <3> QED BY <2>2, <3>1 DEF Sent, Front
  <2> QED BY <2>1, <2>2
<1>2. ShutOutput'
  BY <1>1 DEF ShutOutput, Whole, NoPage
<1>3. OpenOutput' /\ OverOutput'
  BY DEF OpenOutput, OverOutput
<1> QED BY <1>2, <1>3 DEF Flat

LEMMA SendForbiddenFlat == Flat /\ SendForbidden => Flat'
<1> SUFFICES ASSUME Flat, SendForbidden PROVE Flat'
  OBVIOUS
<1>1. /\ at = "forbidden" /\ at' = "shutdown"
      /\ UNCHANGED <<blocking, stream, hungUp, received, tls, broken, sending, accepted, got>>
      /\ wire' = Append(wire, Plain) \/ wire' = wire
  BY DEF SendForbidden, peerVars
<1>2. ~sending /\ (blocking /\ ~broken => tls.critical \/ tls.out = << >>) /\ got = << >>
  BY <1>1, FlatFacts DEF Flat, Pending
<1>3. wire' \in Seq(Nat)
  <2>1. wire \in Seq(Nat) /\ Plain \in Nat
    BY FlatFacts DEF Plain
  <2> QED BY <1>1, <2>1
<1>4. TypeOK'
  BY <1>1, <1>3, FlatFacts DEF TypeOK
<1>5. Input'
  <2>1. \A j \in 1 .. tls'.parsed : Kind(j)' = Kind(j)
    BY <1>1 DEF Kind
  <2> QED BY <1>1, <2>1, FlatFacts, InputNext
<1>6. Pending'
  BY <1>1, <1>2 DEF Pending
<1>7. /\ wire \in Seq(Nat) /\ NoPage(tls')
      /\ \A i \in 1 .. Len(wire) : wire[i] = i
      /\ broken' \/ Whole(wire, tls')
  BY <1>1, FlatFacts
<1> QED BY <1>1, <1>2, <1>4, <1>5, <1>6, <1>7, FlatNextShut

LEMMA WriteFlat == Flat /\ Write => Flat'
<1> SUFFICES ASSUME Flat, Write PROVE Flat'
  OBVIOUS
<1>1. /\ at \in {"header", "content"} /\ sending' = TRUE
      /\ UNCHANGED <<blocking, stream, hungUp, received, wire, broken, at, accepted, got>>
      /\ tls' = WritePacket(tls, "page")
  BY DEF Write, peerVars
<1> DEFINE u == WritePacket(tls, "page")
<1>2. /\ u \in Engine
      /\ u.stage = tls.stage /\ u.critical = tls.critical
      /\ u.parsed = tls.parsed /\ u.app = tls.app
      /\ \A w \in Seq(Nat) : Whole(w, tls) => Whole(w, u)
  BY WritePacketGood, FlatFacts
<1>3. tls' = u
  BY <1>1
<1> HIDE DEF u
<1>4. TypeOK'
  BY <1>1, <1>2, <1>3, FlatFacts DEF TypeOK
<1>5. Input'
  <2>1. \A j \in 1 .. tls'.parsed : Kind(j)' = Kind(j)
    BY <1>1 DEF Kind
  <2>2. Shaken(u) /\ Reads(got, u)
    BY <1>2, SameInput, FlatFacts
  <2> QED BY <1>1, <1>2, <1>3, <2>1, <2>2, FlatFacts, InputNext
<1>6. Pending'
  BY <1>1 DEF Pending
<1>7. /\ \A i \in 1 .. Len(wire') : wire'[i] = i
      /\ broken' \/ Whole(wire', tls')
  BY <1>1, <1>2, <1>3, FlatFacts
<1> QED BY <1>1, <1>4, <1>5, <1>6, <1>7, FlatNextOpen

LEMMA ShutdownFlat == Flat /\ Shutdown => Flat'
<1> SUFFICES ASSUME Flat, Shutdown PROVE Flat'
  OBVIOUS
<1>1. /\ at = "shutdown" /\ at' = "over"
      /\ UNCHANGED <<blocking, stream, hungUp, received, wire, broken, sending, accepted, got>>
      /\ tls' = IF tls.critical THEN [tls EXCEPT !.out = << >>]
                ELSE [Fail(WritePacket(tls, "alert")) EXCEPT !.out = << >>]
  BY DEF Shutdown, peerVars
<1>2. /\ tls' \in Engine /\ tls'.stage = tls.stage /\ tls'.critical
      /\ tls'.parsed = tls.parsed /\ tls'.app = tls.app
      /\ tls'.made = tls.made \/ tls'.made = Append(tls.made, "alert")
  <2>0. << >> \in Seq(Nat) /\ tls \in Engine
    BY FlatFacts
  <2>1. CASE tls.critical
    BY <1>1, <2>0, <2>1 DEF Engine
  <2>2. CASE ~tls.critical
    <3> DEFINE u == WritePacket(tls, "alert")
               v == Fail(u)
    <3>1. /\ u \in Engine /\ u.stage = tls.stage
          /\ u.parsed = tls.parsed /\ u.app = tls.app /\ u.made = Append(tls.made, "alert")
      BY <2>0, WritePacketGood
    <3> HIDE DEF u
    <3>2. /\ v \in Engine /\ v.critical /\ v.stage = u.stage /\ v.parsed = u.parsed
          /\ v.app = u.app /\ v.made = u.made
      BY <3>1, FailGood
    <3>3. tls' = [v EXCEPT !.out = << >>]
      BY <1>1, <2>2 DEF u
    <3> HIDE DEF v
    <3> QED BY <2>0, <3>1, <3>2, <3>3 DEF Engine
  <2> QED BY <2>1, <2>2
<1>3. TypeOK' /\ ~sending'
  BY <1>1, <1>2, FlatFacts DEF Flat, TypeOK
<1>4. Input'
  <2>1. \A j \in 1 .. tls'.parsed : Kind(j)' = Kind(j)
    BY <1>1 DEF Kind
  <2>2. Shaken(tls') /\ Reads(got, tls')
    BY <1>2, FlatFacts, Zenon DEF Shaken, Reads
  <2> QED BY <1>1, <1>2, <2>1, <2>2, FlatFacts, InputNext
<1>5. Pending'
  BY <1>1 DEF Pending
<1>6. /\ \A i \in 1 .. Len(Sent) : Sent[i] = i
      /\ broken \/ Whole(Sent, tls)
      /\ Contains(wire, Plain) => NoPage(tls)
  BY <1>1 DEF Flat, ShutOutput
<1>7. /\ tls.made \in Seq({"flight", "alert", "page"})
      /\ \A i \in 1 .. Len(tls'.made) :
           tls'.made[i] = "alert" \/ (i \in 1 .. Len(tls.made) /\ tls'.made[i] = tls.made[i])
  <2>1. tls.made \in Seq({"flight", "alert", "page"})
    BY FlatFacts DEF Engine
  <2>2. CASE tls'.made = tls.made
    BY <2>2, <2>1
  <2>3. CASE tls'.made = Append(tls.made, "alert")
    <3>1. /\ Len(tls'.made) = Len(tls.made) + 1 /\ tls'.made[Len(tls.made) + 1] = "alert"
          /\ \A i \in 1 .. Len(tls.made) : tls'.made[i] = tls.made[i]
          /\ Len(tls.made) \in Nat
      BY <2>1, <2>3
    <3> QED BY <2>1, <3>1
  <2> QED BY <1>2, <2>1, <2>2, <2>3
<1>8. Contains(wire, Plain) => NoPage(tls')
  BY <1>6, <1>7 DEF NoPage
<1>9. ASSUME blocking, ~broken, got # << >> PROVE AllSent(wire, tls')
  <2>1. tls.out = << >> /\ Sent \in Seq(Nat)
    BY <1>1, <1>9, FlatFacts, SentOf DEF Flat, Pending
  <2>2. \A i \in 1 .. Len(tls.made) : \E j \in 1 .. Len(Sent) : Sent[j] = i
    BY <1>6, <1>9, <2>1, FlatFacts, SentAll
  <2>3. \A j \in 1 .. Len(Sent) : j \in 1 .. Len(wire) /\ wire[j] = Sent[j]
    <3>1. Len(wire) \in Nat /\ Len(Sent) \in Nat
      BY <2>1, FlatFacts
    <3> QED BY <3>1, FlatFacts, SentOf
  <2> QED BY <1>7, <2>2, <2>3 DEF AllSent
<1>a. Sent' = Sent /\ (Contains(wire, Plain)' <=> Contains(wire, Plain))
  BY <1>1 DEF Sent, Plain
<1>b. OverOutput'
  BY <1>1, <1>6, <1>8, <1>9, <1>a DEF OverOutput, AllSent, NoPage
<1>c. OpenOutput' /\ ShutOutput'
  BY <1>1 DEF OpenOutput, ShutOutput
<1> QED BY <1>1, <1>3, <1>4, <1>5, <1>b, <1>c DEF Flat

--------------------------------------------------------------------------------
(* The actions: _tls_ssl_private_send_pending.                              *)

(* A piece of a sequence; its first n members, and the rest.                  *)
LEMMA Piece ==
  ASSUME NEW o \in Seq(Nat), NEW m \in Nat \ {0}, NEW k \in Nat, k <= Len(o), m <= k + 1
  PROVE  LET p == SubSeq(o, m, k) IN
         p \in Seq(Nat) /\ Len(p) = k - m + 1 /\ \A i \in 1 .. k - m + 1 : p[i] = o[m + i - 1]
<1> DEFINE p == SubSeq(o, m, k)
<1>1. p \in Seq(Nat)
  BY SMTT(30)
<1>2. Len(p) = k - m + 1
  BY SMTT(30)
<1>3. ASSUME NEW i \in 1 .. k - m + 1 PROVE p[i] = o[m + i - 1]
  BY SMTT(30)
<1> QED BY <1>1, <1>2, <1>3

LEMMA Cut ==
  ASSUME NEW o \in Seq(Nat), NEW n \in Nat, n >= 1, n <= Len(o)
  PROVE  LET head == SubSeq(o, 1, n)
             rest == SubSeq(o, n + 1, Len(o))
         IN  /\ rest \in Seq(Nat) /\ Len(rest) = Len(o) - n
             /\ \A i \in 1 .. Len(o) - n : rest[i] = o[n + i]
             /\ head \in Seq(Nat) /\ Len(head) = n
             /\ \A i \in 1 .. n : head[i] = o[i]
<1> DEFINE head == SubSeq(o, 1, n)
           rest == SubSeq(o, n + 1, Len(o))
<1>1. /\ Len(o) \in Nat /\ 1 \in Nat \ {0} /\ n + 1 \in Nat \ {0}
      /\ 1 <= n + 1 /\ n + 1 <= Len(o) + 1 /\ Len(o) <= Len(o)
  OBVIOUS
<1>2. head \in Seq(Nat) /\ Len(head) = n - 1 + 1 /\ \A i \in 1 .. n - 1 + 1 : head[i] = o[1 + i - 1]
  BY <1>1, Piece
<1>3. /\ rest \in Seq(Nat) /\ Len(rest) = Len(o) - (n + 1) + 1
      /\ \A i \in 1 .. Len(o) - (n + 1) + 1 : rest[i] = o[n + 1 + i - 1]
  BY <1>1, Piece
<1> HIDE DEF head, rest
<1>4. n - 1 + 1 = n /\ Len(o) - (n + 1) + 1 = Len(o) - n
  BY <1>1
<1>5. ASSUME NEW i \in 1 .. n PROVE 1 + i - 1 = i
  OBVIOUS
<1>6. ASSUME NEW i \in 1 .. Len(o) - n PROVE n + 1 + i - 1 = n + i
  BY <1>1
<1>7. /\ head \in Seq(Nat) /\ Len(head) = n
      /\ \A i \in 1 .. n : head[i] = o[i]
  <2>1. \A i \in 1 .. n : head[i] = o[1 + i - 1]
    BY <1>2, <1>4, Zenon
  <2> QED BY <1>2, <1>4, <1>5, <2>1, Zenon
<1>8. /\ rest \in Seq(Nat) /\ Len(rest) = Len(o) - n
      /\ \A i \in 1 .. Len(o) - n : rest[i] = o[n + i]
  <2>1. \A i \in 1 .. Len(o) - n : rest[i] = o[n + 1 + i - 1]
    BY <1>3, <1>4, Zenon
  <2> QED BY <1>3, <1>4, <1>6, <2>1, Zenon
<1> QED BY <1>7, <1>8, Zenon DEF head, rest

(* What is sent leaves what is pending: Whole does not change.               *)
LEMMA SendKeepsWhole ==
  ASSUME NEW t \in Engine, NEW w \in Seq(Nat), Whole(w, t), NEW n \in 1 .. Len(t.out)
  PROVE  LET rest == SubSeq(t.out, n + 1, Len(t.out))
             u    == [t EXCEPT !.out = rest]
             sent == w \o SubSeq(t.out, 1, n)
         IN  /\ rest \in Seq(Nat) /\ u \in Engine /\ sent \in Seq(Nat)
             /\ Whole(sent, u)
<1> DEFINE head == SubSeq(t.out, 1, n)
           rest == SubSeq(t.out, n + 1, Len(t.out))
           u    == [t EXCEPT !.out = rest]
           sent == w \o head
<1>1. t.out \in Seq(Nat) /\ Len(t.out) \in Nat /\ n \in Nat /\ n >= 1 /\ n <= Len(t.out)
  BY DEF Engine
<1>2. /\ rest \in Seq(Nat) /\ Len(rest) = Len(t.out) - n
      /\ \A i \in 1 .. Len(t.out) - n : rest[i] = t.out[n + i]
      /\ head \in Seq(Nat) /\ Len(head) = n
      /\ \A i \in 1 .. n : head[i] = t.out[i]
  BY <1>1, Cut
<1>3. u \in Engine /\ u.out = rest /\ u.made = t.made
  BY <1>2 DEF Engine
<1>4. /\ sent \in Seq(Nat) /\ Len(sent) = Len(w) + n /\ Len(w) \in Nat
      /\ \A i \in 1 .. Len(w) : sent[i] = w[i]
      /\ \A i \in 1 .. n : sent[Len(w) + i] = head[i]
  <2> HIDE DEF head
  <2>1. head \in Seq(Nat) /\ Len(head) = n
    BY <1>2
  <2>2. sent \in Seq(Nat) /\ Len(sent) = Len(w) + Len(head) /\ Len(w) \in Nat
    BY <2>1
  <2>3. \A i \in 1 .. Len(w) : sent[i] = w[i]
    BY <2>1
  <2>4. \A i \in 1 .. Len(head) : sent[Len(w) + i] = head[i]
    BY <2>1, <2>2
  <2> QED BY <2>1, <2>2, <2>3, <2>4
<1> HIDE DEF head, rest, sent, u
<1>5. Len(sent) + Len(u.out) = Len(u.made)
  <2>1. Len(w) + Len(t.out) = Len(t.made)
    BY DEF Whole
  <2>2. (Len(w) + n) + (Len(t.out) - n) = Len(w) + Len(t.out)
    <3>1. Len(w) \in Nat /\ n \in Nat /\ Len(t.out) \in Nat
      BY <1>1, <1>4
    <3>2. \A a, b, c \in Nat : (a + c) + (b - c) = a + b
      OBVIOUS
    <3> QED BY <3>1, <3>2, Zenon
  <2> QED BY <1>2, <1>3, <1>4, <2>1, <2>2
<1>6. ASSUME NEW i \in 1 .. Len(sent) PROVE sent[i] = i
  <2>1. CASE i \in 1 .. Len(w)
    BY <1>4, <2>1 DEF Whole
  <2>2. CASE i \notin 1 .. Len(w)
    <3>1. i - Len(w) \in 1 .. n /\ Len(w) + (i - Len(w)) = i /\ i - Len(w) \in 1 .. Len(t.out)
      BY <1>1, <1>4, <2>2
    <3>2. sent[i] = t.out[i - Len(w)]
      BY <1>2, <1>4, <3>1
    <3>3. t.out[i - Len(w)] = Len(w) + (i - Len(w))
      BY <3>1 DEF Whole
    <3> QED BY <3>1, <3>2, <3>3
  <2> QED BY <2>1, <2>2
<1>7. ASSUME NEW i \in 1 .. Len(u.out) PROVE u.out[i] = Len(sent) + i
  <2>1. i \in 1 .. Len(t.out) - n
    BY <1>2, <1>3
  <2>2. n + i \in 1 .. Len(t.out) /\ Len(w) + (n + i) = (Len(w) + n) + i
    BY <1>1, <1>4, <2>1
  <2>3. u.out[i] = t.out[n + i]
    BY <1>2, <1>3, <2>1
  <2>4. t.out[n + i] = Len(w) + (n + i)
    BY <2>2 DEF Whole
  <2> QED BY <1>4, <2>2, <2>3, <2>4
<1>8. Whole(sent, u)
  BY <1>5, <1>6, <1>7 DEF Whole
<1> QED BY <1>2, <1>3, <1>4, <1>8 DEF rest, u, sent, head

(* The end of a send, with out kept unsent.                                  *)
LEMMA SendReturnsFlat ==
  ASSUME Flat, sending, NEW ok \in BOOLEAN, NEW out \in Seq(Nat), SendReturns(ok, out),
         UNCHANGED <<blocking, stream, hungUp, received>>,
         broken' \in BOOLEAN, wire' \in Seq(Nat),
         \A i \in 1 .. Len(wire') : wire'[i] = i,
         broken' \/ Whole(wire', [tls EXCEPT !.out = out]),
         blocking /\ ~broken' => out = << >>
  PROVE  Flat'
<1> DEFINE t == [tls EXCEPT !.out = out]
<1>1. /\ t \in Engine /\ t.stage = tls.stage /\ t.critical = tls.critical
      /\ t.parsed = tls.parsed /\ t.app = tls.app /\ t.out = out /\ t.made = tls.made
  BY FlatFacts DEF Engine
<1>2. /\ sending' = FALSE
      /\ \/ /\ at = "accept" /\ tls' = t /\ UNCHANGED got
            /\ IF ok THEN AfterAcceptStep(t) ELSE AcceptReturns("error")
         \/ at = "read" /\ AfterReadStep(t) /\ UNCHANGED accepted
         \/ at \in {"header", "content"} /\ tls' = t /\ at' = NextWrite
              /\ UNCHANGED <<accepted, got>>
  BY DEF SendReturns
<1>3. broken' \/ Whole(wire', t)
  OBVIOUS
<1> HIDE DEF t
<1>4. /\ hungUp' \in BOOLEAN /\ sending' \in BOOLEAN
      /\ received' \in 0 .. Len(stream)
      /\ t.parsed <= received' \div RecordParts
      /\ t.critical \/ t.parsed = received' \div RecordParts
  BY <1>1, <1>2, FlatFacts DEF TypeOK
<1>5. Shaken(t) /\ Reads(got, t)
  BY <1>1, SameInput, FlatFacts
<1>6. at \in {"accept", "read"} => NoPage(t)
  BY <1>1, FlatFacts DEF NoPage
<1>7. CASE /\ at = "accept" /\ tls' = t /\ UNCHANGED got
           /\ IF ok THEN AfterAcceptStep(t) ELSE AcceptReturns("error")
  <2>1. at' \in {"accept", "read"} /\ accepted' \in {"pending", "one", "error"}
    BY <1>7, FlatFacts DEF AfterAcceptStep, AcceptReturns, TypeOK
  <2> QED BY <1>1, <1>2, <1>3, <1>4, <1>5, <1>6, <1>7, <2>1, EarlyStep
<1>8. CASE at = "read" /\ AfterReadStep(t) /\ UNCHANGED accepted
  BY <1>1, <1>2, <1>3, <1>4, <1>5, <1>6, <1>8, AfterRead
<1>9. CASE /\ at \in {"header", "content"} /\ tls' = t /\ at' = NextWrite
           /\ UNCHANGED <<accepted, got>>
  <2>1. at' \in {"content", "shutdown"}
    BY <1>9 DEF NextWrite
  <2>2. TypeOK'
    BY <1>1, <1>4, <1>9, <2>1, FlatFacts DEF TypeOK
  <2>3. Input'
    <3>1. \A j \in 1 .. tls'.parsed : Kind(j)' = Kind(j)
      BY DEF Kind
    <3> QED BY <1>1, <1>4, <1>5, <1>9, <3>1, FlatFacts, InputNext
  <2>4. Pending'
    BY <1>1, <1>9, <2>1 DEF Pending
  <2>5. CASE at' = "content"
    BY <1>2, <1>3, <1>9, <2>2, <2>3, <2>4, <2>5, FlatNextOpen
  <2>6. CASE at' = "shutdown"
    <3> DEFINE w == wire'
    <3>1. w \in Seq(Nat) /\ wire' = w /\ (\A i \in 1 .. Len(w) : w[i] = i)
          /\ (broken' \/ Whole(w, tls'))
      BY <1>3, <1>9
    <3> HIDE DEF w
    <3> QED BY <1>2, <2>2, <2>3, <2>4, <2>6, <3>1, FlatNextShut
  <2> QED BY <2>1, <2>5, <2>6
<1> QED BY <1>2, <1>7, <1>8, <1>9

LEMMA SendSomeFlat == Flat /\ SendSome => Flat'
<1> SUFFICES ASSUME Flat, SendSome PROVE Flat'
  OBVIOUS
<1>1. sending /\ ~broken /\ UNCHANGED <<blocking, stream, hungUp, received, broken>>
  BY DEF SendSome, peerVars
<1>2. PICK n \in 1 .. Len(tls.out) :
         LET rest == SubSeq(tls.out, n + 1, Len(tls.out)) IN
         /\ wire' = wire \o SubSeq(tls.out, 1, n)
         /\ IF rest = << >> THEN SendReturns(TRUE, << >>)
            ELSE /\ tls' = [tls EXCEPT !.out = rest]
                 /\ UNCHANGED <<at, sending, accepted, got>>
  BY DEF SendSome
<1> DEFINE rest == SubSeq(tls.out, n + 1, Len(tls.out))
           u    == [tls EXCEPT !.out = rest]
<1>3. at \in {"accept", "read", "header", "content"}
  BY <1>1 DEF Flat
<1>4. rest \in Seq(Nat) /\ u \in Engine /\ wire' \in Seq(Nat) /\ Whole(wire', u)
  BY <1>1, <1>2, <1>3, FlatFacts, SendKeepsWhole
<1>5. IF rest = << >> THEN SendReturns(TRUE, << >>)
      ELSE /\ tls' = u
           /\ UNCHANGED <<at, sending, accepted, got>>
  BY <1>2
<1>6. /\ u.stage = tls.stage /\ u.critical = tls.critical
      /\ u.parsed = tls.parsed /\ u.app = tls.app /\ u.made = tls.made
  BY FlatFacts DEF Engine
<1> HIDE DEF rest
<1>7. \A i \in 1 .. Len(wire') : wire'[i] = i
  BY <1>4 DEF Whole
<1>8. CASE rest = << >>
  <2>1. SendReturns(TRUE, << >>) /\ u = [tls EXCEPT !.out = << >>]
    BY <1>5, <1>8, Zenon
  <2> HIDE DEF u
  <2>2. Whole(wire', [tls EXCEPT !.out = << >>])
    BY <1>4, <2>1
  <2>3. << >> \in Seq(Nat) /\ broken' \in BOOLEAN
    BY <1>1, FlatFacts DEF TypeOK
  <2> QED BY <1>1, <1>4, <1>7, <2>1, <2>2, <2>3, SendReturnsFlat
<1> HIDE DEF u
<1>9. CASE rest # << >>
  <2>1. tls' = u /\ UNCHANGED <<at, sending, accepted, got>>
    BY <1>5, <1>9
  <2>2. TypeOK'
    BY <1>1, <1>4, <2>1, FlatFacts DEF TypeOK
  <2>3. Input'
    <3>1. \A j \in 1 .. tls'.parsed : Kind(j)' = Kind(j)
      BY <1>1 DEF Kind
    <3>2. Shaken(u) /\ Reads(got, u)
      BY <1>6, SameInput, FlatFacts
    <3> QED BY <1>1, <1>6, <2>1, <3>1, <3>2, FlatFacts, InputNext
  <2>4. Pending'
    BY <1>1, <1>3, <2>1 DEF Pending
  <2>5. at' \in {"accept", "read", "forbidden"} => got' = << >> /\ NoPage(tls')
    BY <1>6, <2>1, FlatFacts DEF NoPage
  <2> QED BY <1>1, <1>3, <1>4, <1>7, <2>1, <2>2, <2>3, <2>4, <2>5, FlatNextOpen
<1> QED BY <1>8, <1>9

(* Nothing is pending any more but on a connection that is broken, or on a    *)
(* socket that does not block.                                               *)
LEMMA SendBlocksFlat == Flat /\ SendBlocks => Flat'
<1> SUFFICES ASSUME Flat, SendBlocks PROVE Flat'
  OBVIOUS
<1>1. /\ sending /\ ~broken /\ ~blocking /\ SendReturns(FALSE, tls.out)
      /\ UNCHANGED <<blocking, stream, hungUp, received, wire, broken>>
  BY DEF SendBlocks, peerVars
<1>2. at \in {"accept", "read", "header", "content"}
  BY <1>1 DEF Flat
<1>3. [tls EXCEPT !.out = tls.out] = tls
  BY FlatFacts DEF Engine
<1>4. /\ tls.out \in Seq(Nat) /\ broken' \in BOOLEAN /\ wire' \in Seq(Nat)
      /\ \A i \in 1 .. Len(wire') : wire'[i] = i
      /\ broken' \/ Whole(wire', [tls EXCEPT !.out = tls.out])
  <2>1. /\ tls.out \in Seq(Nat) /\ broken' \in BOOLEAN /\ wire' \in Seq(Nat)
        /\ \A i \in 1 .. Len(wire') : wire'[i] = i
        /\ Whole(wire, tls) /\ wire' = wire
    BY <1>1, <1>2, FlatFacts DEF TypeOK
  <2>2. Whole(wire', [tls EXCEPT !.out = tls.out])
    BY <1>3, <2>1, Zenon
  <2> QED BY <2>1, <2>2
<1> QED BY <1>1, <1>4, SendReturnsFlat

LEMMA SendBreaksFlat == Flat /\ SendBreaks => Flat'
<1> SUFFICES ASSUME Flat, SendBreaks PROVE Flat'
  OBVIOUS
<1>1. /\ sending /\ broken' = TRUE /\ SendReturns(FALSE, << >>)
      /\ UNCHANGED <<blocking, stream, hungUp, received, wire>>
  BY DEF SendBreaks, peerVars
<1>2. at \in {"accept", "read", "header", "content"}
  BY <1>1 DEF Flat
<1>3. /\ << >> \in Seq(Nat) /\ broken' \in BOOLEAN /\ wire' \in Seq(Nat)
      /\ \A i \in 1 .. Len(wire') : wire'[i] = i
  BY <1>1, <1>2, FlatFacts
<1> QED BY <1>1, <1>3, SendReturnsFlat

--------------------------------------------------------------------------------
LEMMA InitFlat == Init => TlsInv
<1> SUFFICES ASSUME Init PROVE TlsInv
  OBVIOUS
<1>1. /\ blocking \in BOOLEAN /\ stream = << >> /\ hungUp = FALSE /\ received = 0
      /\ tls = [stage |-> "start", critical |-> FALSE, parsed |-> 0, app |-> << >>,
                out |-> << >>, made |-> << >>]
      /\ wire = << >> /\ broken = FALSE /\ at = "accept" /\ sending = FALSE
      /\ accepted = "pending" /\ got = << >>
  BY DEF Init
<1>2. /\ << >> \in Seq(Nat) /\ << >> \in Seq(Kinds) /\ << >> \in Seq({"flight", "alert", "page"})
      /\ Len(<< >>) = 0 /\ 1 .. 0 = {}
  OBVIOUS
<1>3. tls \in Engine
  BY <1>1, <1>2 DEF Engine
<1>4. TypeOK
  <2>1. received \in 0 .. Len(stream)
    BY <1>1, <1>2
  <2>2. stream \in Seq(Kinds) /\ wire \in Seq(Nat) /\ got \in Seq(Nat)
    BY <1>1, <1>2, Zenon
  <2> QED BY <1>1, <1>3, <2>1, <2>2 DEF TypeOK
<1>5. 0 \div RecordParts = 0
  BY PartsAssumption, Z3
<1>6. Input
  <2>1. Shaken(tls)
    BY <1>1 DEF Shaken
  <2>2. Reads(got, tls)
    <3>1. got \o tls.app = << >> /\ tls.parsed = 0
      BY <1>1
    <3>2. DataTo(0) = {}
      BY <1>2 DEF DataTo
    <3> QED BY <1>2, <3>1, <3>2 DEF Reads, Increasing
  <2> QED BY <1>1, <1>5, <2>1, <2>2 DEF Input
<1>7. OpenOutput
  BY <1>1, <1>2 DEF OpenOutput, Whole, NoPage
<1>8. ShutOutput /\ OverOutput /\ Pending
  BY <1>1 DEF ShutOutput, OverOutput, Pending
<1> QED BY <1>1, <1>4, <1>6, <1>7, <1>8, FlatInv DEF Flat

LEMMA NextTlsInv == TlsInv /\ [Next]_vars => TlsInv'
<1> SUFFICES ASSUME TlsInv, [Next]_vars PROVE Flat'
  BY FlatInvNext
<1>1. Flat
  BY InvFlat
<1>2. CASE Peer
  BY <1>1, <1>2, PeerSendsFlat, PeerHangsUpFlat DEF Peer
<1>3. CASE Server
  BY <1>1, <1>3, AcceptReceivesFlat, AcceptFailsFlat, ReadAtOnceFlat, ReadReceivesFlat,
     ReadFailsFlat, SendForbiddenFlat, WriteFlat, ShutdownFlat,
     SendSomeFlat, SendBlocksFlat, SendBreaksFlat DEF Server
<1>4. CASE UNCHANGED vars
  BY <1>1, <1>4, QuietFlat
<1> QED BY <1>2, <1>3, <1>4 DEF Next

(* The whole of it: whatever records the peer sends, however recv and send    *)
(* cut the streams, and wherever the connection ends.                        *)
THEOREM TlsInductive == Spec => []TlsInv
BY InitFlat, NextTlsInv, PTL DEF Spec

(* send_pending and tls_write_packet: what is on the wire, followed by what   *)
(* is pending, is what the engine wrote, each unit once and in order; the    *)
(* 403 in clear never stands beside a page.                                  *)
THEOREM StreamSound == Spec => []StreamIntact
<1>1. TlsInv => StreamIntact
  BY DEF TlsInv
<1> QED BY <1>1, TlsInductive, PTL

(* tls_consume_stream, SSL_accept and SSL_read: a record is parsed as soon as *)
(* its last piece is there, and the data that follows a handshake is read,    *)
(* all of it and in order.                                                   *)
THEOREM ReadsSound == Spec => []ReadsWhatWasSent
<1>1. TlsInv => ReadsWhatWasSent
  BY DEF TlsInv
<1> QED BY <1>1, TlsInductive, PTL

(* SSL_write, SSL_shutdown and SSL_free: on a blocking socket that does not   *)
(* break only alerts are lost with the session.                              *)
THEOREM LossOfAlerts == Spec => []OnlyAlertsLost
<1>1. TlsInv => OnlyAlertsLost
  BY DEF TlsInv
<1> QED BY <1>1, TlsInductive, PTL
================================================================================
