--------------------------- MODULE GameInputProofs ---------------------------
(***************************************************************************)
(* Proofs about the keyboard's ring of scancodes, and about the way of a   *)
(* scancode through it to the game: for every size of the two rings, every *)
(* set of scancodes and every bound.                                       *)
(***************************************************************************)
EXTENDS GameInput, TLAPS, SequenceTheorems, WellFoundedInduction

USE EventsAssumption

-----------------------------------------------------------------------------
(* The events of a sequence of scancodes.                                  *)

LEMMA SeqWidens ==
    ASSUME NEW S, NEW T, S \subseteq T, NEW q \in Seq(S)
    PROVE  q \in Seq(T)
OBVIOUS

LEMMA FirstExists ==
    ASSUME NEW S \in SUBSET Nat, S # {}
    PROVE  \E n \in S : \A m \in S : n <= m
<1>1. \E n \in S : \A m \in S : ~(<<m, n>> \in OpToRel(<, Nat))
  BY NatLessThanWellFounded, WFMin
<1>2. PICK n \in S : \A m \in S : ~(<<m, n>> \in OpToRel(<, Nat))
  BY <1>1
<1>3. \A m \in S : ~(m < n)
  BY <1>2 DEF OpToRel
<1> QED
  BY <1>3

Codes == 0 .. NoCode
Event == {EventOf(c) : c \in Codes} \cup {NoEvent}

\* f lists the events of the first scancodes of codes, for each number of them.
Lists(f, codes) ==
    f = [n \in 0 .. Len(codes) |-> IF n = 0 THEN <<>> ELSE WithEvent(f[n - 1], codes[n])]

LEMMA ListExists ==
    ASSUME NEW codes \in Seq(Codes)
    PROVE  \E f : Lists(f, codes)
<1> DEFINE G(n, f) == IF n = 0 THEN <<>> ELSE WithEvent(f[n - 1], codes[n])
           Upto(m) == \E f : f = [n \in 0 .. m |-> G(n, f)]
           Bad == {m \in Nat : ~Upto(m)}
<1>1. CASE Bad = {}
  <2>1. Len(codes) \in Nat
    OBVIOUS
  <2> QED
    BY <1>1, <2>1 DEF Lists
<1>2. CASE Bad # {}
  <2>1. PICK m \in Bad : \A j \in Bad : m <= j
    <3>1. Bad \in SUBSET Nat
      OBVIOUS
    <3> HIDE DEF Bad
    <3> QED
      BY <1>2, <3>1, FirstExists
  <2>2. m # 0
    <3> DEFINE f == [n \in 0 .. 0 |-> <<>>]
    <3>1. f = [n \in 0 .. 0 |-> G(n, f)]
      OBVIOUS
    <3> QED
      BY <2>1, <3>1
  <2>3. m - 1 \in Nat /\ m \in Nat /\ Upto(m - 1)
    <3>1. m \in Nat
      BY <2>1
    <3>2. m - 1 \in Nat /\ ~(m <= m - 1)
      BY <2>2, <3>1
    <3>3. m - 1 \notin Bad
      BY <2>1, <3>2
    <3> QED
      BY <3>1, <3>2, <3>3
  <2>4. PICK f : f = [n \in 0 .. m - 1 |-> G(n, f)]
    BY <2>3
  <2> DEFINE e == [n \in 0 .. m |-> IF n = m THEN G(m, f) ELSE f[n]]
  <2>5. /\ e[m] = G(m, f) /\ \A n \in 0 .. m - 1 : e[n] = f[n]
        /\ e = [n \in 0 .. m |-> e[n]]
    BY <2>3
  <2>6. \A n \in 0 .. m - 1 : f[n] = G(n, f)
    BY <2>4
  <2> HIDE DEF e
  <2>7. ASSUME NEW n \in 0 .. m PROVE e[n] = G(n, e)
    <3>1. n # 0 => n - 1 \in 0 .. m - 1 /\ e[n - 1] = f[n - 1]
      BY <2>3, <2>5
    <3>2. G(n, e) = G(n, f)
      BY <3>1
    <3>3. n = m \/ n \in 0 .. m - 1
      BY <2>3
    <3>4. e[n] = G(n, f)
      BY <2>5, <2>6, <3>3
    <3> QED
      BY <3>2, <3>4
  <2>8. e = [n \in 0 .. m |-> G(n, e)]
    BY <2>5, <2>7
  <2> QED
    BY <2>1, <2>8
<1> QED
  BY <1>1, <1>2

LEMMA ListOfEvents ==
    ASSUME NEW codes \in Seq(Codes)
    PROVE  \E f : Lists(f, codes) /\ EventsOf(codes) = f[Len(codes)]
BY ListExists DEF EventsOf, Lists

LEMMA ListStep ==
    ASSUME NEW codes \in Seq(Codes), NEW f, Lists(f, codes)
    PROVE  /\ f[0] = <<>>
           /\ \A n \in 0 .. Len(codes) : n # 0 => n - 1 \in 0 .. Len(codes) /\ f[n] = WithEvent(f[n - 1], codes[n])
<1>1. Len(codes) \in Nat
  OBVIOUS
<1>2. \A n \in 0 .. Len(codes) : f[n] = IF n = 0 THEN <<>> ELSE WithEvent(f[n - 1], codes[n])
  BY DEF Lists
<1> QED
  BY <1>1, <1>2

\* One more scancode adds its event to those before it, if it has one.
LEMMA OneMoreCode ==
    ASSUME NEW codes \in Seq(Codes), NEW c \in Codes
    PROVE  EventsOf(Append(codes, c)) = WithEvent(EventsOf(codes), c)
<1> DEFINE longer == Append(codes, c)
           L == Len(codes)
<1>1. /\ L \in Nat /\ longer \in Seq(Codes) /\ Len(longer) = L + 1
      /\ longer[L + 1] = c /\ \A n \in 1 .. L : longer[n] = codes[n]
  OBVIOUS
<1> HIDE DEF longer
<1>2. PICK f : Lists(f, codes) /\ EventsOf(codes) = f[L]
  BY ListOfEvents
<1>3. PICK g : Lists(g, longer) /\ EventsOf(longer) = g[L + 1]
  BY <1>1, ListOfEvents
<1>4. /\ f[0] = <<>>
      /\ \A n \in 0 .. L : n # 0 => f[n] = WithEvent(f[n - 1], codes[n])
  BY <1>2, ListStep
<1>5. /\ g[0] = <<>>
      /\ \A n \in 0 .. L + 1 : n # 0 => g[n] = WithEvent(g[n - 1], longer[n])
  BY <1>1, <1>3, ListStep
<1>6. \A n \in 0 .. L : g[n] = f[n]
  <2> DEFINE Bad == {n \in 0 .. L : g[n] # f[n]}
  <2> SUFFICES ASSUME Bad # {} PROVE FALSE
    OBVIOUS
  <2>1. PICK n \in Bad : \A m \in Bad : n <= m
    <3>1. Bad \in SUBSET Nat
      BY <1>1
    <3> HIDE DEF Bad
    <3> QED
      BY <3>1, FirstExists
  <2>2. n # 0
    BY <1>4, <1>5, <2>1
  <2>3. n - 1 \in 0 .. L /\ n - 1 \notin Bad /\ n \in 1 .. L
    BY <1>1, <2>1, <2>2
  <2>4. g[n] = WithEvent(g[n - 1], longer[n]) /\ f[n] = WithEvent(f[n - 1], codes[n])
    BY <1>1, <1>4, <1>5, <2>3
  <2> QED
    BY <1>1, <2>1, <2>3, <2>4
<1>7. g[L + 1] = WithEvent(g[L], c)
  BY <1>1, <1>5
<1> QED
  BY <1>1, <1>2, <1>3, <1>6, <1>7 DEF longer

LEMMA NoCodes == EventsOf(<<>>) = <<>>
<1>1. <<>> \in Seq(Codes) /\ Len(<<>>) = 0
  OBVIOUS
<1>2. PICK f : Lists(f, <<>>) /\ EventsOf(<<>>) = f[0]
  BY <1>1, ListOfEvents
<1> QED
  BY <1>1, <1>2, ListStep

LEMMA EventsAreEvents ==
    ASSUME NEW codes \in Seq(Codes)
    PROVE  EventsOf(codes) \in Seq(Event)
<1>1. PICK f : Lists(f, codes) /\ EventsOf(codes) = f[Len(codes)]
  BY ListOfEvents
<1>2. Len(codes) \in Nat
  OBVIOUS
<1>3. \A n \in 0 .. Len(codes) : f[n] \in Seq(Event)
  <2> DEFINE Bad == {n \in 0 .. Len(codes) : f[n] \notin Seq(Event)}
  <2> SUFFICES ASSUME Bad # {} PROVE FALSE
    OBVIOUS
  <2>1. PICK n \in Bad : \A m \in Bad : n <= m
    <3>1. Bad \in SUBSET Nat
      BY <1>2
    <3> HIDE DEF Bad
    <3> QED
      BY <3>1, FirstExists
  <2>2. n # 0 /\ n \in Nat
    <3>1. f[0] \in Seq(Event)
      <4>1. <<>> \in Seq(Event)
        OBVIOUS
      <4> QED
        BY <1>1, <4>1, ListStep
    <3>2. n \in Nat /\ f[n] \notin Seq(Event)
      BY <1>2, <2>1
    <3> QED
      BY <3>1, <3>2
  <2>3. n - 1 \in 0 .. Len(codes) /\ f[n - 1] \in Seq(Event) /\ codes[n] \in Codes
    BY <1>2, <2>1, <2>2
  <2>4. f[n] = WithEvent(f[n - 1], codes[n])
    BY <1>1, <2>1, <2>2, ListStep
  <2>5. EventOf(codes[n]) \in Event
    BY <2>3 DEF Event
  <2>6. Append(f[n - 1], EventOf(codes[n])) \in Seq(Event)
    BY <2>3, <2>5
  <2> QED
    BY <2>1, <2>3, <2>4, <2>6 DEF WithEvent
<1> QED
  BY <1>1, <1>2, <1>3

\* The last of the scancodes for a key of the game pressed it.
Pressed(codes, key) ==
    \E p \in 1 .. Len(codes) :
        /\ ~Released(codes[p]) /\ EventOf(codes[p]).key = key
        /\ \A q \in p + 1 .. Len(codes) : EventOf(codes[q]).key # key

\* The same of the events.
Down(evs, key) ==
    \E p \in 1 .. Len(evs) :
        /\ evs[p].type = "keydown" /\ evs[p].key = key
        /\ \A q \in p + 1 .. Len(evs) : evs[q].key # key

LEMMA DownAfter ==
    ASSUME NEW evs \in Seq(Event), NEW ev \in Event, NEW key
    PROVE  Down(Append(evs, ev), key) <=>
              IF ev.key = key THEN ev.type = "keydown" ELSE Down(evs, key)
<1> DEFINE L == Len(evs)
           more == Append(evs, ev)
<1>1. /\ L \in Nat /\ Len(more) = L + 1 /\ more[L + 1] = ev
      /\ \A n \in 1 .. L : more[n] = evs[n]
  OBVIOUS
<1> HIDE DEF more
<1>2. ASSUME ev.key = key, ev.type = "keydown" PROVE Down(more, key)
  BY <1>1, <1>2 DEF Down
<1>3. ASSUME ev.key = key, Down(more, key) PROVE ev.type = "keydown"
  <2>1. PICK p \in 1 .. L + 1 : /\ more[p].type = "keydown"
                               /\ \A q \in p + 1 .. L + 1 : more[q].key # key
    BY <1>1, <1>3 DEF Down
  <2>2. p = L + 1
    <3> SUFFICES ASSUME p # L + 1 PROVE FALSE
      OBVIOUS
    <3>1. L + 1 \in p + 1 .. L + 1
      BY <1>1
    <3> QED
      BY <1>1, <1>3, <2>1, <3>1
  <2> QED
    BY <1>1, <2>1, <2>2
<1>4. ASSUME ev.key # key, Down(evs, key) PROVE Down(more, key)
  <2>1. PICK p \in 1 .. L : /\ evs[p].type = "keydown" /\ evs[p].key = key
                           /\ \A q \in p + 1 .. L : evs[q].key # key
    BY <1>4 DEF Down
  <2>2. p \in 1 .. L + 1 /\ more[p] = evs[p]
    BY <1>1
  <2>3. \A q \in p + 1 .. L + 1 : more[q].key # key
    <3> TAKE q \in p + 1 .. L + 1
    <3>1. q = L + 1 \/ (q \in p + 1 .. L /\ q \in 1 .. L)
      BY <1>1
    <3> QED
      BY <1>1, <1>4, <2>1, <3>1
  <2> QED
    BY <1>1, <2>1, <2>2, <2>3 DEF Down
<1>5. ASSUME ev.key # key, Down(more, key) PROVE Down(evs, key)
  <2>1. PICK p \in 1 .. L + 1 : /\ more[p].type = "keydown" /\ more[p].key = key
                               /\ \A q \in p + 1 .. L + 1 : more[q].key # key
    BY <1>1, <1>5 DEF Down
  <2>2. p \in 1 .. L /\ more[p] = evs[p]
    BY <1>1, <1>5, <2>1
  <2>3. \A q \in p + 1 .. L : evs[q].key # key
    <3> TAKE q \in p + 1 .. L
    <3>1. q \in p + 1 .. L + 1 /\ q \in 1 .. L
      BY <1>1
    <3> QED
      BY <1>1, <2>1, <3>1
  <2> QED
    BY <2>1, <2>2, <2>3 DEF Down
<1> QED
  BY <1>2, <1>3, <1>4, <1>5 DEF more

LEMMA PressedAfter ==
    ASSUME NEW codes \in Seq(Codes), NEW c \in Codes, NEW key
    PROVE  Pressed(Append(codes, c), key) <=>
              IF EventOf(c).key = key THEN ~Released(c) ELSE Pressed(codes, key)
<1> DEFINE L == Len(codes)
           more == Append(codes, c)
<1>1. /\ L \in Nat /\ Len(more) = L + 1 /\ more[L + 1] = c
      /\ \A n \in 1 .. L : more[n] = codes[n]
  OBVIOUS
<1> HIDE DEF more
<1>2. ASSUME EventOf(c).key = key, ~Released(c) PROVE Pressed(more, key)
  BY <1>1, <1>2 DEF Pressed
<1>3. ASSUME EventOf(c).key = key, Pressed(more, key) PROVE ~Released(c)
  <2>1. PICK p \in 1 .. L + 1 : /\ ~Released(more[p])
                               /\ \A q \in p + 1 .. L + 1 : EventOf(more[q]).key # key
    BY <1>1, <1>3 DEF Pressed
  <2>2. p = L + 1
    <3> SUFFICES ASSUME p # L + 1 PROVE FALSE
      OBVIOUS
    <3>1. L + 1 \in p + 1 .. L + 1
      BY <1>1
    <3> QED
      BY <1>1, <1>3, <2>1, <3>1
  <2> QED
    BY <1>1, <2>1, <2>2
<1>4. ASSUME EventOf(c).key # key, Pressed(codes, key) PROVE Pressed(more, key)
  <2>1. PICK p \in 1 .. L : /\ ~Released(codes[p]) /\ EventOf(codes[p]).key = key
                           /\ \A q \in p + 1 .. L : EventOf(codes[q]).key # key
    BY <1>4 DEF Pressed
  <2>2. p \in 1 .. L + 1 /\ more[p] = codes[p]
    BY <1>1
  <2>3. \A q \in p + 1 .. L + 1 : EventOf(more[q]).key # key
    <3> TAKE q \in p + 1 .. L + 1
    <3>1. q = L + 1 \/ (q \in p + 1 .. L /\ q \in 1 .. L)
      BY <1>1
    <3> QED
      BY <1>1, <1>4, <2>1, <3>1
  <2> QED
    BY <1>1, <2>1, <2>2, <2>3 DEF Pressed
<1>5. ASSUME EventOf(c).key # key, Pressed(more, key) PROVE Pressed(codes, key)
  <2>1. PICK p \in 1 .. L + 1 : /\ ~Released(more[p]) /\ EventOf(more[p]).key = key
                               /\ \A q \in p + 1 .. L + 1 : EventOf(more[q]).key # key
    BY <1>1, <1>5 DEF Pressed
  <2>2. p \in 1 .. L /\ more[p] = codes[p]
    BY <1>1, <1>5, <2>1
  <2>3. \A q \in p + 1 .. L : EventOf(codes[q]).key # key
    <3> TAKE q \in p + 1 .. L
    <3>1. q \in p + 1 .. L + 1 /\ q \in 1 .. L
      BY <1>1
    <3> QED
      BY <1>1, <2>1, <3>1
  <2> QED
    BY <2>1, <2>2, <2>3 DEF Pressed
<1> QED
  BY <1>2, <1>3, <1>4, <1>5 DEF more

\* The events of scancodes hold a key down exactly when the scancodes do.
LEMMA DownIsPressed ==
    ASSUME NEW codes \in Seq(Codes), NEW key, key # UNKNOWN
    PROVE  Down(EventsOf(codes), key) <=> Pressed(codes, key)
<1> DEFINE first(n) == SubSeq(codes, 1, n)
           Bad == {n \in 0 .. Len(codes) : ~(Down(EventsOf(first(n)), key) <=> Pressed(first(n), key))}
<1>0. Len(codes) \in Nat /\ first(Len(codes)) = codes
  BY SubSeqFull
<1>1. SUFFICES ASSUME Bad # {} PROVE FALSE
  <2>1. Len(codes) \notin Bad => (Down(EventsOf(first(Len(codes))), key) <=> Pressed(first(Len(codes)), key))
    <3> HIDE DEF first
    <3> QED
      BY <1>0
  <2> HIDE DEF first
  <2> QED
    BY <1>0, <2>1
<1>2. PICK n \in Bad : \A m \in Bad : n <= m
  <2>1. Bad \in SUBSET Nat
    BY <1>0
  <2> HIDE DEF Bad
  <2> QED
    BY <1>1, <2>1, FirstExists
<1>3. n # 0
  <2>1. first(0) = <<>>
    BY SubSeqEmpty
  <2>2. Len(<<>>) = 0
    OBVIOUS
  <2>3. ~Down(<<>>, key) /\ ~Pressed(<<>>, key)
    BY <2>2 DEF Down, Pressed
  <2>4. EventsOf(first(0)) = <<>>
    BY <2>1, NoCodes
  <2> QED
    BY <1>2, <2>1, <2>3, <2>4
<1>4. n - 1 \in 0 .. Len(codes) /\ n - 1 \notin Bad /\ n \in 1 .. Len(codes)
  BY <1>0, <1>2, <1>3
<1> DEFINE s == first(n - 1)
           c == codes[n]
<1>5. s \in Seq(Codes) /\ c \in Codes /\ first(n) = Append(s, c)
  <2>1. s \in Seq(Codes) /\ c \in Codes
    BY <1>4
  <2>2. /\ Len(s) = n - 1 /\ \A i \in 1 .. n - 1 : s[i] = codes[i]
        /\ first(n) \in Seq(Codes) /\ Len(first(n)) = n /\ \A i \in 1 .. n : first(n)[i] = codes[i]
    BY <1>4
  <2>3. Append(s, c) \in Seq(Codes) /\ Len(Append(s, c)) = n /\ \A i \in 1 .. n : Append(s, c)[i] = codes[i]
    <3> HIDE DEF s, c
    <3>1. /\ Append(s, c) \in Seq(Codes) /\ Len(Append(s, c)) = Len(s) + 1
          /\ Append(s, c)[Len(s) + 1] = c /\ \A i \in 1 .. Len(s) : Append(s, c)[i] = s[i]
      BY <2>1
    <3>2. (n - 1) + 1 = n /\ \A i \in 1 .. n : i = n \/ i \in 1 .. n - 1
      BY <1>4
    <3> QED
      BY <2>2, <3>1, <3>2 DEF c
  <2> HIDE DEF s, c, first
  <2> QED
    BY <2>1, <2>2, <2>3, SeqEqual
<1> HIDE DEF s, c
<1>6. Down(EventsOf(s), key) <=> Pressed(s, key)
  BY <1>4 DEF s
<1>7. Down(EventsOf(first(n)), key) <=> Pressed(first(n), key)
  <2>1. EventsOf(first(n)) = WithEvent(EventsOf(s), c) /\ EventsOf(s) \in Seq(Event) /\ EventOf(c) \in Event
    BY <1>5, OneMoreCode, EventsAreEvents DEF Event
  <2>2. Pressed(first(n), key) <=> IF EventOf(c).key = key THEN ~Released(c) ELSE Pressed(s, key)
    BY <1>5, PressedAfter
  <2>3. EventOf(c).type = "keydown" <=> ~Released(c)
    BY DEF EventOf
  <2>4. CASE Known(c)
    <3>1. Down(Append(EventsOf(s), EventOf(c)), key) <=>
             IF EventOf(c).key = key THEN EventOf(c).type = "keydown" ELSE Down(EventsOf(s), key)
      BY <2>1, DownAfter
    <3> QED
      BY <1>6, <2>1, <2>2, <2>3, <2>4, <3>1 DEF WithEvent
  <2>5. CASE ~Known(c)
    BY <1>6, <2>1, <2>2, <2>5 DEF WithEvent, Known
  <2> QED
    BY <2>4, <2>5
<1> QED
  BY <1>2, <1>7

-----------------------------------------------------------------------------
(* The ring of the engine.                                                 *)

LEMMA Wraps ==
    ASSUME NEW n \in 0 .. 2 * MaxEvents - 1
    PROVE  n % MaxEvents = IF n < MaxEvents THEN n ELSE n - MaxEvents
OBVIOUS

RingOfEvents ==
    /\ events \in [EventSlots -> Event]
    /\ eventhead \in EventSlots /\ eventtail \in EventSlots

\* Where the pending events lie.
At(i) == IF eventtail + i - 1 < MaxEvents THEN eventtail + i - 1 ELSE eventtail + i - 1 - MaxEvents

Laid ==
    /\ PendingCount = IF eventtail <= eventhead THEN eventhead - eventtail
                                                       ELSE MaxEvents + eventhead - eventtail
    /\ PendingCount \in 0 .. MaxEvents - 1
    /\ PendingCount = 0 <=> eventtail = eventhead
    /\ Pending \in Seq(Event) /\ Len(Pending) = PendingCount
    /\ \A i \in 1 .. PendingCount : Pending[i] = events[At(i)]

LEMMA PendingIsCounted == RingOfEvents => Laid
<1> SUFFICES ASSUME RingOfEvents PROVE Laid
  OBVIOUS
<1>1. eventhead \in 0 .. MaxEvents - 1 /\ eventtail \in 0 .. MaxEvents - 1
  BY DEF RingOfEvents, EventSlots
<1>2. PendingCount = IF eventtail <= eventhead THEN eventhead - eventtail
                                               ELSE MaxEvents + eventhead - eventtail
  <2>1. MaxEvents + eventhead - eventtail \in 0 .. 2 * MaxEvents - 1
    BY <1>1
  <2>2. PendingCount = IF MaxEvents + eventhead - eventtail < MaxEvents
                       THEN MaxEvents + eventhead - eventtail
                       ELSE MaxEvents + eventhead - eventtail - MaxEvents
    <3> DEFINE n == MaxEvents + eventhead - eventtail
    <3> HIDE DEF n
    <3>1. n % MaxEvents = IF n < MaxEvents THEN n ELSE n - MaxEvents
      BY <2>1, Wraps, Zenon DEF n
    <3>2. PendingCount = IF n < MaxEvents THEN n ELSE n - MaxEvents
      BY <3>1, Zenon DEF PendingCount, n
    <3> QED
      BY <1>1, <3>2 DEF n
  <2> QED
    BY <1>1, <2>2
<1>3. PendingCount \in 0 .. MaxEvents - 1 /\ (PendingCount = 0 <=> eventtail = eventhead)
  BY <1>1, <1>2
<1>4. \A i \in 1 .. PendingCount :
         (eventtail + i - 1) % MaxEvents = At(i)
  <2> TAKE i \in 1 .. PendingCount
  <2> DEFINE n == eventtail + i - 1
  <2>1. n \in 0 .. 2 * MaxEvents - 1
    BY <1>1, <1>3
  <2>2. At(i) = IF n < MaxEvents THEN n ELSE n - MaxEvents
    BY <1>1, <1>3 DEF At
  <2> HIDE DEF n
  <2>3. n % MaxEvents = At(i)
    BY <2>1, <2>2, Wraps, Zenon
  <2> QED
    BY <2>3 DEF n
<1>5. \A i \in 1 .. PendingCount : events[(eventtail + i - 1) % MaxEvents] \in Event
  <2> TAKE i \in 1 .. PendingCount
  <2>1. (eventtail + i - 1) % MaxEvents \in EventSlots
    BY <1>1, <1>3, <1>4 DEF EventSlots, At
  <2> QED
    BY <2>1 DEF RingOfEvents
<1>6. PendingCount \in Nat
  BY <1>3
<1> HIDE DEF PendingCount
<1>7. Pending \in Seq(Event) /\ Len(Pending) = PendingCount
      /\ \A i \in 1 .. PendingCount : Pending[i] = events[(eventtail + i - 1) % MaxEvents]
  BY <1>5, <1>6 DEF Pending
<1> QED
  BY <1>2, <1>3, <1>4, <1>7 DEF Laid

\* A posted event is pending behind the others, if there is room.
LEMMA PostAppends ==
    ASSUME RingOfEvents, NEW ev \in Event, D_PostEvent(ev), PendingCount < MaxEvents - 1
    PROVE  RingOfEvents' /\ Pending' = Append(Pending, ev) /\ PendingCount' = PendingCount + 1
<1>1. eventhead \in 0 .. MaxEvents - 1 /\ eventtail \in 0 .. MaxEvents - 1
  BY DEF RingOfEvents, EventSlots
<1>2. eventhead' = IF eventhead + 1 < MaxEvents THEN eventhead + 1 ELSE 0
  <2>1. eventhead + 1 \in 0 .. 2 * MaxEvents - 1
    BY <1>1
  <2> QED
    BY <1>1, <2>1, Wraps DEF D_PostEvent
<1>3. /\ eventtail' = eventtail /\ events' \in [EventSlots -> Event]
      /\ \A i \in EventSlots : events'[i] = IF i = eventhead THEN ev ELSE events[i]
  BY DEF D_PostEvent, RingOfEvents
<1>4. RingOfEvents'
  BY <1>1, <1>2, <1>3 DEF RingOfEvents, EventSlots
<1> DEFINE n == PendingCount
           m == PendingCount'
<1>5. /\ n = IF eventtail <= eventhead THEN eventhead - eventtail ELSE MaxEvents + eventhead - eventtail
      /\ n \in 0 .. MaxEvents - 1 /\ Pending \in Seq(Event) /\ Len(Pending) = n
      /\ \A i \in 1 .. n : Pending[i] = events[At(i)]
  BY PendingIsCounted DEF Laid
<1>6. /\ m = IF eventtail' <= eventhead' THEN eventhead' - eventtail' ELSE MaxEvents + eventhead' - eventtail'
      /\ Pending' \in Seq(Event) /\ Len(Pending') = m
      /\ \A i \in 1 .. m : Pending'[i] = events'[At(i)]
  <2>1. (RingOfEvents => Laid)'
    BY PendingIsCounted, PTL
  <2>2. Laid' /\ \A i : At(i)' = At(i)
    BY <1>3, <1>4, <2>1 DEF At
  <2> QED
    BY <2>2 DEF Laid
<1>7. PendingCount < MaxEvents - 1
  OBVIOUS
<1> HIDE DEF n, m
<1>8. m = n + 1
  BY <1>1, <1>2, <1>3, <1>5, <1>6, <1>7 DEF n
<1>9. \A i \in 1 .. n : At(i) \in EventSlots /\ At(i) # eventhead
  BY <1>1, <1>5 DEF EventSlots, At
<1>10. At(n + 1) = eventhead /\ eventhead \in EventSlots
  BY <1>1, <1>5 DEF EventSlots, At
<1>11. \A i \in 1 .. n : Pending[i] = events[At(i)]
  BY <1>5
<1>12. \A i \in 1 .. n + 1 : Pending'[i] = events'[At(i)]
  BY <1>3, <1>6, <1>8
<1>13. \A i \in 1 .. n + 1 : Pending'[i] = IF i = n + 1 THEN ev ELSE Pending[i]
  <2> TAKE i \in 1 .. n + 1
  <2>1. i = n + 1 \/ (i # n + 1 /\ i \in 1 .. n)
    BY <1>5
  <2> QED
    BY <1>3, <1>9, <1>10, <1>11, <1>12, <2>1
<1>14. /\ Append(Pending, ev) \in Seq(Event) /\ Len(Append(Pending, ev)) = n + 1
       /\ \A i \in 1 .. n + 1 : Append(Pending, ev)[i] = IF i = n + 1 THEN ev ELSE Pending[i]
  <2> DEFINE s == Pending
  <2> HIDE DEF s
  <2>1. s \in Seq(Event) /\ Len(s) = n
    BY <1>5 DEF s
  <2>2. /\ Append(s, ev) \in Seq(Event) /\ Len(Append(s, ev)) = n + 1
        /\ \A i \in 1 .. n + 1 : Append(s, ev)[i] = IF i = n + 1 THEN ev ELSE s[i]
    BY <2>1
  <2> QED
    BY <2>2 DEF s
<1>15. Pending' = Append(Pending, ev)
  <2> DEFINE s == Append(Pending, ev)
             t == Pending'
  <2>1. t \in Seq(Event) /\ s \in Seq(Event) /\ Len(t) = Len(s) /\ \A i \in 1 .. Len(t) : t[i] = s[i]
    BY <1>6, <1>8, <1>13, <1>14
  <2> HIDE DEF s, t
  <2>2. t = s
    BY <2>1, SeqEqual
  <2> QED
    BY <2>2 DEF s, t
<1> QED
  BY <1>4, <1>8, <1>15 DEF n, m

\* The oldest event is taken, the others stay.
LEMMA TakeOldest ==
    ASSUME RingOfEvents, eventtail # eventhead, eventtail' = (eventtail + 1) % MaxEvents,
           UNCHANGED <<events, eventhead>>
    PROVE  /\ RingOfEvents' /\ PendingCount' = PendingCount - 1 /\ events[eventtail] \in Event
           /\ Pending = <<events[eventtail]>> \o Pending'
<1>1. eventhead \in 0 .. MaxEvents - 1 /\ eventtail \in 0 .. MaxEvents - 1
  BY DEF RingOfEvents, EventSlots
<1>2. eventtail' = IF eventtail + 1 < MaxEvents THEN eventtail + 1 ELSE 0
  <2>1. eventtail + 1 \in 0 .. 2 * MaxEvents - 1
    BY <1>1
  <2> QED
    BY <1>1, <2>1, Wraps
<1>3. RingOfEvents' /\ events[eventtail] \in Event
  BY <1>1, <1>2 DEF RingOfEvents, EventSlots
<1> DEFINE n == PendingCount
           m == PendingCount'
           ev == events[eventtail]
<1>5. /\ n = IF eventtail <= eventhead THEN eventhead - eventtail ELSE MaxEvents + eventhead - eventtail
      /\ n \in 0 .. MaxEvents - 1 /\ Pending \in Seq(Event) /\ Len(Pending) = n
      /\ \A i \in 1 .. n : Pending[i] = events[At(i)]
  BY PendingIsCounted DEF Laid
<1>6. /\ m = IF eventtail' <= eventhead THEN eventhead - eventtail' ELSE MaxEvents + eventhead - eventtail'
      /\ m \in 0 .. MaxEvents - 1
      /\ Pending' \in Seq(Event) /\ Len(Pending') = m
      /\ \A i \in 1 .. m : Pending'[i] = events[At(i)']
  <2>1. (RingOfEvents => Laid)'
    BY PendingIsCounted, PTL
  <2> QED
    BY <1>3, <2>1 DEF Laid
<1> HIDE DEF n, m
<1>7. m = n - 1 /\ n >= 1
  BY <1>1, <1>2, <1>5, <1>6
<1>8. At(1) = eventtail
  BY <1>1 DEF At
<1>9. \A i \in 1 .. m : i + 1 \in 1 .. n /\ At(i)' = At(i + 1)
  <2> TAKE i \in 1 .. m
  <2>1. i + 1 \in 1 .. n /\ i \in Int /\ eventtail \in Int /\ eventtail' \in Int /\ MaxEvents \in Int
    BY <1>1, <1>2, <1>5, <1>7
  <2>2. At(i)' = IF eventtail' + i - 1 < MaxEvents THEN eventtail' + i - 1 ELSE eventtail' + i - 1 - MaxEvents
    BY Zenon DEF At
  <2>3. At(i + 1) = IF eventtail + i < MaxEvents THEN eventtail + i ELSE eventtail + i - MaxEvents
    BY <2>1 DEF At
  <2>4. i >= 1 /\ i < MaxEvents /\ eventtail < MaxEvents
    BY <1>1, <1>5, <2>1
  <2>5. CASE eventtail + 1 < MaxEvents
    <3>1. eventtail' = eventtail + 1
      BY <1>2, <2>5
    <3> QED
      BY <2>1, <2>2, <2>3, <3>1
  <2>6. CASE ~(eventtail + 1 < MaxEvents)
    <3>1. eventtail' = 0 /\ eventtail = MaxEvents - 1
      BY <1>2, <2>1, <2>4, <2>6
    <3> QED
      BY <2>1, <2>2, <2>3, <2>4, <3>1
  <2> QED
    BY <2>5, <2>6
<1>10. Pending[1] = ev /\ \A i \in 1 .. m : Pending'[i] = Pending[i + 1]
  <2>1. Pending[1] = ev
    BY <1>5, <1>7, <1>8
  <2>2. ASSUME NEW i \in 1 .. m PROVE Pending'[i] = Pending[i + 1]
    <3>1. Pending'[i] = events[At(i + 1)]
      BY <1>6, <1>9
    <3> QED
      BY <1>5, <1>9, <3>1
  <2> QED
    BY <2>1, <2>2
<1>11. Pending = <<ev>> \o Pending'
  <2> DEFINE s == Pending
             t == Pending'
  <2>1. s \in Seq(Event) /\ t \in Seq(Event) /\ Len(s) = n /\ Len(t) = m /\ ev \in Event
        /\ s[1] = ev /\ \A i \in 1 .. m : t[i] = s[i + 1]
    BY <1>3, <1>5, <1>6, <1>10
  <2> HIDE DEF s, t, ev
  <2>2. /\ <<ev>> \o t \in Seq(Event) /\ Len(<<ev>> \o t) = n
        /\ (<<ev>> \o t)[1] = ev /\ \A i \in 1 .. m : (<<ev>> \o t)[i + 1] = t[i]
    <3>1. <<ev>> \in Seq(Event) /\ Len(<<ev>>) = 1 /\ <<ev>>[1] = ev
      BY <2>1
    <3> HIDE DEF s, t, ev
    <3>2. m \in Nat /\ n = m + 1 /\ Len(t) = m
      BY <1>6, <1>7, <2>1
    <3> QED
      BY <2>1, <3>1, <3>2
  <2>3. \A i \in 1 .. n : i = 1 \/ (i - 1 \in 1 .. m /\ (i - 1) + 1 = i)
    BY <1>5, <1>7
  <2>4. \A i \in 1 .. n : s[i] = (<<ev>> \o t)[i]
    BY <2>1, <2>2, <2>3
  <2>5. s = <<ev>> \o t
    BY <2>1, <2>2, <2>4, SeqEqual
  <2> QED
    BY <2>5 DEF s, t
<1> QED
  BY <1>3, <1>7, <1>11 DEF n, m

-----------------------------------------------------------------------------
(* The ring of scancodes.                                                  *)

USE SizeAssumption, ScancodesAssumption, BoundsAssumption

(* Arithmetic of the ring indices.                                         *)

\* The C expression (i + 1) % Size wraps at the end of the buffer.
LEMMA SuccWraps ==
    ASSUME NEW i \in Slots
    PROVE  /\ Succ(i) = IF i + 1 = Size THEN 0 ELSE i + 1
           /\ Succ(i) \in Slots
BY DEF Slots, Succ

\* A released scancode names a key of the table, a pressed one too.
LEMMA KeyInTable ==
    ASSUME NEW c \in Scancodes
    PROVE  KeyOf(c) \in Keys
BY DEF Keys

\* Slots counted from the tail: they lie in the buffer, distinct offsets
\* below Size are distinct slots, the successor of a slot is the next one,
\* and moving the tail on shifts the count by one.
LEMMA SlotAtInSlots ==
    ASSUME keyboard_tail \in Slots, NEW i \in 0..Size - 1
    PROVE  SlotAt(i) \in Slots
BY DEF SlotAt, Slots

LEMMA SlotAtDistinct ==
    ASSUME keyboard_tail \in Slots, NEW i \in 0..Size - 1, NEW j \in 0..Size - 1,
           i # j
    PROVE  SlotAt(i) # SlotAt(j)
BY DEF SlotAt, Slots

LEMMA SlotAtSucc ==
    ASSUME keyboard_tail \in Slots, NEW i \in 0..Size - 1
    PROVE  /\ i + 1 < Size => Succ(SlotAt(i)) = SlotAt(i + 1)
           /\ i + 1 = Size => Succ(SlotAt(i)) = keyboard_tail
BY SlotAtInSlots, SuccWraps DEF SlotAt, Slots

LEMMA SlotAtShift ==
    ASSUME keyboard_tail \in Slots, keyboard_tail' = Succ(keyboard_tail),
           NEW i \in 0..Size - 2
    PROVE  SlotAt(i)' = SlotAt(i + 1)
BY SuccWraps DEF SlotAt, Slots

-----------------------------------------------------------------------------
(* The inductive invariant and its consequences.                           *)

RingInv == TypeOK /\ FifoOrder /\ RingHoldsWaiting /\ PopNotStale

\* The next scancode to be taken is in the slot at the tail.
LEMMA OldestAtTail ==
    ASSUME RingInv, keyboard_head # keyboard_tail
    PROVE  /\ Waiting \in 1..Size - 1
           /\ Len(Consumed) + 1 \in 1..Len(accepted)
           /\ keyboard_buffer[keyboard_tail] = accepted[Len(Consumed) + 1]
           /\ keyboard_buffer[keyboard_tail] \in Scancodes
<1>1. Consumed \in Seq(0..NoCode)
  BY DEF RingInv, TypeOK, Consumed, NoCode
<1>2. SlotAt(0) = keyboard_tail
  BY DEF RingInv, TypeOK, SlotAt, Slots
<1>3. Waiting \in 1..Size - 1
  BY <1>2 DEF RingInv, RingHoldsWaiting
<1>4. Len(Consumed) + 1 \in 1..Len(accepted)
  BY <1>1, <1>3 DEF Waiting, RingInv, TypeOK
<1>5. keyboard_buffer[keyboard_tail] = accepted[Len(Consumed) + 1]
  BY <1>1, <1>2, <1>3 DEF RingInv, RingHoldsWaiting
<1> QED
  BY <1>3, <1>4, <1>5 DEF RingInv, TypeOK

LEMMA ConsumedIsSeq ==
    TypeOK => Consumed \in Seq(0..NoCode) /\ Len(Consumed) \in Nat
BY DEF TypeOK, Consumed, NoCode

\* A ring is full when Size - 1 scancodes wait in it.
LEMMA FullIffSizeMinusOne ==
    ASSUME RingInv
    PROVE  Full <=> Waiting = Size - 1
<1>1. Waiting \in 0..Size - 1 /\ keyboard_head = SlotAt(Waiting)
  BY DEF RingInv, RingHoldsWaiting
<1>2. keyboard_tail \in Slots /\ SlotAt(0) = keyboard_tail
  BY DEF RingInv, TypeOK, SlotAt, Slots
<1>3. CASE Waiting = Size - 1
  BY <1>1, <1>2, <1>3, SlotAtSucc DEF Full
<1>4. CASE Waiting < Size - 1
  <2>1. Succ(keyboard_head) = SlotAt(Waiting + 1)
    BY <1>1, <1>2, <1>4, SlotAtSucc
  <2>2. SlotAt(Waiting + 1) # SlotAt(0)
    BY <1>1, <1>2, <1>4, SlotAtDistinct
  <2> QED
    BY <1>2, <1>4, <2>1, <2>2 DEF Full
<1> QED
  BY <1>1, <1>3, <1>4

LEMMA InitRingInv == Init => RingInv
BY SlotAtInSlots DEF Init, RingInv, TypeOK, FifoOrder, RingHoldsWaiting, PopNotStale,
       Consumed, Waiting, SlotAt, Slots, NoCode

\* A store by the handler adds the scancode behind those already waiting and
\* leaves what the pop is working on alone.
LEMMA PushKeepsRingInv ==
    ASSUME RingInv, NEW c \in Scancodes, NoteKeyState(c), Push(c),
           UNCHANGED <<popVars, popped>>
    PROVE  RingInv' /\ Consumed' = Consumed /\ Waiting' = Waiting + 1
<1> USE DEF RingInv
<1>1. TypeOK'
  <2>1. key_states' \in [Keys -> {0, 1}]
    BY KeyInTable DEF TypeOK, NoteKeyState
  <2>2. keyboard_buffer' \in [Slots -> 0..255]
    <3>1. c \in 0..255
      OBVIOUS
    <3> QED
      BY <3>1 DEF TypeOK, Push
  <2>3. accepted' \in Seq(Scancodes)
    BY DEF TypeOK, Push
  <2>4. keyboard_head' \in Slots
    BY SuccWraps DEF TypeOK, Push
  <2> QED
    BY <2>1, <2>2, <2>3, <2>4 DEF TypeOK, Push, popVars
<1>2. Waiting \in 0..Size - 2 /\ keyboard_head = SlotAt(Waiting)
  BY FullIffSizeMinusOne DEF RingHoldsWaiting, Push
<1>3. keyboard_tail \in Slots /\ keyboard_tail' = keyboard_tail
  BY DEF TypeOK, Push
<1>4. \A i \in Slots : SlotAt(i)' = SlotAt(i)
  BY <1>3 DEF SlotAt
<1>5. keyboard_head \in Slots /\ Succ(keyboard_head) = SlotAt(Waiting + 1)
  BY <1>2, <1>3, SlotAtSucc DEF TypeOK
<1>6. pop = "advanced" => slot # keyboard_head
  BY DEF PopNotStale, Push, Full
<1>7. Consumed' = Consumed
  BY <1>6 DEF Consumed, Push, popVars, TypeOK
<1>8. /\ Len(Consumed) \in Nat /\ Len(accepted) \in Nat
      /\ accepted \in Seq(Scancodes)
      /\ accepted' = Append(accepted, c)
  BY ConsumedIsSeq DEF TypeOK, Push
<1>9. Waiting' = Waiting + 1
  BY <1>7, <1>8 DEF Waiting
<1>10. FifoOrder'
  BY <1>7, <1>8 DEF FifoOrder
<1>11. RingHoldsWaiting'
  <2>1. keyboard_head' = SlotAt(Waiting)'
    BY <1>3, <1>5, <1>9 DEF Push, SlotAt
  <2>2. ASSUME NEW i \in 0..Waiting
        PROVE  keyboard_buffer'[SlotAt(i)'] = accepted'[Len(Consumed) + 1 + i]
    <3>0. i \in 0..Size - 1 /\ SlotAt(i)' = SlotAt(i) /\ SlotAt(i) \in Slots
      BY <1>2, <1>3, <1>4, SlotAtInSlots DEF Slots
    <3>1. CASE i = Waiting
      BY <1>2, <1>8, <3>0, <3>1 DEF Push, TypeOK, Waiting
    <3>2. CASE i < Waiting
      <4>1. SlotAt(i) # keyboard_head
        BY <1>2, <1>3, <3>2, SlotAtDistinct
      <4>2. keyboard_buffer[SlotAt(i)] = accepted[Len(Consumed) + 1 + i]
        BY <1>2, <3>2 DEF RingHoldsWaiting
      <4>3. Len(Consumed) + 1 + i \in 1..Len(accepted)
        BY <1>8, <3>2 DEF Waiting
      <4> QED
        BY <1>8, <3>0, <4>1, <4>2, <4>3 DEF Push, TypeOK
    <3> QED
      BY <1>2, <3>1, <3>2
  <2> QED
    BY <1>2, <1>7, <1>9, <2>1, <2>2 DEF RingHoldsWaiting
<1>12. PopNotStale'
  <2>1. keyboard_head' # keyboard_tail'
    BY <1>3 DEF Push, Full
  <2>2. CASE pop = "advanced"
    <3>1. Len(popped) + 1 = Len(Consumed)
      BY <2>2 DEF Consumed, TypeOK
    <3>2. Len(popped) + 1 \in 1..Len(accepted)
      BY <1>8, <3>1 DEF FifoOrder
    <3> QED
      BY <1>3, <1>6, <1>8, <2>2, <3>2 DEF PopNotStale, Push, popVars, TypeOK
  <2>3. CASE pop # "advanced"
    BY <1>3, <2>1, <2>3 DEF PopNotStale, Push, popVars, TypeOK
  <2> QED
    BY <2>2, <2>3
<1> QED
  BY <1>1, <1>7, <1>9, <1>10, <1>11, <1>12

LEMMA DropKeepsRingInv ==
    ASSUME RingInv, NEW c \in Scancodes, NoteKeyState(c), Drop,
           UNCHANGED <<popVars, popped>>
    PROVE  RingInv' /\ Consumed' = Consumed
<1>1. key_states' \in [Keys -> {0, 1}]
  BY KeyInTable DEF RingInv, TypeOK, NoteKeyState
<1>2. TypeOK'
  BY <1>1 DEF RingInv, TypeOK, Drop, ringVars, popVars
<1>3. Consumed' = Consumed /\ Waiting' = Waiting
  BY DEF Consumed, Waiting, Drop, ringVars, popVars
<1>4. FifoOrder'
  BY <1>3 DEF RingInv, FifoOrder, Drop
<1>5. RingHoldsWaiting'
  BY <1>3 DEF RingInv, RingHoldsWaiting, SlotAt, Drop, ringVars
<1>6. PopNotStale'
  BY DEF RingInv, PopNotStale, Drop, ringVars, popVars
<1> QED
  BY <1>2, <1>3, <1>4, <1>5, <1>6 DEF RingInv

\* Moving the tail on takes the oldest scancode and leaves the others in place.
LEMMA AdvanceKeepsOrder ==
    ASSUME RingInv, keyboard_head # keyboard_tail,
           keyboard_tail' = Succ(keyboard_tail),
           UNCHANGED <<keyboard_head, keyboard_buffer, accepted>>,
           Consumed' = Append(Consumed, keyboard_buffer[keyboard_tail])
    PROVE  FifoOrder' /\ RingHoldsWaiting' /\ Waiting' = Waiting - 1
<1>1. /\ Waiting \in 1..Size - 1
      /\ Len(Consumed) + 1 \in 1..Len(accepted)
      /\ keyboard_buffer[keyboard_tail] = accepted[Len(Consumed) + 1]
  BY OldestAtTail
<1>2. /\ Consumed \in Seq(0..NoCode) /\ Len(Consumed) \in Nat
      /\ keyboard_tail \in Slots /\ accepted \in Seq(Scancodes)
      /\ keyboard_buffer \in [Slots -> 0..255]
  BY ConsumedIsSeq DEF RingInv, TypeOK
<1>3. keyboard_buffer[keyboard_tail] \in 0..NoCode
  BY <1>2 DEF NoCode
<1>4. Len(Consumed') = Len(Consumed) + 1
  BY <1>2, <1>3
<1>5. Waiting' = Waiting - 1
  BY <1>2, <1>4 DEF Waiting
<1>6. FifoOrder'
  <2>1. \A i \in 1..Len(Consumed) : Consumed'[i] = Consumed[i]
    BY <1>2, <1>3
  <2>2. Consumed'[Len(Consumed) + 1] = accepted[Len(Consumed) + 1]
    BY <1>1, <1>2, <1>3
  <2> QED
    BY <1>1, <1>2, <1>4, <2>1, <2>2 DEF RingInv, FifoOrder
<1>7. \A i \in 0..Size - 2 : SlotAt(i)' = SlotAt(i + 1)
  BY <1>2, SlotAtShift
<1>8. RingHoldsWaiting'
  <2>1. SlotAt(Waiting)' = SlotAt(Waiting)
    <3>1. keyboard_tail' = IF keyboard_tail + 1 = Size THEN 0 ELSE keyboard_tail + 1
      BY <1>2, SuccWraps
    <3> QED
      BY <1>1, <1>2, <1>5, <3>1 DEF SlotAt, Slots
  <2>2. keyboard_head' = SlotAt(Waiting)'
    BY <2>1 DEF RingInv, RingHoldsWaiting
  <2>3. ASSUME NEW i \in 0..Waiting - 2
        PROVE  keyboard_buffer[SlotAt(i)'] = accepted[Len(Consumed) + 2 + i]
    <3>1. i \in 0..Size - 2 /\ i + 1 \in 0..Waiting - 1
      BY <1>1
    <3>2. keyboard_buffer[SlotAt(i + 1)] = accepted[Len(Consumed) + 1 + (i + 1)]
      BY <3>1 DEF RingInv, RingHoldsWaiting
    <3> QED
      BY <1>2, <1>7, <3>1, <3>2
  <2> QED
    BY <1>1, <1>2, <1>4, <1>5, <2>2, <2>3 DEF RingHoldsWaiting
<1> QED
  BY <1>5, <1>6, <1>8

LEMMA PopNonEmptyKeepsRingInv ==
    ASSUME RingInv, PopNonEmpty
    PROVE  RingInv' /\ Consumed' = Consumed
<1>1. Consumed' = Consumed /\ Waiting' = Waiting
  BY DEF Consumed, Waiting, PopNonEmpty, Empty, ringVars
<1>2. TypeOK'
  BY DEF RingInv, TypeOK, PopNonEmpty, Empty, ringVars
<1>3. FifoOrder' /\ RingHoldsWaiting'
  BY <1>1 DEF RingInv, FifoOrder, RingHoldsWaiting, SlotAt, PopNonEmpty, Empty, ringVars
<1>4. PopNotStale'
  BY DEF RingInv, PopNotStale, PopNonEmpty, Empty, ringVars
<1> QED
  BY <1>1, <1>2, <1>3, <1>4 DEF RingInv

LEMMA PopReadKeepsRingInv ==
    ASSUME RingInv, PopRead
    PROVE  RingInv' /\ Consumed' = Consumed
<1>1. Consumed' = Consumed /\ Waiting' = Waiting
  BY DEF Consumed, Waiting, PopRead, ringVars
<1>2. code' \in 0..NoCode
  <2>1. keyboard_buffer[keyboard_tail] \in 0..255
    BY DEF RingInv, TypeOK
  <2> QED
    BY <2>1 DEF PopRead, NoCode
<1>3. TypeOK'
  BY <1>2 DEF RingInv, TypeOK, PopRead, ringVars
<1>4. FifoOrder' /\ RingHoldsWaiting'
  BY <1>1 DEF RingInv, FifoOrder, RingHoldsWaiting, SlotAt, PopRead, ringVars
<1>5. PopNotStale'
  BY DEF RingInv, PopNotStale, PopRead, ringVars
<1> QED
  BY <1>1, <1>3, <1>4, <1>5 DEF RingInv

LEMMA PopAdvanceKeepsRingInv ==
    ASSUME RingInv, PopAdvance
    PROVE  RingInv' /\ Consumed' = Append(Consumed, keyboard_buffer[keyboard_tail])
<1>1. keyboard_head # keyboard_tail /\ code = keyboard_buffer[keyboard_tail]
  BY DEF RingInv, PopNotStale, PopAdvance
<1>2. Consumed' = Append(Consumed, keyboard_buffer[keyboard_tail])
  BY <1>1 DEF Consumed, PopAdvance
<1>3. FifoOrder' /\ RingHoldsWaiting'
  BY <1>1, <1>2, AdvanceKeepsOrder DEF PopAdvance
<1>4. TypeOK'
  <2>1. popped' \in Seq(0..NoCode)
    BY DEF RingInv, TypeOK, PopAdvance
  <2>2. keyboard_tail' \in Slots
    BY SuccWraps DEF RingInv, TypeOK, PopAdvance
  <2>3. code' \in 0..NoCode
    BY DEF PopAdvance, NoCode
  <2> QED
    BY <2>1, <2>2, <2>3 DEF RingInv, TypeOK, PopAdvance
<1>5. PopNotStale'
  BY DEF PopNotStale, PopAdvance
<1> QED
  BY <1>2, <1>3, <1>4, <1>5 DEF RingInv

LEMMA PopAdvanceFirstKeepsRingInv ==
    ASSUME RingInv, PopAdvanceFirst
    PROVE  RingInv' /\ Consumed' = Append(Consumed, keyboard_buffer[keyboard_tail])
<1>1. keyboard_head # keyboard_tail
  BY DEF RingInv, PopNotStale, PopAdvanceFirst
<1>2. Consumed = popped /\ Consumed' = Append(Consumed, keyboard_buffer[keyboard_tail])
  BY DEF Consumed, PopAdvanceFirst
<1>3. FifoOrder' /\ RingHoldsWaiting'
  BY <1>1, <1>2, AdvanceKeepsOrder DEF PopAdvanceFirst
<1>4. TypeOK'
  <2>1. keyboard_tail' \in Slots
    BY SuccWraps DEF RingInv, TypeOK, PopAdvanceFirst
  <2> QED
    BY <2>1 DEF RingInv, TypeOK, PopAdvanceFirst
<1>5. PopNotStale'
  BY <1>1, <1>2, OldestAtTail DEF PopNotStale, PopAdvanceFirst
<1> QED
  BY <1>2, <1>3, <1>4, <1>5 DEF RingInv

LEMMA PopReadLateKeepsRingInv ==
    ASSUME RingInv, PopReadLate
    PROVE  RingInv' /\ Consumed' = Consumed
<1>1. Consumed' = Consumed /\ Waiting' = Waiting
  BY DEF Consumed, Waiting, PopReadLate, ringVars
<1>2. TypeOK'
  <2>1. keyboard_buffer[slot] \in 0..NoCode
    BY DEF RingInv, TypeOK, NoCode
  <2>2. popped' \in Seq(0..NoCode)
    BY <2>1 DEF RingInv, TypeOK, PopReadLate
  <2> QED
    BY <2>2 DEF RingInv, TypeOK, PopReadLate, ringVars
<1>3. FifoOrder' /\ RingHoldsWaiting'
  BY <1>1 DEF RingInv, FifoOrder, RingHoldsWaiting, SlotAt, PopReadLate, ringVars
<1>4. PopNotStale'
  BY DEF RingInv, PopNotStale, PopReadLate, ringVars
<1> QED
  BY <1>1, <1>2, <1>3, <1>4 DEF RingInv

LEMMA StutterKeepsRingInv ==
    ASSUME RingInv, UNCHANGED vars
    PROVE  RingInv' /\ Consumed' = Consumed
BY DEF RingInv, TypeOK, FifoOrder, RingHoldsWaiting, PopNotStale, Consumed, Waiting,
       SlotAt, vars, ringVars, popVars

LEMMA NextKeepsRingInv == RingInv /\ [Next]_vars => RingInv'
<1> SUFFICES ASSUME RingInv, [Next]_vars
             PROVE  RingInv'
  OBVIOUS
<1>1. CASE UNCHANGED vars
  BY <1>1, StutterKeepsRingInv
<1>2. ASSUME NEW c \in Scancodes, keyboard_handler(c)
      PROVE  RingInv'
  BY <1>2, PushKeepsRingInv, DropKeepsRingInv DEF keyboard_handler
<1>3. CASE PopEmpty
  BY <1>3, StutterKeepsRingInv DEF PopEmpty
<1>4. CASE PopNonEmpty
  BY <1>4, PopNonEmptyKeepsRingInv
<1>5. CASE PopRead
  BY <1>5, PopReadKeepsRingInv
<1>6. CASE PopAdvance
  BY <1>6, PopAdvanceKeepsRingInv
<1>7. CASE PopAdvanceFirst
  BY <1>7, PopAdvanceFirstKeepsRingInv
<1>8. CASE PopReadLate
  BY <1>8, PopReadLateKeepsRingInv
<1> QED
  BY <1>1, <1>2, <1>3, <1>4, <1>5, <1>6, <1>7, <1>8 DEF Next, keyboard_pop_scancode

-----------------------------------------------------------------------------
(* The results.                                                            *)

\* Every reachable state satisfies the inductive invariant.
THEOREM RingInvariant == Spec => []RingInv
BY InitRingInv, NextKeepsRingInv, PTL DEF Spec

\* The variables of the ring keep their types.
THEOREM RingTypeCorrect == Spec => []TypeOK
<1>1. RingInv => TypeOK
  BY DEF RingInv
<1> QED
  BY <1>1, RingInvariant, PTL

\* Scancodes come out in the order in which the handler stored them, whatever
\* the interleaving of handler and pop and the compiler's ordering of the pop.
THEOREM RingIsFifo == Spec => []FifoOrder
<1>1. RingInv => FifoOrder
  BY DEF RingInv
<1> QED
  BY <1>1, RingInvariant, PTL

\* The ring holds exactly what was stored and not yet taken.
THEOREM RingHolds == Spec => []RingHoldsWaiting
<1>1. RingInv => RingHoldsWaiting
  BY DEF RingInv
<1> QED
  BY <1>1, RingInvariant, PTL

\* What the pop read or decided is still true when it acts on it.
THEOREM PopNeverStale == Spec => []PopNotStale
<1>1. RingInv => PopNotStale
  BY DEF RingInv
<1> QED
  BY <1>1, RingInvariant, PTL

LEMMA InitRefines == Init => Fifo!Init
BY DEF Init, Fifo!Init, Consumed

LEMMA NextRefines == RingInv /\ RingInv' /\ [Next]_vars => [Fifo!Next]_Fifo!vars
<1> SUFFICES ASSUME RingInv, [Next]_vars
             PROVE  [Fifo!Next]_Fifo!vars
  OBVIOUS
<1>0. /\ Waiting \in 0..Size - 1
      /\ Fifo!Waiting = Waiting
  BY DEF RingInv, RingHoldsWaiting, Waiting, Fifo!Waiting
<1>1. CASE UNCHANGED vars
  BY <1>1, StutterKeepsRingInv DEF Fifo!vars, vars
<1>2. ASSUME NEW c \in Scancodes, keyboard_handler(c), Push(c)
      PROVE  Fifo!Accept(c)
  <2>1. Consumed' = Consumed
    BY <1>2, PushKeepsRingInv DEF keyboard_handler
  <2>2. Fifo!Waiting < Size - 1
    BY <1>0, <1>2, FullIffSizeMinusOne DEF Push
  <2> QED
    BY <1>2, <2>1, <2>2 DEF Push, Fifo!Accept
<1>3. ASSUME NEW c \in Scancodes, keyboard_handler(c), Drop
      PROVE  Fifo!Discard
  <2>1. Consumed' = Consumed
    BY <1>3, DropKeepsRingInv DEF keyboard_handler
  <2>2. Fifo!Waiting = Size - 1
    BY <1>0, <1>3, FullIffSizeMinusOne DEF Drop
  <2> QED
    BY <1>3, <2>1, <2>2 DEF Drop, Fifo!Discard
<1>4. ASSUME Consumed' = Append(Consumed, keyboard_buffer[keyboard_tail]),
             keyboard_head # keyboard_tail, UNCHANGED <<accepted, dropped>>
      PROVE  Fifo!Take
  <2>1. /\ Len(Consumed) + 1 \in 1..Len(accepted)
        /\ keyboard_buffer[keyboard_tail] = accepted[Len(Consumed) + 1]
    BY <1>4, OldestAtTail
  <2>2. Len(Consumed) \in Nat /\ Len(accepted) \in Nat
    BY ConsumedIsSeq DEF RingInv, TypeOK
  <2> QED
    BY <1>4, <2>1, <2>2 DEF Fifo!Take
<1>5. CASE PopEmpty
  BY <1>1, <1>5 DEF PopEmpty
<1>6. CASE PopNonEmpty
  BY <1>6, PopNonEmptyKeepsRingInv DEF PopNonEmpty, Fifo!vars
<1>7. CASE PopRead
  BY <1>7, PopReadKeepsRingInv DEF PopRead, Fifo!vars
<1>8. CASE PopAdvance
  BY <1>4, <1>8, PopAdvanceKeepsRingInv DEF PopAdvance, RingInv, PopNotStale, Fifo!Next
<1>9. CASE PopAdvanceFirst
  BY <1>4, <1>9, PopAdvanceFirstKeepsRingInv
     DEF PopAdvanceFirst, RingInv, PopNotStale, Fifo!Next
<1>10. CASE PopReadLate
  BY <1>10, PopReadLateKeepsRingInv DEF PopReadLate, Fifo!vars
<1>11. CASE \E c \in Scancodes : keyboard_handler(c)
  BY <1>2, <1>3, <1>11 DEF keyboard_handler, Fifo!Next
<1> QED
  BY <1>1, <1>5, <1>6, <1>7, <1>8, <1>9, <1>10, <1>11 DEF Next, keyboard_pop_scancode

\* The ring implements the lossy FIFO: it drops a scancode only when Size - 1
\* are waiting, and delivers all the others in order.
THEOREM RingImplementsFifo == Spec => FifoSpec
BY InitRingInv, NextKeepsRingInv, InitRefines, NextRefines, RingInvariant, PTL
   DEF Spec, FifoSpec, Fifo!Spec

-----------------------------------------------------------------------------
(* Why every scancode is returned: each step of the handler and of the pop   *)
(* uses up work, and while a scancode is in the ring the pop can take a step. *)

\* A pop takes three steps; these it has taken.
PopSteps == CASE pop = "idle" -> 0 [] pop = "nonempty" -> 1 [] OTHER -> 2
RingWork ==
    4 * (MaxAccepted - Len(accepted)) + (MaxDropped - dropped)
        + 3 * (Len(accepted) - Len(popped)) - PopSteps

\* Whichever way the compiler ordered the pop, and however often it is interrupted, each
\* of its steps, but for a call that finds the ring empty, brings a scancode nearer.
RingWindsDown == [][RingWork' \in Nat /\ RingWork' < RingWork]_vars

\* A scancode that was stored and not returned is one that the pop is about to return or
\* finds: no call says that the ring is empty while it waits.
NoneLeftBehind == Len(popped) < Len(accepted) => pop # "idle" \/ ~Empty

LEMMA WorkInPops ==
    ASSUME RingInv
    PROVE  /\ Len(accepted) \in Nat /\ Len(popped) \in Nat /\ Len(popped) <= Len(accepted)
           /\ pop # "idle" => Len(popped) < Len(accepted)
<1>1. accepted \in Seq(Scancodes) /\ popped \in Seq(0..NoCode) /\ Consumed \in Seq(0..NoCode)
  BY ConsumedIsSeq DEF RingInv, TypeOK
<1>2. Len(accepted) \in Nat /\ Len(popped) \in Nat /\ Len(Consumed) \in Nat
  BY <1>1
<1>3. Len(Consumed) <= Len(accepted)
  BY DEF RingInv, FifoOrder
<1>4. CASE pop = "advanced"
  <2>1. Len(Consumed) = Len(popped) + 1
    BY <1>1, <1>4 DEF Consumed
  <2>2. QED
    BY <1>2, <1>3, <2>1
<1>5. CASE pop # "advanced"
  <2>1. Consumed = popped
    BY <1>5 DEF Consumed
  <2>2. pop # "idle" => Waiting \in 1..Size - 1
    BY <1>5, OldestAtTail DEF RingInv, TypeOK, PopNotStale
  <2>3. Waiting >= 1 => Len(Consumed) < Len(accepted)
    BY <1>2 DEF Waiting
  <2>4. Waiting \in 1..Size - 1 => Waiting >= 1
    OBVIOUS
  <2>5. QED
    BY <1>2, <1>3, <2>1, <2>2, <2>3, <2>4
<1>6. QED
  BY <1>4, <1>5

\* What RingInv does not say: the bound on what is stored.
Bounded == RingInv /\ Len(accepted) <= MaxAccepted
RingWorkLeft == RingWork \in Nat

LEMMA BoundHolds == Spec => []Bounded
<1>1. Init => Bounded
  BY InitRingInv, BoundsAssumption DEF Init, Bounded
<1>2. Bounded /\ [Next]_vars => Bounded'
  <2>1. SUFFICES ASSUME Bounded, [Next]_vars PROVE Len(accepted') <= MaxAccepted
    BY NextKeepsRingInv DEF Bounded
  <2>2. accepted' = accepted \/ (\E c \in Scancodes : Push(c))
    BY <2>1 DEF Next, keyboard_handler, Drop, keyboard_pop_scancode, PopEmpty, PopNonEmpty,
                PopRead, PopAdvance, PopAdvanceFirst, PopReadLate, vars
  <2>3. ASSUME NEW c \in Scancodes, Push(c) PROVE Len(accepted') <= MaxAccepted
    <3>1. accepted' = Append(accepted, c) /\ Len(accepted) < MaxAccepted
      BY <2>3 DEF Push
    <3>2. accepted \in Seq(Scancodes)
      BY <2>1 DEF Bounded, RingInv, TypeOK
    <3>3. Len(accepted) \in Nat /\ Len(accepted') = Len(accepted) + 1
      BY <3>1, <3>2
    <3>4. QED
      BY <3>1, <3>3, BoundsAssumption
  <2>4. QED
    BY <2>1, <2>2, <2>3 DEF Bounded
<1>3. QED
  BY <1>1, <1>2, PTL DEF Spec

LEMMA RingWorkIsNat ==
    ASSUME Bounded
    PROVE  RingWork \in Nat
<1>1. /\ Len(accepted) \in Nat /\ Len(popped) \in Nat /\ Len(popped) <= Len(accepted)
      /\ pop # "idle" => Len(popped) < Len(accepted)
  BY WorkInPops DEF Bounded
<1>2. dropped \in 0..MaxDropped /\ Len(accepted) <= MaxAccepted
  BY DEF Bounded, RingInv, TypeOK
<1>3. PopSteps \in 0..2 /\ (pop = "idle" => PopSteps = 0)
  BY DEF PopSteps
<1>4. QED
  BY <1>1, <1>2, <1>3, BoundsAssumption DEF RingWork

LEMMA RingWorks ==
    ASSUME Bounded, [Next]_vars
    PROVE  [RingWork' < RingWork]_vars
<1>1. /\ accepted \in Seq(Scancodes) /\ popped \in Seq(0..NoCode)
      /\ dropped \in Nat /\ MaxAccepted \in Nat /\ MaxDropped \in Nat
  BY BoundsAssumption DEF Bounded, RingInv, TypeOK
<1>2. Len(accepted) \in Nat /\ Len(popped) \in Nat /\ PopSteps \in 0..2
  BY <1>1 DEF PopSteps
<1>3. /\ \A x : Len(Append(accepted, x)) = Len(accepted) + 1
      /\ \A x : Len(Append(popped, x)) = Len(popped) + 1
  BY <1>1
<1>4. ASSUME NEW c \in Scancodes, keyboard_handler(c)
      PROVE  RingWork' < RingWork
  <2>1. popped' = popped /\ PopSteps' = PopSteps
    BY <1>4 DEF keyboard_handler, popVars, PopSteps
  <2>2. CASE Push(c)
    <3>1. Len(accepted') = Len(accepted) + 1 /\ dropped' = dropped
      BY <1>3, <2>2 DEF Push
    <3>2. RingWork' = 4 * (MaxAccepted - (Len(accepted) + 1)) + (MaxDropped - dropped)
                          + 3 * ((Len(accepted) + 1) - Len(popped)) - PopSteps
      BY <2>1, <3>1 DEF RingWork
    <3>3. QED
      BY <1>1, <1>2, <3>2 DEF RingWork
  <2>3. CASE Drop
    <3>1. RingWork' = 4 * (MaxAccepted - Len(accepted)) + (MaxDropped - (dropped + 1))
                          + 3 * (Len(accepted) - Len(popped)) - PopSteps
      BY <2>1, <2>3 DEF Drop, RingWork
    <3>2. QED
      BY <1>1, <1>2, <3>1 DEF RingWork
  <2>4. QED
    BY <1>4, <2>2, <2>3 DEF keyboard_handler
<1>5. CASE PopNonEmpty \/ PopRead \/ PopAdvanceFirst
  <2>1. /\ accepted' = accepted /\ popped' = popped /\ dropped' = dropped
        /\ PopSteps' = PopSteps + 1
    BY <1>5 DEF PopNonEmpty, PopRead, PopAdvanceFirst, PopSteps
  <2>2. RingWork' = 4 * (MaxAccepted - Len(accepted)) + (MaxDropped - dropped)
                        + 3 * (Len(accepted) - Len(popped)) - (PopSteps + 1)
    BY <2>1 DEF RingWork
  <2>3. QED
    BY <1>1, <1>2, <2>2 DEF RingWork
<1>6. CASE PopAdvance \/ PopReadLate
  <2>1. /\ accepted' = accepted /\ dropped' = dropped /\ Len(popped') = Len(popped) + 1
        /\ PopSteps = 2 /\ PopSteps' = 0
    BY <1>3, <1>6 DEF PopAdvance, PopReadLate, PopSteps
  <2>2. RingWork' = 4 * (MaxAccepted - Len(accepted)) + (MaxDropped - dropped)
                        + 3 * (Len(accepted) - (Len(popped) + 1)) - 0
    BY <2>1 DEF RingWork
  <2>3. RingWork = 4 * (MaxAccepted - Len(accepted)) + (MaxDropped - dropped)
                        + 3 * (Len(accepted) - Len(popped)) - 2
    BY <2>1 DEF RingWork
  <2>4. QED
    BY <1>1, <1>2, <2>2, <2>3
<1>7. CASE PopEmpty
  BY <1>7 DEF PopEmpty
<1>8. QED
  BY <1>4, <1>5, <1>6, <1>7 DEF Next, keyboard_pop_scancode

\* No pop is under way for ever, and no scancode keeps the handler and the pop busy for
\* more than its share of steps.
THEOREM RingUsesUpWork == Spec => RingWindsDown
<1>1. Bounded => RingWorkLeft
  BY RingWorkIsNat DEF RingWorkLeft
<1>2. Bounded /\ RingWorkLeft' /\ [Next]_vars
          => [RingWork' \in Nat /\ RingWork' < RingWork]_vars
  BY RingWorks DEF RingWorkLeft
<1>3. QED
  BY <1>1, <1>2, BoundHolds, PTL DEF Spec, RingWindsDown

\* The test for an empty ring never hides a scancode that waits.
THEOREM NoScancodeLeftBehind == Spec => []NoneLeftBehind
<1>1. RingInv => NoneLeftBehind
  <2>1. SUFFICES ASSUME RingInv, pop = "idle", Empty, Len(popped) < Len(accepted) PROVE FALSE
    BY DEF NoneLeftBehind
  <2>2. Consumed = popped /\ Waiting \in 0..Size - 1 /\ keyboard_head = SlotAt(Waiting)
    BY <2>1 DEF Consumed, RingInv, RingHoldsWaiting
  <2>3. Waiting \in 1..Size - 1
    BY <2>1, <2>2, WorkInPops DEF Waiting
  <2>4. keyboard_tail \in Slots /\ keyboard_head = keyboard_tail
    BY <2>1 DEF RingInv, TypeOK, Empty
  <2>5. QED
    BY <2>2, <2>3, <2>4, SizeAssumption DEF SlotAt, Slots
<1>2. QED
  BY <1>1, RingInvariant, PTL

-----------------------------------------------------------------------------
(* The game at the other end: the inductive invariant.                     *)

\* What the scancodes dispatched stand for is handled or pending, and what the
\* engine is behind fits its ring.
QueueOK ==
    /\ RingOfEvents
    /\ handled \in Seq(Event)
    /\ loop = "dispatch" => popped # <<>>
    /\ Backlog <= MaxBacklog
    /\ EventsFollowScancodes

\* A key the game holds was pressed last among the events handled; a key that
\* was pressed last among the scancodes stored is down or its release was lost.
KeysOK ==
    /\ gamekeydown \in [GameKeys -> BOOLEAN]
    /\ ~demo => \A key \in GameKeys : gamekeydown[key] => Down(handled, key)
    /\ lost \in [Keys -> BOOLEAN]
    /\ \A key \in GameKeys : Pressed(accepted, key) =>
          \E k \in ScancodesOf(key) \cap Keys : key_states[k] = 1 \/ lost[k]

InputInv == RingInv /\ QueueOK /\ KeysOK

LEMMA StoredCodes ==
    ASSUME RingInv
    PROVE  /\ popped \in Seq(Codes) /\ accepted \in Seq(Codes) /\ Len(popped) <= Len(accepted)
           /\ Len(popped) \in Nat /\ Len(accepted) \in Nat
           /\ popped # <<>> => Len(popped) >= 1
<1>1. popped \in Seq(Codes) /\ accepted \in Seq(Scancodes)
  BY DEF RingInv, TypeOK, Codes
<1>2. accepted \in Seq(Codes)
  <2>1. Scancodes \subseteq Codes
    BY ScancodesAssumption DEF Codes, NoCode
  <2> QED
    BY <1>1, <2>1, SeqWidens
<1>3. Len(popped) <= Len(Consumed) /\ Len(Consumed) <= Len(accepted) /\ Len(Consumed) \in Nat
  BY <1>1, ConsumedIsSeq DEF RingInv, FifoOrder, Consumed
<1>4. Len(popped) \in Nat /\ Len(accepted) \in Nat
  BY <1>1, <1>2
<1>5. popped # <<>> => Len(popped) >= 1
  BY <1>1, <1>4, EmptySeq
<1> QED
  BY <1>1, <1>2, <1>3, <1>4, <1>5

LEMMA DispatchedCodes ==
    ASSUME RingInv, loop = "dispatch" => popped # <<>>
    PROVE  /\ Dispatched \in Seq(Codes)
           /\ Len(Dispatched) = IF loop = "dispatch" THEN Len(popped) - 1 ELSE Len(popped)
           /\ loop = "dispatch" =>
                 popped[Len(popped)] \in Codes /\ popped = Append(Dispatched, popped[Len(popped)])
<1>1. popped \in Seq(Codes) /\ Len(popped) \in Nat /\ (popped # <<>> => Len(popped) >= 1)
  BY StoredCodes
<1>2. CASE loop # "dispatch"
  BY <1>1, <1>2 DEF Dispatched
<1>3. CASE loop = "dispatch"
  <2> DEFINE n == Len(popped)
             s == SubSeq(popped, 1, n - 1)
             c == popped[n]
  <2>1. /\ n >= 1 /\ Dispatched = s /\ s \in Seq(Codes) /\ Len(s) = n - 1 /\ c \in Codes
        /\ \A i \in 1 .. n - 1 : s[i] = popped[i]
    <3>1. n >= 1 /\ n \in Nat /\ Dispatched = s
      BY <1>1, <1>3 DEF Dispatched
    <3>2. popped \in Seq(Codes) /\ Len(popped) = n
      BY <1>1
    <3> HIDE DEF n
    <3> QED
      BY <3>1, <3>2
  <2> HIDE DEF s, c
  <2>2. /\ Append(s, c) \in Seq(Codes) /\ Len(Append(s, c)) = Len(s) + 1
        /\ Append(s, c)[Len(s) + 1] = c /\ \A i \in 1 .. Len(s) : Append(s, c)[i] = s[i]
    BY <2>1
  <2>3. \A i \in 1 .. n : popped[i] = Append(s, c)[i]
    <3>1. Len(s) + 1 = n /\ \A i \in 1 .. n : i = n \/ i \in 1 .. n - 1
      BY <1>1, <2>1
    <3> QED
      BY <2>1, <2>2, <3>1 DEF c
  <2>4. popped = Append(s, c)
    <3>1. Len(popped) = Len(Append(s, c))
      BY <1>1, <2>1, <2>2
    <3> QED
      BY <1>1, <2>2, <2>3, <3>1, SeqEqual
  <2> QED
    BY <1>3, <2>1, <2>4 DEF c
<1> QED
  BY <1>2, <1>3

LEMMA InputRingStep == [InputNext]_inputVars => [Next]_vars
BY DEF InputNext, inputVars, MainStep, DrainRing, doom_update, Interrupt, DoomInitReturns, DrainStep,
       DrainReturnsCode, DrainReturnsEmpty, Dispatch, UpdateReturns, D_UpdateWipe, TicReadsInput,
       D_ProcessEvents, TicEnds, Next, keyboard_pop_scancode

\* The queue where no event is posted or handled.
LEMMA QueueStays ==
    ASSUME QueueOK, UNCHANGED <<events, eventhead, eventtail, handled>>, Dispatched' = Dispatched,
           loop' = "dispatch" => popped' # <<>>, Backlog' <= MaxBacklog
    PROVE  QueueOK'
<1>1. PendingCount' = PendingCount
  BY DEF PendingCount
<1>2. Pending' = Pending
  BY <1>1 DEF Pending
<1>3. RingOfEvents'
  BY DEF QueueOK, RingOfEvents
<1> QED
  BY <1>2, <1>3 DEF QueueOK, EventsFollowScancodes

LEMMA KeysStay ==
    ASSUME KeysOK, UNCHANGED <<accepted, key_states, lost, demo, gamekeydown, handled>>
    PROVE  KeysOK'
BY DEF KeysOK

LEMMA InputStarts == InputInit => InputInv
<1> SUFFICES ASSUME InputInit PROVE InputInv
  OBVIOUS
<1>1. RingInv
  BY InitRingInv DEF InputInit
<1>2. RingOfEvents /\ eventhead = eventtail
  BY DEF InputInit, RingOfEvents, EventSlots, Event
<1>3. PendingCount = 0 /\ Pending = <<>>
  <2>1. PendingCount = 0 /\ Pending \in Seq(Event) /\ Len(Pending) = 0
    BY <1>2, PendingIsCounted DEF Laid
  <2> QED
    BY <2>1, EmptySeq
<1>4. popped = <<>> /\ accepted = <<>> /\ loop = "init" /\ handled = <<>>
  BY DEF InputInit, Init
<1>5. QueueOK
  <2>1. Dispatched = <<>> /\ Len(<<>>) = 0
    BY <1>4 DEF Dispatched
  <2>2. EventsFollowScancodes
    <3>1. <<>> \o <<>> = <<>>
      OBVIOUS
    <3> QED
      BY <1>3, <1>4, <2>1, <3>1, NoCodes DEF EventsFollowScancodes
  <2>3. Backlog <= MaxBacklog
    BY <1>3, <1>4, <2>1 DEF Backlog
  <2>4. handled \in Seq(Event)
    BY <1>4
  <2> QED
    BY <1>2, <1>4, <2>2, <2>3, <2>4 DEF QueueOK
<1>6. KeysOK
  <2>1. \A key : ~Pressed(<<>>, key)
    <3>1. Len(<<>>) = 0
      OBVIOUS
    <3> QED
      BY <3>1 DEF Pressed
  <2> QED
    BY <1>4, <2>1 DEF InputInit, KeysOK
<1> QED
  BY <1>1, <1>5, <1>6 DEF InputInv

-----------------------------------------------------------------------------
(* The interrupt, and the loop up to the call of doom_update.              *)

LEMMA CodeNamesKey ==
    ASSUME NEW c \in Scancodes, NEW key, EventOf(c).key = key
    PROVE  KeyOf(c) \in ScancodesOf(key) \cap Keys
<1>1. c \in 0 .. 255
  BY ScancodesAssumption
<1>2. KeyOf(c) \in BaseCodes
  BY <1>1 DEF KeyOf, Released, BaseCodes
<1>3. translate_scancode(KeyOf(c)) = key
  BY DEF EventOf
<1> QED
  BY <1>2, <1>3 DEF ScancodesOf, Keys

LEMMA InterruptHolds ==
    ASSUME InputInv, NEW c \in Scancodes, Interrupt(c)
    PROVE  QueueOK' /\ KeysOK'
<1>1. /\ NoteKeyState(c)
      /\ Push(c) \/ Drop
      /\ UNCHANGED <<popped, loop, engineVars>>
      /\ Full \/ Backlog < MaxBacklog
      /\ lost' = [lost EXCEPT ![KeyOf(c)] = Full]
  BY DEF Interrupt, keyboard_handler
<1>2. /\ RingInv /\ QueueOK /\ KeysOK /\ Len(accepted) \in Nat /\ accepted \in Seq(Codes) /\ c \in Codes
      /\ KeyOf(c) \in Keys
  <2>1. RingInv /\ QueueOK /\ KeysOK
    BY DEF InputInv
  <2>2. c \in Codes
    BY ScancodesAssumption DEF Codes, NoCode
  <2>3. KeyOf(c) \in Keys
    BY Zenon DEF Keys
  <2> QED
    BY <2>1, <2>2, <2>3, StoredCodes
<1>3. \/ ~Full /\ accepted' = Append(accepted, c) /\ Len(accepted') = Len(accepted) + 1
      \/ Full /\ accepted' = accepted
  BY <1>1, <1>2 DEF Push, Drop
<1>4. QueueOK'
  <2>1. UNCHANGED <<events, eventhead, eventtail, handled>> /\ Dispatched' = Dispatched /\ PendingCount' = PendingCount
    BY <1>1 DEF engineVars, Dispatched, PendingCount
  <2>2. Len(Dispatched) \in Nat /\ PendingCount \in Nat
    <3>1. Dispatched \in Seq(Codes)
      BY <1>2, DispatchedCodes DEF QueueOK
    <3> QED
      BY <1>2, <3>1, PendingIsCounted DEF QueueOK, Laid
  <2>3. Backlog' <= MaxBacklog
    BY <1>1, <1>2, <1>3, <2>1, <2>2 DEF QueueOK, Backlog
  <2> QED
    BY <1>1, <1>2, <2>1, <2>3, QueueStays DEF QueueOK
<1>5. KeysOK'
  <2>1. /\ key_states' = [key_states EXCEPT ![KeyOf(c)] = IF Released(c) THEN 0 ELSE 1]
        /\ key_states \in [Keys -> {0, 1}] /\ lost \in [Keys -> BOOLEAN] /\ Full \in BOOLEAN
    <3>1. key_states \in [Keys -> {0, 1}]
      BY <1>2 DEF RingInv, TypeOK
    <3>2. lost \in [Keys -> BOOLEAN]
      BY <1>2 DEF KeysOK
    <3>3. Full \in BOOLEAN
      BY DEF Full
    <3> QED
      BY <1>1, <3>1, <3>2, <3>3 DEF NoteKeyState
  <2>2. /\ \A k \in Keys : /\ key_states'[k] = IF k = KeyOf(c) THEN IF Released(c) THEN 0 ELSE 1 ELSE key_states[k]
                           /\ lost'[k] = IF k = KeyOf(c) THEN Full ELSE lost[k]
        /\ lost' \in [Keys -> BOOLEAN]
    BY <1>1, <1>2, <2>1
  <2>3. ASSUME NEW key \in GameKeys, Pressed(accepted', key)
        PROVE  \E k \in ScancodesOf(key) \cap Keys : key_states'[k] = 1 \/ lost'[k]
    <3>1. CASE EventOf(c).key = key
      <4>1. KeyOf(c) \in ScancodesOf(key) \cap Keys
        BY <3>1, CodeNamesKey
      <4>2. CASE Full
        BY <2>2, <4>1, <4>2
      <4>3. CASE ~Full
        <5>1. ~Released(c)
          BY <1>2, <1>3, <2>3, <3>1, <4>3, PressedAfter
        <5> QED
          BY <2>2, <4>1, <5>1
      <4> QED
        BY <4>2, <4>3
    <3>2. CASE EventOf(c).key # key
      <4>1. Pressed(accepted, key)
        BY <1>2, <1>3, <2>3, <3>2, PressedAfter
      <4>2. PICK k \in ScancodesOf(key) \cap Keys : key_states[k] = 1 \/ lost[k]
        BY <1>2, <4>1 DEF KeysOK
      <4>3. k # KeyOf(c)
        BY <3>2 DEF ScancodesOf, EventOf
      <4> QED
        BY <2>2, <4>2, <4>3
    <3> QED
      BY <3>1, <3>2
  <2> QED
    BY <1>1, <1>2, <2>2, <2>3 DEF KeysOK, engineVars
<1> QED
  BY <1>4, <1>5

\* A step of the loop that neither posts nor hands on an event.
LEMMA LoopGoesOn ==
    ASSUME InputInv, UNCHANGED <<popped, accepted, key_states, lost, events, eventhead, eventtail, handled>>,
           loop # "dispatch", loop' # "dispatch"
    PROVE  /\ QueueOK'
           /\ UNCHANGED <<demo, gamekeydown>> \/ gamekeydown' = [k \in GameKeys |-> FALSE]
              \/ (demo' /\ gamekeydown' = gamekeydown) => KeysOK'
<1>1. Dispatched' = Dispatched /\ PendingCount' = PendingCount
  BY DEF Dispatched, PendingCount
<1>2. Backlog' <= MaxBacklog
  BY <1>1 DEF InputInv, QueueOK, Backlog
<1> QED
  BY <1>1, <1>2, QueueStays DEF InputInv, KeysOK

LEMMA DrainHolds ==
    ASSUME InputInv, RingInv', DrainRing
    PROVE  QueueOK' /\ KeysOK'
<1>1. CASE DrainStep \/ DrainReturnsEmpty
  <2>1. /\ loop # "dispatch" /\ loop' # "dispatch" /\ UNCHANGED <<demo, gamekeydown>>
        /\ UNCHANGED <<popped, accepted, key_states, lost, events, eventhead, eventtail, handled>>
    BY <1>1 DEF DrainStep, DrainReturnsEmpty, PopNonEmpty, PopRead, PopAdvanceFirst, PopEmpty, vars, engineVars
  <2> QED
    BY <2>1, LoopGoesOn
<1>2. CASE DrainReturnsCode
  <2>1. /\ loop = "drain" /\ loop' = "dispatch" /\ UNCHANGED <<accepted, key_states, lost, engineVars>>
        /\ popped' = Append(popped, IF pop = "read" THEN code ELSE keyboard_buffer[slot])
    BY <1>2 DEF DrainReturnsCode, PopAdvance, PopReadLate
  <2> DEFINE c == IF pop = "read" THEN code ELSE keyboard_buffer[slot]
  <2>2. popped \in Seq(Codes) /\ c \in Codes
    <3>1. keyboard_buffer[slot] \in 0 .. 255 /\ code \in Codes
      BY DEF InputInv, RingInv, TypeOK, Codes
    <3> QED
      BY <3>1, StoredCodes DEF InputInv, Codes, NoCode
  <2> HIDE DEF c
  <2>3. popped' \in Seq(Codes) /\ popped' # <<>> /\ Dispatched' = SubSeq(popped', 1, Len(popped))
    <3>1. Append(popped, c) \in Seq(Codes) /\ Append(popped, c) # <<>> /\ Len(Append(popped, c)) - 1 = Len(popped)
      BY <2>2, AppendProperties
    <3> QED
      BY <2>1, <3>1 DEF Dispatched, c
  <2>4. Dispatched' = popped
    <3>1. popped' = popped \o <<c>> /\ <<c>> \in Seq(Codes)
      BY <2>1, <2>2, AppendIsConcat DEF c
    <3>2. SubSeq(popped \o <<c>>, 1, Len(popped)) = SubSeq(popped, 1, Len(popped))
      <4> DEFINE s == SubSeq(popped \o <<c>>, 1, Len(popped))
      <4>1. /\ popped \o <<c>> \in Seq(Codes) /\ Len(popped \o <<c>>) = Len(popped) + 1
            /\ \A i \in 1 .. Len(popped) : (popped \o <<c>>)[i] = popped[i]
        BY <2>2, <3>1
      <4>2. s \in Seq(Codes) /\ Len(s) = Len(popped) /\ \A i \in 1 .. Len(popped) : s[i] = popped[i]
        BY <2>2, <4>1
      <4> HIDE DEF s
      <4>3. s = popped
        BY <2>2, <4>2, SeqEqual
      <4> QED
        BY <2>2, <4>3, SubSeqFull DEF s
    <3> QED
      BY <2>2, <2>3, <3>1, <3>2, SubSeqFull
  <2>5. Dispatched = popped /\ PendingCount' = PendingCount
    BY <2>1 DEF Dispatched, PendingCount, engineVars
  <2>6. Backlog' <= MaxBacklog
    BY <2>1, <2>4, <2>5 DEF InputInv, QueueOK, Backlog
  <2> QED
    BY <2>1, <2>3, <2>4, <2>5, <2>6, QueueStays, KeysStay DEF InputInv, engineVars
<1> QED
  BY <1>1, <1>2 DEF DrainRing

LEMMA DispatchHolds ==
    ASSUME InputInv, Dispatch
    PROVE  QueueOK' /\ KeysOK'
<1> DEFINE c == popped[Len(popped)]
<1>1. /\ loop = "dispatch" /\ loop' = "drain" /\ UNCHANGED <<vars, lost>>
      /\ IF EventOf(c).key # UNKNOWN THEN D_PostEvent(EventOf(c)) ELSE UNCHANGED engineVars
  BY DEF Dispatch
<1>2. RingInv /\ QueueOK /\ KeysOK /\ popped # <<>>
  BY <1>1 DEF InputInv, QueueOK
<1>3. /\ Dispatched \in Seq(Codes) /\ c \in Codes /\ popped = Append(Dispatched, c)
      /\ Len(Dispatched) = Len(popped) - 1 /\ Len(popped) <= Len(accepted)
      /\ Len(popped) \in Nat /\ Len(accepted) \in Nat
  BY <1>1, <1>2, DispatchedCodes, StoredCodes
<1> HIDE DEF c
<1>4. Dispatched' = popped /\ accepted' = accepted /\ popped' = popped
  BY <1>1 DEF Dispatched, vars
<1>5. EventsOf(Dispatched') = WithEvent(EventsOf(Dispatched), c)
  BY <1>3, <1>4, OneMoreCode
<1>6. /\ PendingCount \in Nat /\ Pending \in Seq(Event) /\ handled \in Seq(Event)
      /\ handled \o Pending = EventsOf(Dispatched)
  BY <1>2, PendingIsCounted DEF QueueOK, Laid, EventsFollowScancodes
<1>7. PendingCount < MaxEvents - 1
  BY <1>2, <1>3, <1>6 DEF QueueOK, Backlog
<1>8. UNCHANGED <<demo, gamekeydown, handled>>
  BY <1>1 DEF D_PostEvent, engineVars
<1>9. KeysOK'
  BY <1>1, <1>2, <1>8, KeysStay DEF vars
<1>10. CASE EventOf(c).key # UNKNOWN
  <2>1. EventOf(c) \in Event /\ D_PostEvent(EventOf(c))
    BY <1>1, <1>3, <1>10 DEF Event
  <2>2. RingOfEvents' /\ Pending' = Append(Pending, EventOf(c)) /\ PendingCount' = PendingCount + 1
    BY <1>2, <1>7, <2>1, PostAppends DEF QueueOK
  <2>3. handled' \o Pending' = Append(handled \o Pending, EventOf(c))
    <3> DEFINE s == Pending
               ev == EventOf(c)
    <3>1. s \in Seq(Event) /\ ev \in Event
      BY <1>6, <2>1
    <3> HIDE DEF s, ev
    <3>2. Append(s, ev) = s \o <<ev>> /\ <<ev>> \in Seq(Event) /\ handled \o s \in Seq(Event)
      BY <1>6, <3>1, AppendIsConcat
    <3>3. handled \o (s \o <<ev>>) = (handled \o s) \o <<ev>>
      BY <1>6, <3>1, <3>2, ConcatAssociative
    <3>4. (handled \o s) \o <<ev>> = Append(handled \o s, ev)
      BY <3>1, <3>2, AppendIsConcat
    <3>5. handled' = handled
      BY <1>8
    <3> QED
      BY <2>2, <3>2, <3>3, <3>4, <3>5 DEF s, ev
  <2>4. EventsFollowScancodes'
    BY <1>5, <1>6, <1>10, <2>3 DEF EventsFollowScancodes, WithEvent, Known
  <2>5. Backlog' <= MaxBacklog
    BY <1>2, <1>3, <1>4, <1>6, <2>2 DEF QueueOK, Backlog
  <2> QED
    BY <1>1, <1>2, <1>8, <1>9, <2>2, <2>4, <2>5 DEF QueueOK
<1>11. CASE EventOf(c).key = UNKNOWN
  <2>1. UNCHANGED <<events, eventhead, eventtail, handled>>
    BY <1>1, <1>11 DEF engineVars
  <2>2. RingOfEvents' /\ PendingCount' = PendingCount /\ Pending' = Pending
    <3>1. PendingCount' = PendingCount
      BY <2>1 DEF PendingCount
    <3> QED
      BY <1>2, <2>1, <3>1 DEF QueueOK, RingOfEvents, Pending
  <2>3. EventsFollowScancodes'
    BY <1>5, <1>6, <1>11, <2>1, <2>2 DEF EventsFollowScancodes, WithEvent, Known
  <2>4. Backlog' <= MaxBacklog
    BY <1>2, <1>3, <1>4, <1>6, <2>2 DEF QueueOK, Backlog
  <2> QED
    BY <1>1, <1>2, <1>8, <1>9, <2>2, <2>3, <2>4 DEF QueueOK
<1> QED
  BY <1>10, <1>11

-----------------------------------------------------------------------------
(* doom_update.                                                            *)

LEMMA ProcessHolds ==
    ASSUME InputInv, D_ProcessEvents
    PROVE  QueueOK' /\ KeysOK'
<1>1. /\ loop = "events" /\ UNCHANGED <<vars, events, eventhead, demo, lost>>
      /\ \/ /\ eventtail # eventhead /\ Responders(events[eventtail])
            /\ handled' = Append(handled, events[eventtail])
            /\ eventtail' = (eventtail + 1) % MaxEvents
            /\ loop' = loop
         \/ loop' = "tic" /\ UNCHANGED <<gamekeydown, handled, eventtail>>
  BY DEF D_ProcessEvents
<1>2. CASE loop' = "tic" /\ UNCHANGED <<gamekeydown, handled, eventtail>>
  <2>1. /\ UNCHANGED <<popped, accepted, key_states, lost, events, eventhead, eventtail, handled>>
        /\ UNCHANGED <<demo, gamekeydown>> /\ loop # "dispatch" /\ loop' # "dispatch"
    BY <1>1, <1>2 DEF vars
  <2> QED
    BY <2>1, LoopGoesOn
<1>3. CASE /\ eventtail # eventhead /\ Responders(events[eventtail])
           /\ handled' = Append(handled, events[eventtail])
           /\ eventtail' = (eventtail + 1) % MaxEvents
           /\ loop' = loop
  <2> DEFINE ev == events[eventtail]
  <2>1. RingInv /\ QueueOK /\ KeysOK /\ RingOfEvents /\ handled \in Seq(Event)
    BY DEF InputInv, QueueOK
  <2>2. /\ RingOfEvents' /\ PendingCount' = PendingCount - 1 /\ ev \in Event
        /\ Pending = <<ev>> \o Pending'
    BY <1>1, <1>3, <2>1, TakeOldest
  <2>3. PendingCount \in Nat /\ Pending' \in Seq(Event)
    <3>1. (RingOfEvents => Laid)'
      BY PendingIsCounted, PTL
    <3> QED
      BY <2>1, <2>2, <3>1, PendingIsCounted DEF Laid
  <2>4. handled' = Append(handled, ev)
    BY <1>3
  <2> HIDE DEF ev
  <2>5. handled' \in Seq(Event) /\ handled' \o Pending' = handled \o Pending
    <3> DEFINE t == Pending'
    <3>1. t \in Seq(Event) /\ <<ev>> \in Seq(Event) /\ handled' = handled \o <<ev>> /\ handled' \in Seq(Event)
      BY <2>1, <2>2, <2>3, <2>4, AppendIsConcat
    <3> HIDE DEF t
    <3>2. (handled \o <<ev>>) \o t = handled \o (<<ev>> \o t)
      BY <2>1, <3>1, ConcatAssociative
    <3> QED
      BY <2>2, <3>1, <3>2 DEF t
  <2>6. Dispatched' = Dispatched /\ accepted' = accepted /\ popped' = popped
    BY <1>1, <1>3 DEF Dispatched, vars
  <2>7. Backlog' <= MaxBacklog
    <3>1. Len(Dispatched) \in Nat /\ Len(accepted) \in Nat
      <4>1. Dispatched \in Seq(Codes)
        BY <2>1, DispatchedCodes DEF QueueOK
      <4> QED
        BY <2>1, <4>1, StoredCodes
    <3> QED
      BY <2>1, <2>2, <2>3, <2>6, <3>1 DEF QueueOK, Backlog
  <2>8. QueueOK'
    BY <1>1, <1>3, <2>1, <2>2, <2>5, <2>6, <2>7 DEF QueueOK, EventsFollowScancodes
  <2>9. KeysOK'
    <3>1. \/ (ev.type = "keydown" \/ demo) /\ gamekeydown' = gamekeydown
          \/ gamekeydown' = [gamekeydown EXCEPT ![ev.key] = (ev.type = "keydown")]
      BY <1>3 DEF Responders, ev
    <3>2. gamekeydown' \in [GameKeys -> BOOLEAN]
      BY <2>1, <3>1 DEF KeysOK
    <3>3. ASSUME ~demo', NEW key \in GameKeys, gamekeydown'[key] PROVE Down(handled', key)
      <4>1. ~demo /\ (gamekeydown[key] => Down(handled, key)) /\ gamekeydown \in [GameKeys -> BOOLEAN]
        BY <1>1, <2>1, <3>3 DEF KeysOK
      <4>2. Down(handled', key) <=> IF ev.key = key THEN ev.type = "keydown" ELSE Down(handled, key)
        BY <2>1, <2>2, <2>4, DownAfter
      <4>3. CASE ev.key = key
        BY <3>1, <3>3, <4>1, <4>2, <4>3
      <4>4. CASE ev.key # key
        BY <3>1, <3>3, <4>1, <4>2, <4>4
      <4> QED
        BY <4>3, <4>4
    <3>4. UNCHANGED <<accepted, key_states, lost>>
      BY <1>1 DEF vars
    <3> QED
      BY <2>1, <3>2, <3>3, <3>4 DEF KeysOK
  <2> QED
    BY <2>8, <2>9
<1> QED
  BY <1>1, <1>2, <1>3

LEMMA UpdateHolds ==
    ASSUME InputInv, DoomInitReturns \/ doom_update
    PROVE  QueueOK' /\ KeysOK'
<1>1. CASE D_ProcessEvents
  BY <1>1, ProcessHolds
<1>2. CASE DoomInitReturns \/ UpdateReturns \/ D_UpdateWipe \/ TicReadsInput \/ TicEnds
  <2>1. /\ UNCHANGED <<popped, accepted, key_states, lost, events, eventhead, eventtail, handled>>
        /\ loop # "dispatch" /\ loop' # "dispatch"
        /\ UNCHANGED <<demo, gamekeydown>> \/ gamekeydown' = [k \in GameKeys |-> FALSE]
              \/ (demo' /\ gamekeydown' = gamekeydown)
    BY <1>2 DEF DoomInitReturns, UpdateReturns, D_UpdateWipe, TicReadsInput, TicEnds, vars, engineVars
  <2> QED
    BY <2>1, LoopGoesOn
<1> QED
  BY <1>1, <1>2 DEF doom_update

LEMMA InputSteps == InputInv /\ [InputNext]_inputVars => InputInv'
<1> SUFFICES ASSUME InputInv, [InputNext]_inputVars PROVE InputInv'
  OBVIOUS
<1>1. RingInv'
  BY InputRingStep, NextKeepsRingInv DEF InputInv
<1>2. ASSUME NEW c \in Scancodes, Interrupt(c) PROVE QueueOK' /\ KeysOK'
  BY <1>2, InterruptHolds
<1>3. CASE DrainRing
  BY <1>1, <1>3, DrainHolds DEF InputInv
<1>4. CASE Dispatch
  BY <1>1, <1>4, DispatchHolds DEF InputInv
<1>5. CASE DoomInitReturns \/ doom_update
  BY <1>1, <1>5, UpdateHolds DEF InputInv
<1>6. CASE UNCHANGED inputVars
  <2>1. UNCHANGED <<popped, accepted, key_states, lost, events, eventhead, eventtail, handled, demo, gamekeydown, loop>>
    BY <1>6 DEF inputVars, vars, engineVars
  <2>2. Dispatched' = Dispatched /\ Backlog' = Backlog
    BY <2>1 DEF Dispatched, Backlog, PendingCount
  <2> QED
    BY <1>1, <2>1, <2>2, QueueStays, KeysStay DEF InputInv, QueueOK
<1> QED
  BY <1>1, <1>2, <1>3, <1>4, <1>5, <1>6 DEF InputNext, MainStep, InputInv

LEMMA InputInvHolds == InputSpec => []InputInv
<1> QED
  BY InputStarts, InputSteps, PTL DEF InputSpec

-----------------------------------------------------------------------------
(* The results.                                                            *)

\* The responders are given the events of exactly the scancodes that
\* keyboard_handler stored, in that order, through both rings.
THEOREM EventsFollow == InputSpec => []EventsFollowScancodes
<1>1. InputInv => EventsFollowScancodes
  BY DEF InputInv, QueueOK
<1> QED
  BY <1>1, InputInvHolds, PTL

\* When the game has caught up with the keyboard it holds no key that was
\* released, unless the ring was full at the release.
THEOREM NoKeyIsStuck == InputSpec => []NoStuckKey
<1>1. InputInv => NoStuckKey
  <2> SUFFICES ASSUME InputInv, Caught, ~demo, NEW key \in GameKeys, gamekeydown[key]
               PROVE  \E k \in ScancodesOf(key) \cap Keys : key_states[k] = 1 \/ lost[k]
    BY DEF NoStuckKey
  <2>1. RingInv /\ QueueOK /\ KeysOK /\ keyboard_head = keyboard_tail /\ pop = "idle"
        /\ loop # "dispatch" /\ eventtail = eventhead
    BY DEF InputInv, Caught
  <2>2. popped = accepted
    <3>1. Consumed = popped /\ Waiting \in 0 .. Size - 1 /\ keyboard_head = SlotAt(Waiting)
          /\ keyboard_tail \in Slots
      BY <2>1 DEF Consumed, RingInv, RingHoldsWaiting, TypeOK
    <3>2. SlotAt(0) = keyboard_tail /\ 0 \in 0 .. Size - 1
      BY <3>1, SizeAssumption DEF SlotAt, Slots
    <3>3. Waiting = 0
      BY <2>1, <3>1, <3>2, SlotAtDistinct
    <3>4. popped \in Seq(Codes) /\ accepted \in Seq(Codes) /\ Len(popped) = Len(accepted)
      BY <2>1, <3>1, <3>3, StoredCodes DEF Waiting
    <3>5. \A i \in 1 .. Len(popped) : popped[i] = accepted[i]
      BY <2>1, <3>1 DEF RingInv, FifoOrder
    <3> QED
      BY <3>4, <3>5, SeqEqual
  <2>3. accepted \in Seq(Codes) /\ Dispatched = accepted
    BY <2>1, <2>2, StoredCodes DEF Dispatched
  <2>4. handled = EventsOf(accepted)
    <3>1. Pending \in Seq(Event) /\ Len(Pending) = 0 /\ handled \in Seq(Event)
      BY <2>1, PendingIsCounted DEF QueueOK, Laid
    <3>2. Pending = <<>>
      BY <3>1, EmptySeq
    <3>3. handled \o <<>> = handled
      BY <3>1, ConcatEmptySeq
    <3> QED
      BY <2>1, <2>3, <3>2, <3>3 DEF QueueOK, EventsFollowScancodes
  <2>5. Down(handled, key) /\ key # UNKNOWN
    BY <2>1 DEF KeysOK, GameKeys
  <2>6. Pressed(accepted, key)
    BY <2>3, <2>4, <2>5, DownIsPressed
  <2> QED
    BY <2>1, <2>6 DEF KeysOK
<1> QED
  BY <1>1, InputInvHolds, PTL
=============================================================================
