----------------------------- MODULE ZoneProofs -----------------------------
(***************************************************************************)
(* Proofs about the zone memory, for every size of the zone, every set of  *)
(* lumps and every size of what is allocated.  A state is described by the *)
(* set B of its blocks, without the zone's own header, which closes the    *)
(* ring.                                                                   *)
(***************************************************************************)
EXTENDS Engine, TLAPS, WellFoundedInduction

-----------------------------------------------------------------------------
(* The inductive invariant.                                                *)

Users == Slots \cup {Free, Unowned, "zone", "data"}
Headers == [size : Int, user : Users, tag : Int, next : Addr, prev : Addr,
            data : Slots \cup {"none", "raw"}]
Ringed(B) == B \cup {Cap}

\* The blocks of B fill the zone and are linked in both directions.
Layout(h, B) ==
    /\ h \in [Addr -> Headers]
    /\ B \in SUBSET (1 .. ZoneUnits - 1) /\ First \in B
    /\ h[Cap].user = "zone" /\ h[Cap].tag = PU_STATIC /\ h[Cap].next = First
    /\ \A a \in Ringed(B) : /\ h[a].next \in Ringed(B) /\ h[h[a].next].prev = a
                            /\ h[a].prev \in Ringed(B) /\ h[h[a].prev].next = a
    /\ \A a \in B : /\ h[a].size > 0
                    /\ a + h[a].size = IF h[a].next = Cap THEN ZoneUnits ELSE h[a].next
                    /\ \A c \in B : a < c => a + h[a].size <= c

\* Free blocks are not neighbours.
Parted(h, B) == \A a \in B : ~(IsFree(h, a) /\ IsFree(h, h[a].next))

\* Owners and blocks point to each other; d is the block of the composite
\* that is being drawn.
Owned(h, B, slot, d) ==
    /\ slot \in [Slots -> Addr \cup {NoBlock}]
    /\ \A s \in Slots : slot[s] # NoBlock =>
            /\ slot[s] \in B /\ h[slot[s]].user = s
            /\ h[slot[s]].data = IF d = slot[s] THEN "raw" ELSE s
    /\ \A a \in B : /\ h[a].user \in Slots => slot[h[a].user] = a
                    /\ h[a].user = Unowned => h[a].tag = PU_LEVEL
    /\ d # NoBlock => slot[Texture] = d /\ h[d].tag = PU_STATIC

\* The blocks without an owner are those of the level.
LevelHas(h, B, l) == l = {a \in B : h[a].user = Unowned}

Drawing == drawn \in [block : Addr, left : Seq(Lumps)]

\* A search: base is the rover or the free block before it, and no free block
\* is before base; start stays where it is.
SearchOK(B) ==
    /\ {start, rover, base} \subseteq Ringed(B)
    /\ ~IsFree(zone.hdr, start)
    /\ ~IsFree(zone.hdr, zone.hdr[base].prev)
    /\ rover = base \/ (IsFree(zone.hdr, base) /\ rover = zone.hdr[base].next)
    /\ zCall.units \in Nat \ {0} /\ zCall.tag \in Int
    /\ zCall.user \in Slots => zone.slot[zCall.user] = NoBlock
    /\ \/ zCall.for = "lump" /\ zCall.user \in Lumps /\ drawn = NotDrawn
       \/ zCall.for = "composite" /\ zCall.user \in Lumps /\ Drawing /\ drawn.left # <<>>
       \/ /\ zCall.for = "composite" /\ zCall.user = Texture /\ drawn = NotDrawn
          /\ zCall.tag = PU_STATIC
       \/ zCall.for = "level" /\ zCall.user = Unowned /\ drawn = NotDrawn /\ zCall.tag = PU_LEVEL

\* Z_FreeTags stands on a block, or on a header that was merged into a free
\* block and leads out of it; behind it no block is without an owner.
WalkOK(B) ==
    /\ walk \in Addr
    /\ \/ walk \in Ringed(B)
       \/ /\ IsFree(zone.hdr, walk) /\ zone.hdr[walk].next \in Ringed(B)
          /\ \A a \in B : a >= walk => zone.hdr[walk].next # Cap /\ a >= zone.hdr[walk].next
    /\ \A a \in B : zone.hdr[a].user = Unowned => walk # Cap /\ a >= walk

IsZone(z) == z = [hdr |-> z.hdr, rover |-> z.rover, slot |-> z.slot]
Held(z, B, d) ==
    /\ IsZone(z)
    /\ Layout(z.hdr, B) /\ Parted(z.hdr, B)
    /\ Owned(z.hdr, B, z.slot, d)
    /\ z.rover \in Ringed(B)

ZoneOK(B) ==
    /\ Held(zone, B, drawn.block)
    /\ zPc \in {"idle", "scan", "free tags", "composite", "error"}
    /\ zPc \in {"idle", "free tags"} => drawn = NotDrawn
    /\ zPc = "composite" => Drawing
    /\ zPc = "scan" => SearchOK(B)
    /\ zPc = "free tags" => WalkOK(B)
    /\ zPc # "free tags" => LevelHas(zone.hdr, B, level)

ZoneInv == \E B \in SUBSET Addr : ZoneOK(B)

-----------------------------------------------------------------------------
(* What the invariant says of one block and its neighbours.                *)

LEMMA LeastOf ==
    ASSUME NEW S \in SUBSET Nat, S # {}
    PROVE  \E n \in S : \A m \in S : n <= m
<1>1. \E n \in S : \A m \in S : ~(<<m, n>> \in OpToRel(<, Nat))
  BY NatLessThanWellFounded, WFMin
<1>2. PICK n \in S : \A m \in S : ~(<<m, n>> \in OpToRel(<, Nat))
  BY <1>1
<1>3. \A m \in S : ~(m < n)
  BY <1>2 DEF OpToRel
<1>4. \A m \in S : n <= m
  <2> TAKE m \in S
  <2>1. m \in Nat /\ n \in Nat
    OBVIOUS
  <2> QED
    BY <1>3, <2>1
<1> QED
  BY <1>4

LEMMA ZoneConstants ==
    /\ ZoneUnits \in Nat /\ ZoneUnits > 2 /\ MINFRAGMENT \in Nat
    /\ Addr = 0 .. ZoneUnits - 1 /\ Cap = 0 /\ First = 1 /\ NoBlock = -1 /\ NoBlock \notin Addr
    /\ Addr \subseteq Nat
  BY ZoneAssumption DEF Addr, Cap, First, NoBlock

\* What a layout says of one block.
LEMMA LayoutFacts ==
    ASSUME NEW h, NEW B, Layout(h, B), NEW a \in B
    PROVE  /\ a \in Nat /\ a > 0 /\ a < ZoneUnits /\ a \in Addr /\ a # Cap
           /\ h[a].size \in Nat /\ h[a].size > 0 /\ a + h[a].size <= ZoneUnits
           /\ h[a].next \in Addr /\ h[a].prev \in Addr
           /\ h[a].next # Cap => h[a].next \in B /\ h[a].next > a /\ a + h[a].size = h[a].next
           /\ h[a].next = Cap => a + h[a].size = ZoneUnits
           /\ h[a].prev # Cap => h[a].prev \in B
           /\ h[a].prev < a
           /\ h[h[a].next].prev = a /\ h[h[a].prev].next = a
<1>1. a \in Nat /\ a > 0 /\ a < ZoneUnits /\ a \in Addr /\ a # Cap
  BY ZoneConstants DEF Layout
<1>2. h[a] \in Headers /\ h[a].size > 0
  BY <1>1 DEF Layout
<1>3. h[a].size \in Nat /\ h[a].next \in Addr /\ h[a].prev \in Addr
  BY <1>2 DEF Headers
<1>4. /\ h[a].next \in Ringed(B) /\ h[a].prev \in Ringed(B)
      /\ h[h[a].next].prev = a /\ h[h[a].prev].next = a
  BY DEF Layout, Ringed
<1>5. /\ h[a].next # Cap => a + h[a].size = h[a].next
      /\ h[a].next = Cap => a + h[a].size = ZoneUnits
  BY DEF Layout
<1>6. h[a].next # Cap => h[a].next \in B /\ h[a].next > a
  BY <1>1, <1>2, <1>3, <1>4, <1>5 DEF Ringed
<1>7. a + h[a].size <= ZoneUnits
  BY <1>1, <1>3, <1>5, <1>6, ZoneConstants
<1>8. h[a].prev < a
  <2> DEFINE p == h[a].prev
  <2>1. CASE p = Cap
    BY <1>1, <2>1, ZoneConstants
  <2>2. CASE p # Cap
    <3>1. p \in B /\ h[p].next = a
      BY <1>4, <2>2 DEF Ringed
    <3> HIDE DEF p
    <3>2. h[p].size > 0 /\ p + h[p].size = a /\ p \in Addr
      BY <1>1, <3>1, ZoneConstants DEF Layout
    <3>3. h[p] \in Headers /\ p \in Nat
      BY <3>2, ZoneConstants DEF Layout
    <3>4. h[p].size \in Int
      BY <3>3 DEF Headers
    <3> QED
      BY <1>1, <3>2, <3>3, <3>4 DEF p
  <2> QED
    BY <2>1, <2>2
<1> QED
  BY <1>1, <1>2, <1>3, <1>4, <1>5, <1>6, <1>7, <1>8 DEF Ringed

LEMMA CapFacts ==
    ASSUME NEW h, NEW B, Layout(h, B)
    PROVE  /\ Cap \in Addr /\ Cap \notin B /\ Cap \in Ringed(B) /\ B \subseteq Addr /\ Ringed(B) \subseteq Addr
           /\ h[Cap].user = "zone" /\ ~IsFree(h, Cap) /\ h[Cap].tag = PU_STATIC
           /\ h[Cap].next = First /\ First \in B /\ h[First].prev = Cap
           /\ h[Cap].prev \in Ringed(B) /\ h[h[Cap].prev].next = Cap
           /\ \A a \in Addr : h[a].next \in Addr /\ h[a].prev \in Addr /\ h[a].size \in Int
<1>1. Cap \in Addr /\ Cap \notin B /\ B \subseteq Addr /\ Cap \in Ringed(B) /\ Ringed(B) \subseteq Addr
  BY ZoneConstants DEF Layout, Ringed
<1>2. /\ h[Cap].user = "zone" /\ h[Cap].tag = PU_STATIC /\ h[Cap].next = First /\ First \in B
      /\ h[h[Cap].next].prev = Cap /\ h[Cap].prev \in Ringed(B) /\ h[h[Cap].prev].next = Cap
  BY <1>1 DEF Layout
<1>3. ~IsFree(h, Cap)
  BY <1>2 DEF IsFree, Free
<1>4. \A a \in Addr : h[a] \in Headers
  BY DEF Layout
<1> QED
  BY <1>1, <1>2, <1>3, <1>4 DEF Headers

\* A layout depends on the sizes and links of the blocks only.
LEMMA LinksKept ==
    ASSUME NEW h, NEW B, Layout(h, B), NEW h2 \in [Addr -> Headers],
           \A a \in Ringed(B) : /\ h2[a].size = h[a].size
                                /\ h2[a].next = h[a].next /\ h2[a].prev = h[a].prev,
           h2[Cap].user = h[Cap].user, h2[Cap].tag = h[Cap].tag
    PROVE  Layout(h2, B)
<1>1. B \in SUBSET (1 .. ZoneUnits - 1) /\ First \in B /\ B \subseteq Ringed(B) /\ Cap \in Ringed(B)
  BY DEF Layout, Ringed
<1>2. h2[Cap].user = "zone" /\ h2[Cap].tag = PU_STATIC /\ h2[Cap].next = First
  BY <1>1, CapFacts
<1>3. \A a \in Ringed(B) : /\ h2[a].next \in Ringed(B) /\ h2[h2[a].next].prev = a
                           /\ h2[a].prev \in Ringed(B) /\ h2[h2[a].prev].next = a
  <2> TAKE a \in Ringed(B)
  <2>1. /\ h[a].next \in Ringed(B) /\ h[h[a].next].prev = a
        /\ h[a].prev \in Ringed(B) /\ h[h[a].prev].next = a
    BY DEF Layout
  <2> QED
    BY <2>1
<1>4. \A a \in B : /\ h2[a].size > 0
                   /\ a + h2[a].size = IF h2[a].next = Cap THEN ZoneUnits ELSE h2[a].next
                   /\ \A c \in B : a < c => a + h2[a].size <= c
  BY <1>1 DEF Layout
<1> QED
  BY <1>1, <1>2, <1>3, <1>4 DEF Layout

-----------------------------------------------------------------------------
(* The ring is the set of blocks.                                          *)

\* The walk round the ring.  It is a recursive function; that it finds exactly
\* the blocks is shown from its equation.
Onward(h, before) == [at |-> h[before.at].next, all |-> before.all \cup {h[before.at].next}]
AtCap == [at |-> Cap, all |-> {Cap}]
Goes(w, h) == w = [n \in Addr |-> IF n = 0 THEN AtCap ELSE Onward(h, w[n - 1])]

LEMMA RingIs ==
    ASSUME NEW h
    PROVE  \E w : Goes(w, h) /\ Ring(h) = w[ZoneUnits - 1].all
<1> DEFINE Partial(g, k) == g = [n \in 0 .. k |-> IF n = 0 THEN AtCap ELSE Onward(h, g[n - 1])]
           Missing == {k \in Nat : ~ \E g : Partial(g, k)}
<1>1. Missing = {}
  <2>1. SUFFICES ASSUME Missing # {}
                 PROVE  FALSE
    OBVIOUS
  <2>2. PICK k \in Missing : \A m \in Missing : k <= m
    <3>1. Missing \in SUBSET Nat
      OBVIOUS
    <3> HIDE DEF Missing
    <3> QED
      BY <2>1, <3>1, LeastOf
  <2>3. CASE k = 0
    <3>1. Partial([n \in 0 .. 0 |-> AtCap], 0)
      OBVIOUS
    <3> QED
      BY <2>2, <2>3, <3>1
  <2>4. CASE k # 0
    <3>1. k - 1 \in Nat /\ k - 1 \notin Missing
      <4>1. k \in Nat
        BY <2>2
      <4> HIDE DEF Missing
      <4>2. k - 1 \in Nat /\ ~(k <= k - 1)
        BY <2>4, <4>1
      <4> QED
        BY <2>2, <4>2
    <3>2. PICK f : Partial(f, k - 1)
      BY <3>1
    <3> DEFINE g == [n \in 0 .. k |-> IF n = 0 THEN AtCap ELSE Onward(h, f[n - 1])]
    <3>3. \A n \in 0 .. k - 1 : g[n] = f[n]
      BY <3>1, <3>2
    <3>4. \A n \in 0 .. k : n # 0 => g[n - 1] = f[n - 1]
      <4> TAKE n \in 0 .. k
      <4>1. n # 0 => n - 1 \in 0 .. k - 1
        BY <3>1
      <4> HIDE DEF g
      <4> QED
        BY <3>3, <4>1
    <3>5. Partial(g, k)
      BY <3>4
    <3> QED
      BY <2>2, <3>5
  <2> QED
    BY <2>3, <2>4
<1>2. ZoneUnits - 1 \in Nat /\ Addr = 0 .. ZoneUnits - 1
  BY ZoneConstants
<1>3. \E g : Partial(g, ZoneUnits - 1)
  BY <1>1, <1>2
<1>4. \E w : Goes(w, h)
  BY <1>2, <1>3 DEF Goes
<1> QED
  BY <1>4 DEF Ring, Goes, Onward, AtCap

LEMMA RingIsLayout ==
    ASSUME NEW h, NEW B, Layout(h, B)
    PROVE  Ring(h) = Ringed(B)
<1>1. PICK w : Goes(w, h) /\ Ring(h) = w[ZoneUnits - 1].all
  BY RingIs
<1> DEFINE last == ZoneUnits - 1
<1>2. /\ ZoneUnits \in Nat /\ last \in Nat /\ Addr = 0 .. last /\ last \in Addr /\ last # 0
      /\ \A n \in Addr : n \in Nat /\ (n # 0 => n - 1 \in Addr)
  BY ZoneConstants
<1>3. w[0] = AtCap /\ \A n \in Addr : n # 0 => w[n] = Onward(h, w[n - 1])
  <2>1. \A n \in Addr : w[n] = IF n = 0 THEN AtCap ELSE Onward(h, w[n - 1])
    BY <1>1 DEF Goes
  <2> QED
    BY <1>2, <2>1, CapFacts, ZoneConstants
<1>4. /\ w[0].at = Cap /\ w[0].all = {Cap}
      /\ \A n \in Addr : n # 0 => /\ w[n].at = h[w[n - 1].at].next
                                  /\ w[n].all = w[n - 1].all \cup {w[n].at}
  <2>1. w[0].at = Cap /\ w[0].all = {Cap}
    BY <1>3 DEF AtCap
  <2>2. ASSUME NEW n \in Addr, n # 0
        PROVE  w[n].at = h[w[n - 1].at].next /\ w[n].all = w[n - 1].all \cup {w[n].at}
    <3> DEFINE before == w[n - 1]
    <3>1. w[n] = [at |-> h[before.at].next, all |-> before.all \cup {h[before.at].next}]
      BY <1>3, <2>2 DEF Onward
    <3> HIDE DEF before
    <3>2. w[n].at = h[before.at].next /\ w[n].all = before.all \cup {h[before.at].next}
      BY <3>1
    <3> QED
      BY <3>2 DEF before
  <2> QED
    BY <2>1, <2>2
<1> HIDE DEF last
\* Every step stays on the ring.
<1>5. \A n \in Addr : w[n].at \in Ringed(B) /\ w[n].all \subseteq Ringed(B)
  <2> DEFINE Off == {n \in Addr : ~(w[n].at \in Ringed(B) /\ w[n].all \subseteq Ringed(B))}
  <2>1. SUFFICES ASSUME Off # {}
                 PROVE  FALSE
    OBVIOUS
  <2>2. PICK n \in Off : \A m \in Off : n <= m
    <3>1. Off \in SUBSET Nat
      BY <1>2
    <3> HIDE DEF Off
    <3> QED
      BY <2>1, <3>1, LeastOf
  <2>3. n \in Addr /\ n # 0
    BY <1>4, <2>2, CapFacts
  <2>4. n - 1 \in Addr /\ n - 1 \notin Off
    <3>1. n - 1 \in Addr /\ ~(n <= n - 1)
      BY <1>2, <2>3
    <3> HIDE DEF Off
    <3> QED
      BY <2>2, <3>1
  <2>5. w[n - 1].at \in Ringed(B) /\ w[n - 1].all \subseteq Ringed(B)
    BY <2>4
  <2>6. w[n].at \in Ringed(B)
    BY <1>4, <2>3, <2>5 DEF Layout
  <2>7. w[n].all \subseteq Ringed(B)
    BY <1>4, <2>3, <2>5, <2>6
  <2> QED
    BY <2>2, <2>6, <2>7
\* What has been reached stays reached.
<1>6. \A n \in Addr : \A m \in Addr : m <= n => w[m].at \in w[n].all
  <2> DEFINE Lost == {n \in Addr : ~ \A m \in Addr : m <= n => w[m].at \in w[n].all}
  <2>1. SUFFICES ASSUME Lost # {}
                 PROVE  FALSE
    OBVIOUS
  <2>2. PICK n \in Lost : \A m \in Lost : n <= m
    <3>1. Lost \in SUBSET Nat
      BY <1>2
    <3> HIDE DEF Lost
    <3> QED
      BY <2>1, <3>1, LeastOf
  <2>3. PICK m \in Addr : m <= n /\ w[m].at \notin w[n].all
    BY <2>2
  <2>4. n \in Addr /\ n \in Nat /\ m \in Nat
    BY <1>2, <2>2
  <2>5. n # 0
    BY <1>4, <2>3, <2>4
  <2>6. m # n
    BY <1>4, <2>3, <2>4, <2>5
  <2>7. n - 1 \in Addr /\ n - 1 \notin Lost
    <3>1. n - 1 \in Addr /\ ~(n <= n - 1)
      BY <1>2, <2>4, <2>5
    <3> HIDE DEF Lost
    <3> QED
      BY <2>2, <3>1
  <2>8. m <= n - 1
    BY <2>3, <2>4, <2>6
  <2>9. w[m].at \in w[n - 1].all
    BY <2>7, <2>8
  <2> HIDE DEF Lost
  <2> QED
    BY <1>4, <2>3, <2>4, <2>5, <2>9
\* No block is missed.
<1>7. \A a \in B : \E n \in Addr : n <= a /\ w[n].at = a
  <2> DEFINE Missed == {a \in B : ~ \E n \in Addr : n <= a /\ w[n].at = a}
  <2>1. SUFFICES ASSUME Missed # {}
                 PROVE  FALSE
    OBVIOUS
  <2>2. PICK a \in Missed : \A c \in Missed : a <= c
    <3>1. Missed \in SUBSET Nat
      BY LayoutFacts
    <3> HIDE DEF Missed
    <3> QED
      BY <2>1, <3>1, LeastOf
  <2>3. a \in B /\ ~ \E n \in Addr : n <= a /\ w[n].at = a
    BY <2>2
  <2> DEFINE p == h[a].prev
  <2>4. /\ a \in Nat /\ a \in Addr /\ a > 0 /\ p < a /\ p \in Addr /\ p \in Nat /\ h[p].next = a
        /\ p # Cap => p \in B
    BY <1>2, <2>3, LayoutFacts
  <2> HIDE DEF p
  <2>5. \E n \in Addr : n <= p /\ w[n].at = p
    <3>1. CASE p = Cap
      BY <1>2, <1>4, <2>4, <3>1, ZoneConstants
    <3>2. CASE p # Cap
      <4>1. p \in B /\ ~(a <= p)
        BY <2>4, <3>2
      <4>2. p \notin Missed
        <5> HIDE DEF Missed
        <5> QED
          BY <2>2, <4>1
      <4> QED
        BY <4>1, <4>2
    <3> QED
      BY <3>1, <3>2
  <2> HIDE DEF Missed
  <2>6. PICK n \in Addr : n <= p /\ w[n].at = p
    BY <2>5
  <2>7. n + 1 \in Addr /\ (n + 1) - 1 = n /\ n + 1 # 0 /\ n + 1 <= a
    BY <1>2, <2>4, <2>6
  <2>8. w[n + 1].at = a
    BY <1>4, <2>4, <2>6, <2>7
  <2> QED
    BY <2>3, <2>7, <2>8
<1>8. B \subseteq w[last].all
  <2> SUFFICES ASSUME NEW a \in B
               PROVE  a \in w[last].all
    OBVIOUS
  <2>1. PICK n \in Addr : n <= a /\ w[n].at = a
    BY <1>7
  <2>2. n <= last /\ last \in Addr
    BY <1>2, <2>1
  <2> QED
    BY <1>6, <2>1, <2>2
<1>9. Cap \in w[last].all
  <2>1. 0 \in Addr /\ 0 <= last
    BY <1>2
  <2> QED
    BY <1>2, <1>4, <1>6, <2>1
<1> QED
  BY <1>1, <1>2, <1>5, <1>8, <1>9 DEF Ringed, last

-----------------------------------------------------------------------------
(* Z_Free.                                                                 *)

\* A block takes in the one behind it.
LEMMA AbsorbIs ==
    ASSUME NEW h \in [Addr -> Headers], NEW a \in Addr, NEW b \in Addr, NEW j, j = Absorb(h, a, b)
    PROVE  /\ j \in [Addr -> Headers]
           /\ \A c \in Addr :
                /\ j[c].size = IF c = a THEN h[a].size + h[b].size ELSE h[c].size
                /\ j[c].next = IF c = a THEN h[b].next ELSE h[c].next
                /\ j[c].prev = IF c = h[b].next THEN a ELSE h[c].prev
                /\ j[c].user = h[c].user /\ j[c].tag = h[c].tag /\ j[c].data = h[c].data
<1>1. h[b].next \in Addr /\ h[a].size + h[b].size \in Int
  BY DEF Headers
<1> QED
  BY <1>1 DEF Absorb, Headers

LEMMA AbsorbKeepsLayout ==
    ASSUME NEW h, NEW B, Layout(h, B), NEW a \in B, NEW b \in B, b = h[a].next, NEW j, j = Absorb(h, a, b)
    PROVE  Layout(j, B \ {b})
<1> DEFINE m == h[b].next
           C == B \ {b}
<1>1. /\ h \in [Addr -> Headers] /\ Ringed(B) \subseteq Addr /\ Cap \notin B /\ Cap \in Ringed(B) /\ B \subseteq Addr
      /\ B \subseteq Ringed(B)
  BY CapFacts DEF Layout, Ringed
<1>2. /\ j \in [Addr -> Headers]
      /\ \A c \in Addr :
            /\ j[c].size = IF c = a THEN h[a].size + h[b].size ELSE h[c].size
            /\ j[c].next = IF c = a THEN m ELSE h[c].next
            /\ j[c].prev = IF c = m THEN a ELSE h[c].prev
            /\ j[c].user = h[c].user /\ j[c].tag = h[c].tag
  BY <1>1, AbsorbIs
<1>3. /\ a \in Nat /\ b \in Nat /\ a > 0 /\ a < b /\ a + h[a].size = b /\ h[b].prev = a
      /\ h[a].size \in Nat /\ h[b].size \in Nat /\ h[a].size > 0 /\ h[b].size > 0
      /\ m # Cap => m \in B /\ m > b /\ b + h[b].size = m
      /\ m = Cap => b + h[b].size = ZoneUnits
      /\ m \in Ringed(B) /\ h[m].prev = b
  <2>1. b # Cap
    BY <1>1
  <2>2. /\ a \in Nat /\ a > 0 /\ a < b /\ a + h[a].size = b /\ h[b].prev = a
        /\ h[a].size \in Nat /\ h[a].size > 0
    BY <2>1, LayoutFacts
  <2>3. /\ b \in Nat /\ h[b].size \in Nat /\ h[b].size > 0
        /\ m # Cap => m \in B /\ m > b /\ b + h[b].size = m
        /\ m = Cap => b + h[b].size = ZoneUnits
        /\ h[m].prev = b
    BY LayoutFacts
  <2> QED
    BY <2>2, <2>3 DEF Ringed
<1>4. a # b /\ m # a /\ m # b /\ m \in Ringed(C) /\ m \in Addr /\ Ringed(C) \subseteq Ringed(B) /\ C \subseteq B
      /\ Cap \in Ringed(C)
  <2>1. m # a /\ m # b /\ a # b
    BY <1>1, <1>3, ZoneConstants
  <2> QED
    BY <1>1, <1>3, <2>1 DEF Ringed
\* Whoever pointed to b is a, or m.
<1>5. ASSUME NEW c \in Ringed(C)
      PROVE  /\ c # a => h[c].next # b
             /\ c # m => h[c].prev # b
  <2>1. h[h[c].next].prev = c /\ h[h[c].prev].next = c
    BY <1>4 DEF Layout
  <2> QED
    BY <1>3, <2>1
<1> HIDE DEF m, C
<1>6. ASSUME NEW c \in Ringed(C)
      PROVE  /\ j[c].next \in Ringed(C) /\ j[j[c].next].prev = c
             /\ j[c].prev \in Ringed(C) /\ j[j[c].prev].next = c
  <2>1. /\ h[c].next \in Ringed(B) /\ h[h[c].next].prev = c
        /\ h[c].prev \in Ringed(B) /\ h[h[c].prev].next = c /\ c \in Addr
    BY <1>1, <1>4 DEF Layout
  <2>2. a \in Ringed(C)
    BY <1>4 DEF Ringed, C
  <2>3. \A x \in Ringed(B) : x # b => x \in Ringed(C) /\ x \in Addr
    BY <1>1 DEF Ringed, C
  <2>4. j[c].next \in Ringed(C) /\ j[j[c].next].prev = c
    <3>1. CASE c = a
      BY <1>2, <1>4, <2>1, <3>1
    <3>2. CASE c # a
      <4>1. j[c].next = h[c].next /\ h[c].next # b
        BY <1>2, <1>5, <2>1, <3>2
      <4>2. c # b
        BY <1>1 DEF Ringed, C
      <4>3. h[c].next # m
        BY <1>3, <2>1, <4>2
      <4> QED
        BY <1>2, <2>1, <2>3, <4>1, <4>3
    <3> QED
      BY <3>1, <3>2
  <2>5. j[c].prev \in Ringed(C) /\ j[j[c].prev].next = c
    <3>1. CASE c = m
      BY <1>2, <1>4, <2>1, <2>2, <2>3, <3>1
    <3>2. CASE c # m
      <4>1. j[c].prev = h[c].prev /\ h[c].prev # b
        BY <1>2, <1>5, <2>1, <3>2
      <4>2. h[c].prev # a
        <5>1. c # b
          BY <1>3, <1>1 DEF Ringed, C
        <5> QED
          BY <2>1, <5>1
      <4> QED
        BY <1>2, <2>1, <2>3, <4>1, <4>2
    <3> QED
      BY <3>1, <3>2
  <2> QED
    BY <2>4, <2>5
<1>7. ASSUME NEW c \in C
      PROVE  /\ j[c].size > 0
             /\ c + j[c].size = IF j[c].next = Cap THEN ZoneUnits ELSE j[c].next
             /\ \A d \in C : c < d => c + j[c].size <= d
  <2>1. c \in B /\ c # b /\ c \in Addr
    BY <1>1 DEF C
  <2>2. CASE c = a
    <3>1. j[c].size = h[a].size + h[b].size /\ j[c].next = m /\ c + j[c].size = b + h[b].size
      BY <1>2, <1>3, <2>1, <2>2
    <3>2. j[c].size > 0 /\ c + j[c].size = IF j[c].next = Cap THEN ZoneUnits ELSE j[c].next
      BY <1>3, <3>1
    <3>3. ASSUME NEW d \in C, c < d
          PROVE  c + j[c].size <= d
      <4>1. d \in B /\ d # b /\ b <= d /\ d \in Nat
        BY <1>3, <2>2, <3>3, LayoutFacts DEF C, Layout
      <4>2. b < d
        BY <1>3, <4>1
      <4>3. b + h[b].size <= d
        BY <4>1, <4>2 DEF Layout
      <4> QED
        BY <3>1, <4>3
    <3> QED
      BY <3>2, <3>3
  <2>3. CASE c # a
    <3>1. j[c].size = h[c].size /\ j[c].next = h[c].next
      BY <1>2, <2>1, <2>3
    <3> QED
      BY <2>1, <3>1 DEF Layout, C
  <2> QED
    BY <2>2, <2>3
<1>8. C \in SUBSET (1 .. ZoneUnits - 1) /\ First \in C
  <2>1. First # b
    BY <1>3, ZoneConstants
  <2> QED
    BY <2>1 DEF Layout, C
<1>9. j[Cap].user = "zone" /\ j[Cap].tag = PU_STATIC /\ j[Cap].next = First
  <2>1. Cap \in Addr /\ Cap # a
    BY <1>1
  <2> QED
    BY <1>2, <2>1, CapFacts
<1>10. Layout(j, C)
  BY <1>2, <1>6, <1>7, <1>8, <1>9 DEF Layout
<1> QED
  BY <1>10 DEF C

\* The parts of Z_Free.
Marked(h, a) == [h EXCEPT ![a].user = Free, ![a].tag = 0, ![a].data = "none"]
Marking(z, a) == [hdr |-> Marked(z.hdr, a), rover |-> z.rover, slot |-> ClearMark(z, a)]

\* One field of one header changes.
SetUser(h, a, u) == [h EXCEPT ![a].user = u]
SetTag(h, a, t) == [h EXCEPT ![a].tag = t]
SetData(h, a, d) == [h EXCEPT ![a].data = d]
SameLinks(g, h) ==
    \A c \in Addr : g[c].size = h[c].size /\ g[c].next = h[c].next /\ g[c].prev = h[c].prev

LEMMA UserIsSet ==
    ASSUME NEW h \in [Addr -> Headers], NEW a \in Addr, NEW u \in Users, NEW g, g = SetUser(h, a, u)
    PROVE  /\ g \in [Addr -> Headers] /\ SameLinks(g, h)
           /\ \A c \in Addr : /\ g[c].user = IF c = a THEN u ELSE h[c].user
                              /\ g[c].tag = h[c].tag /\ g[c].data = h[c].data
  BY DEF SetUser, Headers, SameLinks

LEMMA TagIsSet ==
    ASSUME NEW h \in [Addr -> Headers], NEW a \in Addr, NEW t \in Int, NEW g, g = SetTag(h, a, t)
    PROVE  /\ g \in [Addr -> Headers] /\ SameLinks(g, h)
           /\ \A c \in Addr : /\ g[c].tag = IF c = a THEN t ELSE h[c].tag
                              /\ g[c].user = h[c].user /\ g[c].data = h[c].data
  BY DEF SetTag, Headers, SameLinks

LEMMA DataIsSet ==
    ASSUME NEW h \in [Addr -> Headers], NEW a \in Addr, NEW d \in Slots \cup {"none", "raw"},
           NEW g, g = SetData(h, a, d)
    PROVE  /\ g \in [Addr -> Headers] /\ SameLinks(g, h)
           /\ \A c \in Addr : /\ g[c].data = IF c = a THEN d ELSE h[c].data
                              /\ g[c].user = h[c].user /\ g[c].tag = h[c].tag
  BY DEF SetData, Headers, SameLinks

LEMMA MarkedIs ==
    ASSUME NEW h \in [Addr -> Headers], NEW a \in Addr, NEW g, g = Marked(h, a)
    PROVE  /\ g \in [Addr -> Headers] /\ SameLinks(g, h)
           /\ \A c \in Addr :
                /\ g[c].user = IF c = a THEN Free ELSE h[c].user
                /\ g[c].tag = IF c = a THEN 0 ELSE h[c].tag
                /\ g[c].data = IF c = a THEN "none" ELSE h[c].data
<1> DEFINE g1 == SetUser(h, a, Free)
           g2 == SetTag(g1, a, 0)
           g3 == SetData(g2, a, "none")
<1>1. g = g3
  BY DEF Marked, SetUser, SetTag, SetData
<1>2. Free \in Users
  BY DEF Users
<1> HIDE DEF g1, g2, g3
<1>3. /\ g1 \in [Addr -> Headers] /\ SameLinks(g1, h)
      /\ \A c \in Addr : /\ g1[c].user = IF c = a THEN Free ELSE h[c].user
                         /\ g1[c].tag = h[c].tag /\ g1[c].data = h[c].data
  BY <1>2, UserIsSet DEF g1
<1>4. /\ g2 \in [Addr -> Headers] /\ SameLinks(g2, g1)
      /\ \A c \in Addr : /\ g2[c].tag = IF c = a THEN 0 ELSE g1[c].tag
                         /\ g2[c].user = g1[c].user /\ g2[c].data = g1[c].data
  BY <1>3, TagIsSet DEF g2
<1>5. /\ g3 \in [Addr -> Headers] /\ SameLinks(g3, g2)
      /\ \A c \in Addr : /\ g3[c].data = IF c = a THEN "none" ELSE g2[c].data
                         /\ g3[c].user = g2[c].user /\ g3[c].tag = g2[c].tag
  BY <1>4, DataIsSet DEF g3
<1> QED
  BY <1>1, <1>3, <1>4, <1>5 DEF SameLinks

LEMMA JoinBeforeIs ==
    ASSUME NEW z, IsZone(z), NEW a, NEW y, y = JoinBefore(z, a), NEW p, p = z.hdr[a].prev
    PROVE  /\ IsZone(y) /\ y.slot = z.slot
           /\ y.hdr = IF IsFree(z.hdr, p) THEN Absorb(z.hdr, p, a) ELSE z.hdr
           /\ y.rover = IF IsFree(z.hdr, p) /\ z.rover = a THEN p ELSE z.rover
<1>1. CASE IsFree(z.hdr, p)
  <2>1. y = [hdr |-> Absorb(z.hdr, p, a), rover |-> IF z.rover = a THEN p ELSE z.rover, slot |-> z.slot]
    BY <1>1 DEF JoinBefore, IsZone
  <2> QED
    BY <1>1, <2>1 DEF IsZone
<1>2. CASE ~IsFree(z.hdr, p)
  BY <1>2 DEF JoinBefore
<1> QED
  BY <1>1, <1>2

LEMMA JoinBehindIs ==
    ASSUME NEW z, IsZone(z), NEW a, NEW y, y = JoinBehind(z, a), NEW n, n = z.hdr[a].next
    PROVE  /\ IsZone(y) /\ y.slot = z.slot
           /\ y.hdr = IF IsFree(z.hdr, n) THEN Absorb(z.hdr, a, n) ELSE z.hdr
           /\ y.rover = IF IsFree(z.hdr, n) /\ z.rover = n THEN a ELSE z.rover
<1>1. CASE IsFree(z.hdr, n)
  <2>1. y = [hdr |-> Absorb(z.hdr, a, n), rover |-> IF z.rover = n THEN a ELSE z.rover, slot |-> z.slot]
    BY <1>1 DEF JoinBehind, IsZone
  <2> QED
    BY <1>1, <2>1 DEF IsZone
<1>2. CASE ~IsFree(z.hdr, n)
  BY <1>2 DEF JoinBehind
<1> QED
  BY <1>1, <1>2

Renewed(z, s, h) == [z EXCEPT !.slot = s, !.hdr = h]

LEMMA RenewedIs ==
    ASSUME NEW z, IsZone(z), NEW s, NEW h, NEW y, y = Renewed(z, s, h)
    PROVE  y = [hdr |-> h, rover |-> z.rover, slot |-> s]
  BY DEF Renewed, IsZone

LEMMA Z_FreeIs ==
    ASSUME NEW z, IsZone(z), NEW a
    PROVE  Z_Free(z, a) = JoinBehind(JoinBefore(Marking(z, a), a),
                                     IF IsFree(z.hdr, z.hdr[a].prev) THEN z.hdr[a].prev ELSE a)
<1> DEFINE marked == [z EXCEPT !.slot = UserMark(z, a),
                               !.hdr = [@ EXCEPT ![a].user = Free, ![a].tag = 0, ![a].data = "none"]]
<1>1. marked = Renewed(z, ClearMark(z, a), Marked(z.hdr, a))
  BY DEF Marked, Renewed, UserMark
<1>2. marked = Marking(z, a)
  <2> HIDE DEF marked
  <2> QED
    BY <1>1, RenewedIs DEF Marking
<1> QED
  BY <1>1, <1>2 DEF Z_Free

LEMMA TakenIn ==
    ASSUME NEW h \in [Addr -> Headers], NEW B, Layout(h, B), NEW a \in B, NEW b \in B, b = h[a].next,
           NEW j, j = Absorb(h, a, b)
    PROVE  /\ j \in [Addr -> Headers] /\ Layout(j, B \ {b}) /\ j[a].prev = h[a].prev
           /\ \A c \in Addr :
                /\ j[c].next = IF c = a THEN h[b].next ELSE h[c].next
                /\ j[c].user = h[c].user /\ j[c].tag = h[c].tag /\ j[c].data = h[c].data
<1>2. a \in Nat /\ b \in Nat /\ a \in Addr /\ b \in Addr /\ a < b /\ a # Cap /\ h[b].next # a
  <2>1. a \in Nat /\ b \in Nat /\ a \in Addr /\ b \in Addr /\ a # Cap /\ b # Cap
    BY LayoutFacts
  <2>2. a < b
    BY <2>1, LayoutFacts
  <2>3. h[b].next # Cap => h[b].next > b
    BY LayoutFacts
  <2> QED
    BY <2>1, <2>2, <2>3
<1>3. Layout(j, B \ {b})
  BY AbsorbKeepsLayout
<1>4. /\ j \in [Addr -> Headers]
      /\ \A c \in Addr :
            /\ j[c].next = IF c = a THEN h[b].next ELSE h[c].next
            /\ j[c].prev = IF c = h[b].next THEN a ELSE h[c].prev
            /\ j[c].user = h[c].user /\ j[c].tag = h[c].tag /\ j[c].data = h[c].data
  BY <1>2, AbsorbIs
<1> QED
  BY <1>2, <1>3, <1>4

\* Z_Free: the block freed becomes part of At, Behind is what follows that.
At(h, a) == IF IsFree(h, h[a].prev) THEN h[a].prev ELSE a
Behind(h, a) == IF IsFree(h, h[a].next) THEN h[h[a].next].next ELSE h[a].next
StillThere(h, B, a) ==
    {c \in B : c = At(h, a) \/ (c # a /\ ~(c = h[a].next /\ IsFree(h, c)))}

Joins(h, a) == IF IsFree(h, h[a].prev) THEN Absorb(Marked(h, a), h[a].prev, a) ELSE Marked(h, a)
Freed(h, a) ==
    IF IsFree(h, h[a].next) THEN Absorb(Joins(h, a), At(h, a), h[a].next) ELSE Joins(h, a)

LEMMA FreedIs ==
    ASSUME NEW h \in [Addr -> Headers], NEW B, Layout(h, B), NEW a \in B, ~IsFree(h, a)
    PROVE  LET f == At(h, a)
               C == StillThere(h, B, a)
               j == Freed(h, a)
           IN  /\ j \in [Addr -> Headers] /\ Layout(j, C) /\ f \in C /\ j[f].prev = h[f].prev
               /\ \A c \in Addr : /\ j[c].next = IF c = f THEN Behind(h, a) ELSE h[c].next
                                  /\ j[c].user = IF c = a THEN Free ELSE h[c].user
                                  /\ c # a => j[c].tag = h[c].tag /\ j[c].data = h[c].data
               /\ \A c \in Addr : /\ Joins(h, a)[c].next = IF c = f THEN h[a].next ELSE h[c].next
                                  /\ Joins(h, a)[c].user = IF c = a THEN Free ELSE h[c].user
<1> DEFINE p == h[a].prev
           n == h[a].next
           f == At(h, a)
           m == Behind(h, a)
           C == StillThere(h, B, a)
           g == Marked(h, a)
           k == IF IsFree(h, p) THEN Absorb(g, p, a) ELSE g
           D == IF IsFree(h, p) THEN B \ {a} ELSE B
           j == IF IsFree(h, n) THEN Absorb(k, f, n) ELSE k
<1>0. k = Joins(h, a) /\ j = Freed(h, a)
  BY DEF Joins, Freed
<1>1. /\ h \in [Addr -> Headers] /\ B \subseteq Addr /\ Cap \notin B /\ ~IsFree(h, Cap) /\ Cap \in Addr
      /\ Ringed(B) \subseteq Addr
  <2>1. h \in [Addr -> Headers]
    BY DEF Layout
  <2> QED
    BY <2>1, CapFacts
<1>2. /\ a \in Nat /\ a \in Addr /\ a # Cap /\ p \in Addr /\ n \in Addr /\ p < a /\ p \in Nat /\ n # a /\ p # a
      /\ IsFree(h, p) => p \in B /\ p # n
      /\ IsFree(h, n) => n \in B
      /\ p # Cap => p \in B
      /\ n # Cap => n \in B /\ n > a
      /\ h[p].next = a /\ h[n].prev = a /\ p \in Ringed(B) /\ n \in Ringed(B)
  <2>1. /\ a \in Nat /\ a \in Addr /\ a # Cap /\ a > 0 /\ p \in Addr /\ n \in Addr /\ p < a
        /\ p # Cap => p \in B
        /\ n # Cap => n \in B /\ n > a
        /\ h[p].next = a /\ h[n].prev = a
    BY LayoutFacts
  <2>2. p \in Nat /\ n \in Nat
    BY <2>1, ZoneConstants
  <2>3. IsFree(h, p) => p # Cap /\ p # n
    BY <1>1, <2>1, <2>2
  <2>4. IsFree(h, n) => n # Cap
    BY <1>1
  <2> QED
    BY <2>1, <2>2, <2>3, <2>4 DEF Ringed
<1>20. /\ f = IF IsFree(h, p) THEN p ELSE a
       /\ p = h[a].prev /\ n = h[a].next
       /\ m = IF IsFree(h, n) THEN h[n].next ELSE n
       /\ C = {c \in B : c = f \/ (c # a /\ ~(c = n /\ IsFree(h, c)))}
  BY DEF At, Behind, StillThere
<1> HIDE DEF p, n, f, m, C
\* The block is marked free.
<1>3. /\ g \in [Addr -> Headers] /\ SameLinks(g, h) /\ Layout(g, B)
      /\ \A c \in Addr : /\ g[c].user = IF c = a THEN Free ELSE h[c].user
                         /\ c # a => g[c].tag = h[c].tag /\ g[c].data = h[c].data
  <2>1. /\ g \in [Addr -> Headers] /\ SameLinks(g, h)
        /\ \A c \in Addr : /\ g[c].user = IF c = a THEN Free ELSE h[c].user
                           /\ c # a => g[c].tag = h[c].tag /\ g[c].data = h[c].data
    BY <1>1, <1>2, MarkedIs
  <2> HIDE DEF g
  <2>2. \A c \in Ringed(B) : g[c].size = h[c].size /\ g[c].next = h[c].next /\ g[c].prev = h[c].prev
    BY <1>1, <2>1 DEF SameLinks
  <2>3. g[Cap].user = h[Cap].user /\ g[Cap].tag = h[Cap].tag
    BY <1>1, <1>2, <2>1
  <2>4. Layout(g, B)
    BY <2>1, <2>2, <2>3, LinksKept
  <2> QED
    BY <2>1, <2>4
<1> HIDE DEF g
<1>4. /\ \A c \in Addr : g[c].size = h[c].size /\ g[c].next = h[c].next /\ g[c].prev = h[c].prev
      /\ g[p].next = a /\ g[a].next = n
      /\ IsFree(g, p) <=> IsFree(h, p)
  <2>1. \A c \in Addr : g[c].size = h[c].size /\ g[c].next = h[c].next /\ g[c].prev = h[c].prev
    BY <1>3 DEF SameLinks
  <2> QED
    BY <1>2, <1>20, <1>3, <2>1 DEF IsFree
\* It joins the block before it.
<1>5. /\ k \in [Addr -> Headers] /\ Layout(k, D) /\ f \in D /\ f \in Addr /\ f # n
      /\ \A c \in Addr : /\ k[c].next = IF c = f THEN n ELSE h[c].next
                         /\ k[c].user = g[c].user /\ k[c].tag = g[c].tag /\ k[c].data = g[c].data
      /\ k[f].prev = h[f].prev
  <2>1. CASE IsFree(h, p)
    <3>1. k = Absorb(g, p, a) /\ D = B \ {a} /\ f = p /\ p \in B /\ p # n
      BY <1>2, <1>20, <2>1
    <3> HIDE DEF k, D
    <3>2. a = g[p].next /\ g[a].next = n /\ g[p].prev = h[p].prev
      BY <1>2, <1>4, <3>1
    <3>3. /\ k \in [Addr -> Headers] /\ Layout(k, D) /\ k[p].prev = g[p].prev
          /\ \A c \in Addr : /\ k[c].next = IF c = p THEN g[a].next ELSE g[c].next
                             /\ k[c].user = g[c].user /\ k[c].tag = g[c].tag /\ k[c].data = g[c].data
      <4>1. k = Absorb(g, p, a) /\ a \in B
        BY <3>1
      <4>2. p \in B /\ a = g[p].next
        BY <3>1, <3>2
      <4>3. Layout(g, B) /\ g \in [Addr -> Headers]
        BY <1>3
      <4>4. D = B \ {a}
        BY <3>1
      <4> QED
        BY <4>1, <4>2, <4>3, <4>4, TakenIn
    <3>4. f \in D /\ f \in Addr /\ f # n
      BY <1>2, <3>1
    <3> QED
      BY <1>4, <3>1, <3>2, <3>3, <3>4
  <2>2. CASE ~IsFree(h, p)
    BY <1>2, <1>3, <1>4, <1>20, <2>2
  <2> QED
    BY <2>1, <2>2
<1>7. IsFree(k, n) <=> IsFree(h, n)
  BY <1>2, <1>3, <1>5 DEF IsFree
<1> HIDE DEF k
\* It takes in the block behind it.
<1>6. /\ j \in [Addr -> Headers] /\ Layout(j, C) /\ f \in C
       /\ \A c \in Addr : /\ j[c].next = IF c = f THEN m ELSE h[c].next
                          /\ j[c].user = g[c].user /\ j[c].tag = g[c].tag /\ j[c].data = g[c].data
       /\ j[f].prev = h[f].prev
  <2>1. CASE IsFree(h, n)
    <3>1. j = Absorb(k, f, n) /\ C = D \ {n} /\ n \in D /\ m = h[n].next
      BY <1>2, <1>5, <1>20, <2>1
    <3>2. n = k[f].next /\ k[n].next = m /\ f \in D
      BY <1>2, <1>5, <3>1
    <3> HIDE DEF j, D
    <3>3. Layout(k, D) /\ k \in [Addr -> Headers]
      BY <1>5
    <3>4. /\ j \in [Addr -> Headers] /\ Layout(j, D \ {n}) /\ j[f].prev = k[f].prev
          /\ \A c \in Addr : /\ j[c].next = IF c = f THEN k[n].next ELSE k[c].next
                             /\ j[c].user = k[c].user /\ j[c].tag = k[c].tag /\ j[c].data = k[c].data
      BY <3>1, <3>2, <3>3, TakenIn
    <3>5. f \in C
      BY <1>5, <3>1, <3>2
    <3> QED
      BY <1>5, <3>1, <3>2, <3>4, <3>5
  <2>2. CASE ~IsFree(h, n)
    <3>1. C = D /\ m = n /\ j = k
      BY <1>2, <1>5, <1>20, <2>2
    <3> QED
      BY <1>5, <3>1
  <2> QED
    BY <2>1, <2>2
<1> HIDE DEF j, D
<1> QED
  BY <1>0, <1>3, <1>5, <1>6 DEF f, m, C, n

LEMMA UsedStay ==
    ASSUME NEW h, NEW B, NEW a
    PROVE  /\ StillThere(h, B, a) \subseteq B
           /\ \A c \in B : c # a /\ ~IsFree(h, c) => c \in StillThere(h, B, a)
  BY DEF StillThere

LEMMA Names ==
    /\ Free # Unowned /\ Free \notin Slots /\ Unowned \notin Slots /\ Texture \in Slots /\ Lumps \subseteq Slots
    /\ Free # "zone" /\ Texture \notin Lumps
  BY SlotsAssumption, ZoneAssumption DEF Free, Unowned, Slots

LEMMA FreedIsParted ==
    ASSUME NEW h \in [Addr -> Headers], NEW B, Layout(h, B), Parted(h, B), NEW a \in B, ~IsFree(h, a)
    PROVE  Parted(Freed(h, a), StillThere(h, B, a))
<1> DEFINE f == At(h, a)
           C == StillThere(h, B, a)
           j == Freed(h, a)
           p == h[a].prev
           n == h[a].next
           m == Behind(h, a)
<1>1. /\ j \in [Addr -> Headers] /\ Layout(j, C) /\ f \in C /\ j[f].prev = h[f].prev
      /\ \A c \in Addr : /\ j[c].next = IF c = f THEN m ELSE h[c].next
                         /\ j[c].user = IF c = a THEN Free ELSE h[c].user
  BY FreedIs
<1>2. /\ B \subseteq Addr /\ ~IsFree(h, Cap) /\ Cap \in Addr /\ Cap \notin B /\ C \subseteq B
      /\ \A c \in C : c # a \/ f = a
  <2>1. C \subseteq B /\ \A c \in C : c # a \/ f = a
    BY DEF StillThere
  <2> QED
    BY <2>1, CapFacts
<1>3. \A c \in Addr : c # a => (IsFree(j, c) <=> IsFree(h, c))
  BY <1>1 DEF IsFree
<1>4. \A c \in B : /\ c \in Addr /\ h[c].next \in Addr /\ h[c].prev \in Addr
                   /\ h[h[c].prev].next = c /\ h[c].prev < c
                   /\ h[c].prev # Cap => h[c].prev \in B
                   /\ h[c].next # Cap => h[c].next \in B /\ h[c].next > c
  BY LayoutFacts
<1>5. \A c \in B : ~(IsFree(h, c) /\ IsFree(h, h[c].next))
  BY DEF Parted
\* Neither the block before f nor the one behind it is free.
<1>6. ~IsFree(j, h[f].prev)
  <2>1. f \in B /\ (f = a \/ f = p)
    BY <1>1, <1>2 DEF At
  <2>2. h[f].prev # a
    <3>1. h[f].prev < f /\ h[a].prev < a /\ a \in Nat /\ f \in Nat
      BY <1>2, <1>4, <2>1, ZoneConstants
    <3> QED
      BY <2>1, <3>1
  <2>3. ~IsFree(h, h[f].prev)
    <3>1. CASE f = a
      BY <3>1 DEF At
    <3>2. CASE f = p /\ f # a
      <4>1. IsFree(h, f)
        BY <3>2 DEF At
      <4> QED
        BY <1>2, <1>4, <1>5, <2>1, <4>1
    <3> QED
      BY <2>1, <3>1, <3>2
  <2> QED
    BY <1>3, <1>4, <2>1, <2>2, <2>3
<1>7. ~IsFree(j, m)
  <2>1. ~IsFree(h, m) /\ m \in Addr /\ m # a
    <3>1. CASE IsFree(h, n)
      <4>1. m = h[n].next /\ n \in B
        BY <1>2, <1>4, <3>1 DEF Behind
      <4>2. m \in Addr /\ ~IsFree(h, m) /\ (m = Cap \/ m > n) /\ n > a
        BY <1>2, <1>4, <1>5, <3>1, <4>1
      <4>3. a \in Nat /\ n \in Nat /\ m \in Nat /\ a # Cap
        BY <1>2, <1>4, <4>1, <4>2, ZoneConstants
      <4> QED
        BY <4>2, <4>3
    <3>2. CASE ~IsFree(h, n)
      <4>1. m = n
        BY <3>2 DEF Behind
      <4>2. n # a /\ n \in Addr
        <5>1. n = Cap \/ n > a
          BY <1>4
        <5>2. a \in Nat /\ n \in Nat /\ a # Cap
          BY <1>2, <1>4, ZoneConstants
        <5> QED
          BY <1>4, <5>1, <5>2
      <4> QED
        BY <3>2, <4>1, <4>2
    <3> QED
      BY <3>1, <3>2
  <2> QED
    BY <1>3, <2>1
<1> HIDE DEF f, C, j, m, n, p
<1>8. ASSUME NEW c \in C, IsFree(j, c), IsFree(j, j[c].next)
      PROVE  FALSE
  <2>1. c \in B /\ c \in Addr
    BY <1>2
  <2>2. CASE c = f
    BY <1>1, <1>7, <1>8, <2>1, <2>2
  <2>3. CASE c # f /\ j[c].next = f
    <3>1. j[j[c].next].prev = c
      BY <1>1, LayoutFacts
    <3> QED
      BY <1>1, <1>6, <1>8, <2>3, <3>1
  <2>4. CASE c # f /\ j[c].next # f
    <3>1. c # a /\ j[c].next = h[c].next /\ h[c].next \in Addr
      BY <1>1, <1>2, <1>4, <2>1, <2>4
    <3>2. j[c].next # a
      <4>1. j[c].next = Cap \/ j[c].next \in C
        BY <1>1, LayoutFacts
      <4> QED
        BY <1>2, <2>4, <4>1
    <3> QED
      BY <1>3, <1>5, <1>8, <2>1, <3>1, <3>2
  <2> QED
    BY <2>2, <2>3, <2>4
<1> QED
  BY <1>8 DEF Parted, C, j

LEMMA FreedIsOwned ==
    ASSUME NEW h \in [Addr -> Headers], NEW B, Layout(h, B), NEW a \in B, ~IsFree(h, a),
           NEW slot, NEW d, d # a, Owned(h, B, slot, d),
           NEW t, t = IF h[a].user \in Slots THEN [slot EXCEPT ![h[a].user] = NoBlock] ELSE slot
    PROVE  Owned(Freed(h, a), StillThere(h, B, a), t, d)
<1> DEFINE C == StillThere(h, B, a)
           j == Freed(h, a)
<1>1. \A c \in Addr : /\ j[c].user = IF c = a THEN Free ELSE h[c].user
                      /\ c # a => j[c].tag = h[c].tag /\ j[c].data = h[c].data
  BY FreedIs
<1>2. /\ B \subseteq Addr /\ C \subseteq B /\ NoBlock \notin Addr
      /\ \A c \in B : c # a /\ ~IsFree(h, c) => c \in C
  BY UsedStay, CapFacts, ZoneConstants
<1>3. /\ slot \in [Slots -> Addr \cup {NoBlock}]
      /\ \A s \in Slots : slot[s] # NoBlock =>
            /\ slot[s] \in B /\ h[slot[s]].user = s
            /\ h[slot[s]].data = IF d = slot[s] THEN "raw" ELSE s
      /\ \A c \in B : /\ h[c].user \in Slots => slot[h[c].user] = c
                      /\ h[c].user = Unowned => h[c].tag = PU_LEVEL
      /\ d # NoBlock => slot[Texture] = d /\ h[d].tag = PU_STATIC
  BY DEF Owned
<1> HIDE DEF C, j
<1>4. /\ t \in [Slots -> Addr \cup {NoBlock}]
      /\ \A s \in Slots : t[s] = IF s = h[a].user THEN NoBlock ELSE slot[s]
  BY <1>3
<1>5. \A s \in Slots : t[s] # NoBlock => t[s] = slot[s] /\ slot[s] # a
  BY <1>3, <1>4
<1>6. ASSUME NEW s \in Slots, t[s] # NoBlock
      PROVE  /\ t[s] \in C /\ j[t[s]].user = s
             /\ j[t[s]].data = IF d = t[s] THEN "raw" ELSE s
  <2>1. t[s] = slot[s] /\ slot[s] # a /\ slot[s] \in B /\ h[slot[s]].user = s
    BY <1>3, <1>5, <1>6
  <2>2. ~IsFree(h, slot[s])
    BY <2>1, Names DEF IsFree
  <2> QED
    BY <1>1, <1>2, <1>3, <1>6, <2>1, <2>2
<1>7. ASSUME NEW c \in C
      PROVE  /\ j[c].user \in Slots => t[j[c].user] = c
             /\ j[c].user = Unowned => j[c].tag = PU_LEVEL
  <2>1. c \in B /\ c \in Addr
    BY <1>2
  <2>2. CASE c = a
    BY <1>1, <2>1, <2>2, Names
  <2>3. CASE c # a
    <3>1. j[c].user = h[c].user /\ j[c].tag = h[c].tag
      BY <1>1, <2>1, <2>3
    <3>2. h[c].user \in Slots => h[c].user # h[a].user
      BY <1>3, <2>1, <2>3
    <3> QED
      BY <1>3, <1>4, <2>1, <3>1, <3>2
  <2> QED
    BY <2>2, <2>3
<1>8. d # NoBlock => t[Texture] = d /\ j[d].tag = PU_STATIC
  <2> SUFFICES ASSUME d # NoBlock
               PROVE  t[Texture] = d /\ j[d].tag = PU_STATIC
    OBVIOUS
  <2>1. slot[Texture] = d /\ d \in B /\ h[d].tag = PU_STATIC /\ Texture \in Slots
    BY <1>3, Names
  <2>2. Texture # h[a].user
    BY <1>3, <2>1
  <2> QED
    BY <1>1, <1>2, <1>4, <2>1, <2>2
<1> QED
  BY <1>4, <1>6, <1>7, <1>8 DEF Owned, C, j

LEMMA FreedOfLevel ==
    ASSUME NEW h \in [Addr -> Headers], NEW B, Layout(h, B), NEW a \in B, ~IsFree(h, a),
           NEW l, LevelHas(h, B, l)
    PROVE  LevelHas(Freed(h, a), StillThere(h, B, a), l \ {a})
<1> DEFINE C == StillThere(h, B, a)
           j == Freed(h, a)
<1>1. \A c \in Addr : j[c].user = IF c = a THEN Free ELSE h[c].user
  BY FreedIs
<1>2. /\ B \subseteq Addr /\ C \subseteq B
      /\ \A c \in B : c # a /\ ~IsFree(h, c) => c \in C
  BY UsedStay, CapFacts
<1> HIDE DEF C, j
<1>3. \A c \in B : h[c].user = Unowned => ~IsFree(h, c)
  BY Names DEF IsFree
<1>4. {c \in C : j[c].user = Unowned} = {c \in B : h[c].user = Unowned} \ {a}
  BY <1>1, <1>2, <1>3, Names
<1> QED
  BY <1>4 DEF LevelHas, C, j

-----------------------------------------------------------------------------
(* A block is split off.                                                   *)

\* A block is cut in two.
SetPrevOf(h, a, p) == [h EXCEPT ![a].prev = p]
SetHeader(h, a, e) == [h EXCEPT ![a] = e]
SetNextOf(h, a, n) == [h EXCEPT ![a].next = n]
SetSizeOf(h, a, u) == [h EXCEPT ![a].size = u]
Remainder(h, a, u) == Block(h[a].size - u, Free, 0, h[a].next, a)
Cut(h, a, u) ==
    SetSizeOf(SetNextOf(SetHeader(SetPrevOf(h, h[a].next, a + u), a + u, Remainder(h, a, u)), a, a + u), a, u)

LEMMA PrevIsSet ==
    ASSUME NEW h \in [Addr -> Headers], NEW a \in Addr, NEW p \in Addr, NEW g, g = SetPrevOf(h, a, p)
    PROVE  /\ g \in [Addr -> Headers]
           /\ \A c \in Addr : /\ g[c].prev = IF c = a THEN p ELSE h[c].prev
                              /\ g[c].size = h[c].size /\ g[c].next = h[c].next
                              /\ g[c].user = h[c].user /\ g[c].tag = h[c].tag /\ g[c].data = h[c].data
  BY DEF SetPrevOf, Headers

LEMMA NextIsSet ==
    ASSUME NEW h \in [Addr -> Headers], NEW a \in Addr, NEW n \in Addr, NEW g, g = SetNextOf(h, a, n)
    PROVE  /\ g \in [Addr -> Headers]
           /\ \A c \in Addr : /\ g[c].next = IF c = a THEN n ELSE h[c].next
                              /\ g[c].size = h[c].size /\ g[c].prev = h[c].prev
                              /\ g[c].user = h[c].user /\ g[c].tag = h[c].tag /\ g[c].data = h[c].data
  BY DEF SetNextOf, Headers

LEMMA SizeIsSet ==
    ASSUME NEW h \in [Addr -> Headers], NEW a \in Addr, NEW u \in Int, NEW g, g = SetSizeOf(h, a, u)
    PROVE  /\ g \in [Addr -> Headers]
           /\ \A c \in Addr : /\ g[c].size = IF c = a THEN u ELSE h[c].size
                              /\ g[c].next = h[c].next /\ g[c].prev = h[c].prev
                              /\ g[c].user = h[c].user /\ g[c].tag = h[c].tag /\ g[c].data = h[c].data
  BY DEF SetSizeOf, Headers

LEMMA HeaderIsSet ==
    ASSUME NEW h \in [Addr -> Headers], NEW a \in Addr, NEW e \in Headers, NEW g, g = SetHeader(h, a, e)
    PROVE  g \in [Addr -> Headers] /\ \A c \in Addr : g[c] = IF c = a THEN e ELSE h[c]
  BY DEF SetHeader

LEMMA CutIs ==
    ASSUME NEW h \in [Addr -> Headers], NEW a \in Addr, NEW u \in Int, a + u \in Addr
    PROVE  LET b == a + u
               s == Cut(h, a, u)
           IN  /\ s \in [Addr -> Headers]
               /\ \A c \in Addr :
                    /\ s[c].size = IF c = a THEN u ELSE IF c = b THEN h[a].size - u ELSE h[c].size
                    /\ s[c].next = IF c = a THEN b ELSE IF c = b THEN h[a].next ELSE h[c].next
                    /\ s[c].prev = IF c = b THEN a ELSE IF c = h[a].next THEN b ELSE h[c].prev
                    /\ s[c].user = IF c = b THEN Free ELSE h[c].user
                    /\ s[c].tag = IF c = b THEN 0 ELSE h[c].tag
                    /\ s[c].data = IF c = b THEN "none" ELSE h[c].data
<1> DEFINE b == a + u
           n == h[a].next
           new == Remainder(h, a, u)
           h1 == SetPrevOf(h, n, b)
           h2 == SetHeader(h1, b, new)
           h3 == SetNextOf(h2, a, b)
           h4 == SetSizeOf(h3, a, u)
<1>1. n \in Addr /\ b \in Addr /\ h[a].size - u \in Int
  BY DEF Headers
<1>2. /\ new \in Headers /\ new.size = h[a].size - u /\ new.next = n /\ new.prev = a
      /\ new.user = Free /\ new.tag = 0 /\ new.data = "none"
  BY <1>1 DEF Remainder, Block, Headers, Users
<1>3. h4 = Cut(h, a, u)
  BY DEF Cut
<1> HIDE DEF new, n, b
<1>4. /\ h1 \in [Addr -> Headers]
      /\ \A c \in Addr : /\ h1[c].prev = IF c = n THEN b ELSE h[c].prev
                         /\ h1[c].size = h[c].size /\ h1[c].next = h[c].next
                         /\ h1[c].user = h[c].user /\ h1[c].tag = h[c].tag /\ h1[c].data = h[c].data
  BY <1>1, PrevIsSet
<1> HIDE DEF h1
<1>5. h2 \in [Addr -> Headers] /\ \A c \in Addr : h2[c] = IF c = b THEN new ELSE h1[c]
  <2>1. b \in Addr /\ new \in Headers /\ h1 \in [Addr -> Headers]
    BY <1>1, <1>2, <1>4
  <2>2. h2 = SetHeader(h1, b, new)
    OBVIOUS
  <2> HIDE DEF h2
  <2> QED
    BY <2>1, <2>2 DEF SetHeader
<1> HIDE DEF h2
<1>6. /\ h3 \in [Addr -> Headers]
      /\ \A c \in Addr : /\ h3[c].next = IF c = a THEN b ELSE h2[c].next
                         /\ h3[c].size = h2[c].size /\ h3[c].prev = h2[c].prev
                         /\ h3[c].user = h2[c].user /\ h3[c].tag = h2[c].tag /\ h3[c].data = h2[c].data
  BY <1>1, <1>5, NextIsSet
<1> HIDE DEF h3
<1>7. /\ h4 \in [Addr -> Headers]
      /\ \A c \in Addr : /\ h4[c].size = IF c = a THEN u ELSE h3[c].size
                         /\ h4[c].next = h3[c].next /\ h4[c].prev = h3[c].prev
                         /\ h4[c].user = h3[c].user /\ h4[c].tag = h3[c].tag /\ h4[c].data = h3[c].data
  BY <1>1, <1>6, SizeIsSet
<1> HIDE DEF h4
<1>8. \A c \in Addr : /\ h2[c].size = IF c = b THEN h[a].size - u ELSE h[c].size
                      /\ h2[c].next = IF c = b THEN n ELSE h[c].next
                      /\ h2[c].prev = IF c = b THEN a ELSE IF c = n THEN b ELSE h[c].prev
                      /\ h2[c].user = IF c = b THEN Free ELSE h[c].user
                      /\ h2[c].tag = IF c = b THEN 0 ELSE h[c].tag
                      /\ h2[c].data = IF c = b THEN "none" ELSE h[c].data
  BY <1>2, <1>4, <1>5
<1> QED
  BY <1>3, <1>6, <1>7, <1>8 DEF b, n

LEMMA SplitIsCut ==
    ASSUME NEW h \in [Addr -> Headers], NEW a \in Addr, NEW u \in Int
    PROVE  SplitBlock(h, a, u) = IF h[a].size - u <= MINFRAGMENT THEN h ELSE Cut(h, a, u)
  BY DEF SplitBlock, Cut, SetPrevOf, SetNextOf, SetSizeOf, SetHeader, Remainder

LEMMA CutKeepsLayout ==
    ASSUME NEW h \in [Addr -> Headers], NEW B, Layout(h, B), NEW a \in B, NEW u \in Nat \ {0}, h[a].size - u > 0,
           NEW b, b = a + u, NEW s, s = Cut(h, a, u)
    PROVE  Layout(s, B \cup {b}) /\ b \in Addr /\ b \notin B /\ b # Cap
<1> DEFINE n == h[a].next
           C == B \cup {b}
<1>1. /\ a \in Nat /\ a \in Addr /\ a # Cap /\ a < ZoneUnits /\ ZoneUnits \in Nat
      /\ h[a].size \in Nat /\ a + h[a].size <= ZoneUnits /\ n \in Addr
      /\ n # Cap => n \in B /\ n > a /\ a + h[a].size = n
      /\ n = Cap => a + h[a].size = ZoneUnits
      /\ h[n].prev = a /\ h[h[a].prev].next = a
  BY LayoutFacts, ZoneConstants
<1>2. /\ b \in Nat /\ a < b /\ b < a + h[a].size /\ b < ZoneUnits /\ b > 0
  BY <1>1
<1>3. b \in Addr /\ b # Cap /\ b \in 1 .. ZoneUnits - 1 /\ Cap = 0 /\ n # b
  BY <1>1, <1>2, ZoneConstants
<1>4. /\ Cap \in Addr /\ Cap \notin B /\ B \subseteq Addr /\ Ringed(B) \subseteq Addr
      /\ h[Cap].user = "zone" /\ h[Cap].tag = PU_STATIC /\ h[Cap].next = First
  BY CapFacts
<1>5. b \notin B
  <2> SUFFICES ASSUME b \in B
               PROVE  FALSE
    OBVIOUS
  <2>1. a + h[a].size <= b
    BY <1>2 DEF Layout
  <2> QED
    BY <1>1, <1>2, <2>1
<1>6. /\ s \in [Addr -> Headers]
      /\ \A c \in Addr :
            /\ s[c].size = IF c = a THEN u ELSE IF c = b THEN h[a].size - u ELSE h[c].size
            /\ s[c].next = IF c = a THEN b ELSE IF c = b THEN n ELSE h[c].next
            /\ s[c].prev = IF c = b THEN a ELSE IF c = n THEN b ELSE h[c].prev
            /\ s[c].user = IF c = b THEN Free ELSE h[c].user
            /\ s[c].tag = IF c = b THEN 0 ELSE h[c].tag
  BY <1>1, <1>3, CutIs
<1> HIDE DEF n, C
<1>7. ASSUME NEW c \in Ringed(C)
      PROVE  /\ s[c].next \in Ringed(C) /\ s[s[c].next].prev = c
             /\ s[c].prev \in Ringed(C) /\ s[s[c].prev].next = c
  <2>1. /\ a \in Ringed(C) /\ b \in Ringed(C) /\ n \in Ringed(C) /\ a # b
        /\ \A x \in Ringed(B) : x \in Ringed(C) /\ x \in Addr /\ x # b
    BY <1>1, <1>2, <1>3, <1>4, <1>5 DEF Ringed, C
  <2>2. CASE c = b
    BY <1>1, <1>3, <1>6, <2>1, <2>2
  <2>3. CASE c # b
    <3>1. /\ c \in Ringed(B) /\ h[c].next \in Ringed(B) /\ h[h[c].next].prev = c
          /\ h[c].prev \in Ringed(B) /\ h[h[c].prev].next = c
      BY <2>3 DEF Ringed, C, Layout
    <3>2. s[c].next \in Ringed(C) /\ s[s[c].next].prev = c
      <4>1. CASE c = a
        BY <1>1, <1>3, <1>6, <2>1, <4>1
      <4>2. CASE c # a
        <5>1. s[c].next = h[c].next /\ h[c].next # n
          BY <1>1, <1>6, <2>1, <2>3, <3>1, <4>2
        <5> QED
          BY <1>6, <2>1, <3>1, <5>1
      <4> QED
        BY <4>1, <4>2
    <3>3. s[c].prev \in Ringed(C) /\ s[s[c].prev].next = c
      <4>1. CASE c = n
        BY <1>1, <1>3, <1>6, <2>1, <2>3, <4>1
      <4>2. CASE c # n
        <5>1. s[c].prev = h[c].prev /\ h[c].prev # a
          BY <1>1, <1>6, <2>1, <2>3, <3>1, <4>2 DEF n
        <5> QED
          BY <1>6, <2>1, <3>1, <5>1
      <4> QED
        BY <4>1, <4>2
    <3> QED
      BY <3>2, <3>3
  <2> QED
    BY <2>2, <2>3
<1>8. ASSUME NEW c \in C
      PROVE  /\ s[c].size > 0
             /\ c + s[c].size = IF s[c].next = Cap THEN ZoneUnits ELSE s[c].next
             /\ \A d \in C : c < d => c + s[c].size <= d
  <2>1. \A d \in B : a < d => a + h[a].size <= d /\ d \in Nat
    BY LayoutFacts DEF Layout
  <2>2. CASE c = a
    <3>1. s[c].size = u /\ s[c].next = b
      BY <1>1, <1>6, <2>2
    <3>2. \A d \in C : c < d => c + u <= d
      BY <1>1, <1>2, <2>1, <2>2 DEF C
    <3> QED
      BY <1>1, <1>3, <2>2, <3>1, <3>2
  <2>3. CASE c = b
    <3>1. s[c].size = h[a].size - u /\ s[c].next = n
      BY <1>2, <1>3, <1>6, <2>3
    <3>2. c + s[c].size = a + h[a].size /\ s[c].size > 0
      BY <1>1, <2>3, <3>1
    <3>3. \A d \in C : c < d => a + h[a].size <= d
      <4> SUFFICES ASSUME NEW d \in B, b < d
                   PROVE  a + h[a].size <= d
        BY <1>2, <2>3 DEF C
      <4>1. d \in Nat
        BY LayoutFacts
      <4>2. a < d
        BY <1>1, <1>2, <4>1
      <4> QED
        BY <2>1, <4>2
    <3> QED
      BY <1>1, <1>3, <3>1, <3>2, <3>3
  <2>4. CASE c \in B /\ c # a
    <3>1. s[c].size = h[c].size /\ s[c].next = h[c].next
      BY <1>4, <1>5, <1>6, <2>4
    <3>2. /\ h[c].size > 0 /\ c + h[c].size = IF h[c].next = Cap THEN ZoneUnits ELSE h[c].next
          /\ \A d \in B : c < d => c + h[c].size <= d
      BY <2>4 DEF Layout
    <3>3. c < b => c + h[c].size <= b
      <4> SUFFICES ASSUME c < b
                   PROVE  c + h[c].size <= b
        OBVIOUS
      <4>1. c \in Nat /\ h[c].size \in Nat
        BY <2>4, LayoutFacts
      <4>2. ~(a < c)
        BY <1>1, <1>2, <2>1, <2>4, <4>1
      <4>3. c < a
        BY <1>1, <2>4, <4>1, <4>2
      <4>4. c + h[c].size <= a
        BY <3>2, <4>3
      <4> QED
        BY <1>1, <1>2, <4>1, <4>4
    <3> QED
      BY <3>1, <3>2, <3>3 DEF C
  <2> QED
    BY <2>2, <2>3, <2>4 DEF C
<1>9. C \in SUBSET (1 .. ZoneUnits - 1) /\ First \in C
  BY <1>3 DEF C, Layout
<1>10. s[Cap].user = "zone" /\ s[Cap].tag = PU_STATIC /\ s[Cap].next = First
  BY <1>1, <1>3, <1>4, <1>6
<1>11. Layout(s, C)
  BY <1>6, <1>7, <1>8, <1>9, <1>10 DEF Layout
<1> QED
  BY <1>3, <1>5, <1>11 DEF C

-----------------------------------------------------------------------------
(* The zone after an operation.                                            *)

\* Z_Free as a whole.
LEMMA Z_FreeDone ==
    ASSUME NEW z, IsZone(z), NEW h, h = z.hdr, h \in [Addr -> Headers],
           NEW B, Layout(h, B), NEW a \in B, ~IsFree(h, a), z.rover \in Ringed(B), NEW y, y = Z_Free(z, a)
    PROVE  /\ IsZone(y) /\ y.hdr = Freed(h, a) /\ y.slot = ClearMark(z, a)
           /\ y.rover \in Ringed(StillThere(h, B, a))
<1> DEFINE p == h[a].prev
           n == h[a].next
           f == At(h, a)
           m == Marking(z, a)
           x == JoinBefore(m, a)
           g == Marked(h, a)
           J == Joins(h, a)
           C == StillThere(h, B, a)
<1>1. /\ a \in Addr /\ p \in Addr /\ n \in Addr /\ p # a /\ n # a /\ B \subseteq Addr
      /\ p # Cap => p \in B
      /\ n # Cap => n \in B
  <2>1. /\ a \in Nat /\ a \in Addr /\ a # Cap /\ p \in Addr /\ n \in Addr /\ p < a
        /\ p # Cap => p \in B
        /\ n # Cap => n \in B /\ n > a
    BY LayoutFacts
  <2>2. p \in Nat /\ n \in Nat
    BY <2>1, ZoneConstants
  <2> QED
    BY <2>1, <2>2, CapFacts
<1>2. ~IsFree(h, Cap)
  BY CapFacts
<1>3. SameLinks(g, h) /\ \A c \in Addr : g[c].user = IF c = a THEN Free ELSE h[c].user
  BY <1>1, MarkedIs
<1>4. /\ g[a].prev = p
      /\ IsFree(g, p) <=> IsFree(h, p)
  BY <1>1, <1>3 DEF SameLinks, IsFree
<1>5. /\ J[f].next = n
      /\ IsFree(J, n) <=> IsFree(h, n)
  <2>1. \A c \in Addr : /\ J[c].next = IF c = f THEN n ELSE h[c].next
                        /\ J[c].user = IF c = a THEN Free ELSE h[c].user
    BY FreedIs
  <2>2. f \in Addr
    BY <1>1 DEF At
  <2> HIDE DEF J, f, n
  <2> QED
    BY <1>1, <2>1, <2>2 DEF IsFree
<1>6. y = JoinBehind(x, f)
  BY Z_FreeIs DEF At
<1>7. IsZone(m) /\ m.hdr = g /\ m.rover = z.rover /\ m.slot = ClearMark(z, a)
  BY DEF Marking, IsZone
<1>9. J = IF IsFree(h, p) THEN Absorb(g, p, a) ELSE g
  BY DEF Joins
<1>10. Freed(h, a) = IF IsFree(h, n) THEN Absorb(J, f, n) ELSE J
  BY DEF Freed
<1>11. f = IF IsFree(h, p) THEN p ELSE a
  BY DEF At
<1> HIDE DEF p, n, f, m, g, J
<1>8. IsZone(x) /\ x.slot = m.slot /\ x.hdr = J /\ x.rover = IF IsFree(h, p) /\ z.rover = a THEN p ELSE z.rover
  <2>1. /\ IsZone(x) /\ x.slot = m.slot
        /\ x.hdr = IF IsFree(m.hdr, p) THEN Absorb(m.hdr, p, a) ELSE m.hdr
        /\ x.rover = IF IsFree(m.hdr, p) /\ m.rover = a THEN p ELSE m.rover
    <3>1. p = m.hdr[a].prev
      BY <1>4, <1>7
    <3> QED
      BY <1>7, <3>1, JoinBeforeIs
  <2> HIDE DEF x
  <2> QED
    BY <1>4, <1>7, <1>9, <2>1
<1> HIDE DEF x
<1>12. /\ IsZone(y) /\ y.slot = x.slot /\ y.hdr = Freed(h, a)
       /\ y.rover = IF IsFree(h, n) /\ x.rover = n THEN f ELSE x.rover
  <2>1. n = x.hdr[f].next
    BY <1>5, <1>8
  <2>2. /\ IsZone(y) /\ y.slot = x.slot
        /\ y.hdr = IF IsFree(x.hdr, n) THEN Absorb(x.hdr, f, n) ELSE x.hdr
        /\ y.rover = IF IsFree(x.hdr, n) /\ x.rover = n THEN f ELSE x.rover
    BY <1>6, <1>8, <2>1, JoinBehindIs
  <2> QED
    BY <1>5, <1>8, <1>10, <2>2
<1>13. y.rover \in Ringed(C)
  <2>1. C = {c \in B : c = f \/ (c # a /\ ~(c = n /\ IsFree(h, c)))}
    BY DEF StillThere, f, n
  <2>2. f \in B /\ a \in B
    BY <1>1, <1>2, <1>11
  <2> HIDE DEF C
  <2>3. f \in C
    BY <2>1, <2>2
  <2>4. x.rover \in Ringed(B) /\ (x.rover = a => f = a)
    BY <1>1, <1>2, <1>8, <1>11, <2>2 DEF Ringed
  <2> QED
    BY <1>12, <2>1, <2>3, <2>4 DEF Ringed
<1> QED
  BY <1>7, <1>8, <1>12, <1>13

\* What lies outside the ring is forgotten.
LEMMA ForgetIs ==
    ASSUME NEW z, IsZone(z), NEW B, Layout(z.hdr, B), NEW y, y = Forget(z)
    PROVE  /\ IsZone(y) /\ y.slot = z.slot /\ y.rover = z.rover /\ y.hdr \in [Addr -> Headers]
           /\ \A c \in Ringed(B) : y.hdr[c] = z.hdr[c]
<1> DEFINE g == [a \in Addr |-> IF a \in Ringed(B) THEN z.hdr[a] ELSE Scribbled]
<1>1. Ring(z.hdr) = Ringed(B)
  BY RingIsLayout
<1>2. Scribbled \in Headers
  BY ZoneConstants, CapFacts DEF Scribbled, Block, Headers, Users
<1>3. z.hdr \in [Addr -> Headers] /\ Ringed(B) \subseteq Addr
  BY CapFacts DEF Layout
<1>4. g \in [Addr -> Headers] /\ \A c \in Ringed(B) : g[c] = z.hdr[c]
  BY <1>2, <1>3
<1>5. y = [z EXCEPT !.hdr = g]
  BY <1>1 DEF Forget
<1> HIDE DEF g
<1>6. y = [hdr |-> g, rover |-> z.rover, slot |-> z.slot]
  BY <1>5 DEF IsZone
<1> QED
  BY <1>4, <1>6 DEF IsZone

LEMMA ZoneOf ==
    ASSUME NEW h, NEW r, NEW s, NEW y, y = [hdr |-> h, rover |-> r, slot |-> s]
    PROVE  IsZone(y) /\ y.hdr = h /\ y.rover = r /\ y.slot = s
  BY DEF IsZone

LEMMA ForgottenIsHeld ==
    ASSUME NEW z, NEW B, NEW d, Held(z, B, d), NEW y, y = Forget(z)
    PROVE  /\ Held(y, B, d) /\ y.slot = z.slot
           /\ \A c \in Ringed(B) : y.hdr[c] = z.hdr[c]
           /\ \A l : LevelHas(z.hdr, B, l) => LevelHas(y.hdr, B, l)
<1> DEFINE h == z.hdr
           g == y.hdr
<1>1. /\ IsZone(z) /\ Layout(h, B) /\ Parted(h, B) /\ Owned(h, B, z.slot, d) /\ z.rover \in Ringed(B)
  BY DEF Held
<1>2. /\ IsZone(y) /\ y.slot = z.slot /\ y.rover = z.rover /\ g \in [Addr -> Headers]
      /\ \A c \in Ringed(B) : g[c] = h[c]
  BY <1>1, ForgetIs
<1>3. B \subseteq Ringed(B) /\ Cap \in Ringed(B) /\ \A c \in B : h[c].next \in Ringed(B)
  BY <1>1 DEF Layout, Ringed
<1> HIDE DEF h, g
<1>4. Layout(g, B)
  <2>1. \A c \in Ringed(B) : g[c].size = h[c].size /\ g[c].next = h[c].next /\ g[c].prev = h[c].prev
    BY <1>2
  <2>2. g[Cap].user = h[Cap].user /\ g[Cap].tag = h[Cap].tag
    BY <1>2, <1>3
  <2> QED
    BY <1>1, <1>2, <2>1, <2>2, LinksKept
<1>5. Parted(g, B)
  BY <1>1, <1>2, <1>3 DEF Parted, IsFree
<1>6. Owned(g, B, z.slot, d)
  <2>1. d # NoBlock => d \in B
    BY <1>1, Names DEF Owned
  <2> QED
    BY <1>1, <1>2, <1>3, <2>1 DEF Owned
<1>7. \A l : LevelHas(h, B, l) => LevelHas(g, B, l)
  BY <1>2, <1>3 DEF LevelHas
<1> QED
  BY <1>1, <1>2, <1>4, <1>5, <1>6, <1>7 DEF Held, h, g

LEMMA FreedIsHeld ==
    ASSUME NEW z, NEW h, h = z.hdr, NEW B, NEW d, Held(z, B, d), NEW a \in B, ~IsFree(h, a), d # a,
           NEW y, y = Z_Free(z, a)
    PROVE  /\ Held(y, StillThere(h, B, a), d) /\ y.hdr = Freed(h, a)
           /\ \A s \in Slots : z.slot[s] = NoBlock => y.slot[s] = NoBlock
           /\ \A l : LevelHas(h, B, l) => LevelHas(y.hdr, StillThere(h, B, a), l \ {a})
<1>1. /\ IsZone(z) /\ Layout(h, B) /\ Parted(h, B) /\ Owned(h, B, z.slot, d) /\ z.rover \in Ringed(B)
      /\ h \in [Addr -> Headers]
  BY DEF Held, Layout
<1>2. /\ IsZone(y) /\ y.hdr = Freed(h, a) /\ y.slot = ClearMark(z, a)
      /\ y.rover \in Ringed(StillThere(h, B, a))
  BY <1>1, Z_FreeDone
<1>3. Layout(Freed(h, a), StillThere(h, B, a))
  BY <1>1, FreedIs
<1>4. Parted(Freed(h, a), StillThere(h, B, a))
  BY <1>1, FreedIsParted
<1>5. y.slot = IF h[a].user \in Slots THEN [z.slot EXCEPT ![h[a].user] = NoBlock] ELSE z.slot
  BY <1>2 DEF ClearMark
<1>6. Owned(Freed(h, a), StillThere(h, B, a), y.slot, d)
  <2> DEFINE s == z.slot
             t == y.slot
  <2>1. t = IF h[a].user \in Slots THEN [s EXCEPT ![h[a].user] = NoBlock] ELSE s
    BY <1>5
  <2>2. Owned(h, B, s, d)
    BY <1>1
  <2> HIDE DEF s, t
  <2>3. Owned(Freed(h, a), StillThere(h, B, a), t, d)
    BY <1>1, <2>1, <2>2, FreedIsOwned
  <2> QED
    BY <2>3 DEF t
<1>7. \A s \in Slots : z.slot[s] = NoBlock => y.slot[s] = NoBlock
  BY <1>1, <1>5 DEF Owned
<1>8. \A l : LevelHas(h, B, l) => LevelHas(Freed(h, a), StillThere(h, B, a), l \ {a})
  BY <1>1, FreedOfLevel
<1> QED
  BY <1>2, <1>3, <1>4, <1>6, <1>7, <1>8 DEF Held

\* A lump that is in memory changes its tag.
LEMMA TaggedIsHeld ==
    ASSUME NEW z, NEW B, NEW d, Held(z, B, d), NEW l \in Lumps, NEW a, a = z.slot[l], a # NoBlock, NEW t \in Int,
           NEW y, y = Z_ChangeTag(z, a, t)
    PROVE  /\ Held(y, B, d)
           /\ \A x : LevelHas(z.hdr, B, x) => LevelHas(y.hdr, B, x)
<1> DEFINE h == z.hdr
           g == SetTag(h, a, t)
           slot == z.slot
<1>1. /\ IsZone(z) /\ Layout(h, B) /\ Parted(h, B) /\ Owned(h, B, slot, d) /\ z.rover \in Ringed(B)
      /\ h \in [Addr -> Headers]
  BY DEF Held, Layout
<1>2. a \in B /\ h[a].user = l /\ l \in Slots /\ a \in Addr /\ a # Cap /\ l # Texture
  <2>1. a \in B /\ h[a].user = l /\ l \in Slots /\ l # Texture
    BY <1>1, Names DEF Owned
  <2> QED
    BY <1>1, <2>1, CapFacts
<1>3. /\ g \in [Addr -> Headers] /\ SameLinks(g, h)
      /\ \A c \in Addr : /\ g[c].tag = IF c = a THEN t ELSE h[c].tag
                         /\ g[c].user = h[c].user /\ g[c].data = h[c].data
  BY <1>1, <1>2, TagIsSet
<1>4. y = [hdr |-> g, rover |-> z.rover, slot |-> slot]
  BY <1>1 DEF Z_ChangeTag, SetTag, IsZone
<1>5. B \subseteq Addr /\ Ringed(B) \subseteq Addr /\ Cap \in Addr /\ \A c \in B : h[c].next \in Addr
  BY <1>1, CapFacts
<1> HIDE DEF h, g, slot
<1>6. Layout(g, B)
  <2>1. \A c \in Ringed(B) : g[c].size = h[c].size /\ g[c].next = h[c].next /\ g[c].prev = h[c].prev
    BY <1>3, <1>5 DEF SameLinks
  <2>2. g[Cap].user = h[Cap].user /\ g[Cap].tag = h[Cap].tag
    BY <1>2, <1>3, <1>5
  <2> QED
    BY <1>1, <1>3, <2>1, <2>2, LinksKept
<1>7. Parted(g, B)
  BY <1>1, <1>3, <1>5 DEF Parted, IsFree, SameLinks
<1>8. Owned(g, B, slot, d)
  <2>1. d # NoBlock => d \in B /\ d # a
    BY <1>1, <1>2, Names DEF Owned
  <2>2. l # Unowned
    BY <1>2, Names
  <2> QED
    BY <1>1, <1>2, <1>3, <1>5, <2>1, <2>2 DEF Owned
<1>9. \A x : LevelHas(h, B, x) => LevelHas(g, B, x)
  BY <1>3, <1>5 DEF LevelHas
<1>10. IsZone(y) /\ y.hdr = g /\ y.rover = z.rover /\ y.slot = slot
  BY <1>4 DEF IsZone
<1> QED
  BY <1>1, <1>6, <1>7, <1>8, <1>9, <1>10 DEF Held, h

\* The composite is drawn.
Composed(z, d) == [Z_ChangeTag(z, d, PU_CACHE) EXCEPT !.hdr[d].data = Texture]

LEMMA ComposedIs ==
    ASSUME NEW z, IsZone(z), NEW d
    PROVE  Composed(z, d) = [hdr |-> SetData(SetTag(z.hdr, d, PU_CACHE), d, Texture),
                             rover |-> z.rover, slot |-> z.slot]
<1> DEFINE k == SetTag(z.hdr, d, PU_CACHE)
<1>1. Z_ChangeTag(z, d, PU_CACHE) = [hdr |-> k, rover |-> z.rover, slot |-> z.slot]
  BY DEF Z_ChangeTag, SetTag, IsZone
<1> HIDE DEF k
<1>2. Composed(z, d) = [hdr |-> SetData(k, d, Texture), rover |-> z.rover, slot |-> z.slot]
  BY <1>1 DEF SetData, Composed
<1> QED
  BY <1>2 DEF k

LEMMA DrawnIsHeld ==
    ASSUME NEW z, NEW B, NEW d, Held(z, B, d), d # NoBlock,
           NEW y, y = Composed(z, d)
    PROVE  /\ Held(y, B, NoBlock)
           /\ \A x : LevelHas(z.hdr, B, x) => LevelHas(y.hdr, B, x)
<1> DEFINE h == z.hdr
           k == SetTag(h, d, PU_CACHE)
           g == SetData(k, d, Texture)
           slot == z.slot
<1>1. /\ IsZone(z) /\ Layout(h, B) /\ Parted(h, B) /\ Owned(h, B, slot, d) /\ z.rover \in Ringed(B)
      /\ h \in [Addr -> Headers]
  BY DEF Held, Layout
<1>2. /\ slot[Texture] = d /\ d \in B /\ h[d].user = Texture /\ Texture \in Slots /\ Texture # Unowned
      /\ d \in Addr /\ d # Cap
  <2>1. slot[Texture] = d /\ d \in B /\ h[d].user = Texture /\ Texture \in Slots /\ Texture # Unowned
    BY <1>1, Names DEF Owned
  <2> QED
    BY <1>1, <2>1, CapFacts
<1>3. PU_CACHE \in Int /\ Texture \in Slots \cup {"none", "raw"}
  BY <1>2 DEF PU_CACHE
<1>4. y = [hdr |-> g, rover |-> z.rover, slot |-> slot]
  BY <1>1, ComposedIs
<1>5. /\ k \in [Addr -> Headers] /\ SameLinks(k, h)
      /\ \A c \in Addr : /\ k[c].tag = IF c = d THEN PU_CACHE ELSE h[c].tag
                         /\ k[c].user = h[c].user /\ k[c].data = h[c].data
  BY <1>1, <1>2, <1>3, TagIsSet
<1> HIDE DEF k
<1>6. /\ g \in [Addr -> Headers] /\ SameLinks(g, k)
      /\ \A c \in Addr : /\ g[c].data = IF c = d THEN Texture ELSE k[c].data
                         /\ g[c].user = k[c].user /\ g[c].tag = k[c].tag
  BY <1>2, <1>3, <1>5, DataIsSet
<1>7. B \subseteq Addr /\ Ringed(B) \subseteq Addr /\ Cap \in Addr /\ \A c \in B : h[c].next \in Addr
  BY <1>1, CapFacts
<1> HIDE DEF h, g, slot
<1>8. \A c \in Addr : /\ g[c].size = h[c].size /\ g[c].next = h[c].next /\ g[c].prev = h[c].prev
                      /\ g[c].user = h[c].user
                      /\ c # d => g[c].tag = h[c].tag /\ g[c].data = h[c].data
                      /\ c = d => g[c].data = Texture
  BY <1>5, <1>6 DEF SameLinks
<1>9. Layout(g, B)
  <2>1. \A c \in Ringed(B) : g[c].size = h[c].size /\ g[c].next = h[c].next /\ g[c].prev = h[c].prev
    BY <1>7, <1>8
  <2>2. g[Cap].user = h[Cap].user /\ g[Cap].tag = h[Cap].tag
    BY <1>2, <1>7, <1>8
  <2> QED
    BY <1>1, <1>6, <2>1, <2>2, LinksKept
<1>10. Parted(g, B)
  BY <1>1, <1>7, <1>8 DEF Parted, IsFree
<1>11. Owned(g, B, slot, NoBlock)
  <2>1. \A s \in Slots : slot[s] # NoBlock => /\ slot[s] \in B /\ h[slot[s]].user = s
                                              /\ slot[s] = d => s = Texture
                                              /\ slot[s] # d => h[slot[s]].data = s
    BY <1>1, <1>2 DEF Owned
  <2>2. \A s \in Slots : slot[s] # NoBlock => /\ slot[s] \in B /\ g[slot[s]].user = s
                                              /\ g[slot[s]].data = IF NoBlock = slot[s] THEN "raw" ELSE s
    BY <1>7, <1>8, <2>1
  <2>3. \A c \in B : /\ g[c].user \in Slots => slot[g[c].user] = c
                     /\ g[c].user = Unowned => g[c].tag = PU_LEVEL
    BY <1>1, <1>2, <1>7, <1>8 DEF Owned
  <2>4. slot \in [Slots -> Addr \cup {NoBlock}]
    BY <1>1 DEF Owned
  <2> QED
    BY <2>2, <2>3, <2>4 DEF Owned
<1>12. \A x : LevelHas(h, B, x) => LevelHas(g, B, x)
  BY <1>7, <1>8 DEF LevelHas
<1>13. IsZone(y) /\ y.hdr = g /\ y.rover = z.rover /\ y.slot = slot
  BY <1>4, ZoneOf
<1> QED
  BY <1>1, <1>9, <1>10, <1>11, <1>12, <1>13 DEF Held, h

\* The block that was found, after what is left over has been split off.
LEMMA SplitIs ==
    ASSUME NEW h \in [Addr -> Headers], NEW B, Layout(h, B), Parted(h, B), NEW a \in B, IsFree(h, a),
           NEW u \in Nat \ {0}, h[a].size >= u, NEW s, s = SplitBlock(h, a, u)
    PROVE  \E C : /\ Layout(s, C) /\ s \in [Addr -> Headers] /\ B \subseteq C
                  /\ \A c \in C \ B : IsFree(s, c)
                  /\ \A c \in Ringed(B) : /\ s[c].user = h[c].user /\ s[c].tag = h[c].tag
                                          /\ s[c].data = h[c].data
                  /\ \A c \in C : c # a => ~(IsFree(s, c) /\ IsFree(s, s[c].next))
<1> DEFINE b == a + u
           n == h[a].next
           C == B \cup {b}
<1>1. a \in Addr /\ a \in Nat /\ h[a].size \in Nat /\ MINFRAGMENT \in Nat /\ n \in Addr /\ u \in Int
  BY LayoutFacts, ZoneConstants
<1>2. CASE h[a].size - u <= MINFRAGMENT
  <2>1. s = h
    BY <1>1, <1>2, SplitIsCut
  <2> QED
    BY <2>1 DEF Parted
<1>3. CASE ~(h[a].size - u <= MINFRAGMENT)
  <2>1. s = Cut(h, a, u)
    BY <1>1, <1>3, SplitIsCut
  <2>2. h[a].size - u > 0
    BY <1>1, <1>3
  <2>3. Layout(s, C) /\ b \in Addr /\ b \notin B /\ b # Cap
    BY <2>1, <2>2, CutKeepsLayout
  <2>4. /\ s \in [Addr -> Headers]
        /\ \A c \in Addr :
             /\ s[c].next = IF c = a THEN b ELSE IF c = b THEN n ELSE h[c].next
             /\ s[c].user = IF c = b THEN Free ELSE h[c].user
             /\ s[c].tag = IF c = b THEN 0 ELSE h[c].tag
             /\ s[c].data = IF c = b THEN "none" ELSE h[c].data
    BY <1>1, <2>1, <2>3, CutIs
  <2>5. /\ Ringed(B) \subseteq Addr /\ b \notin Ringed(B) /\ B \subseteq Ringed(B) /\ n \in Ringed(B)
        /\ \A c \in B : h[c].next \in Ringed(B)
    BY <2>3, CapFacts DEF Ringed, Layout
  <2>6. ~IsFree(h, n)
    BY DEF Parted
  <2> HIDE DEF C, b, n
  <2>7. \A c \in C \ B : IsFree(s, c)
    BY <2>3, <2>4 DEF C, IsFree
  <2>8. \A c \in Ringed(B) : s[c].user = h[c].user /\ s[c].tag = h[c].tag /\ s[c].data = h[c].data
    BY <2>4, <2>5
  <2>9. ASSUME NEW c \in C, c # a
        PROVE  ~(IsFree(s, c) /\ IsFree(s, s[c].next))
    <3>1. CASE c = b
      BY <1>1, <2>3, <2>4, <2>5, <2>6, <3>1, <2>9 DEF IsFree
    <3>2. CASE c \in B
      <4>1. s[c].next = h[c].next /\ h[c].next \in Ringed(B) /\ c \in Ringed(B)
        BY <2>3, <2>4, <2>5, <2>9, <3>2
      <4> QED
        BY <2>8, <3>2, <4>1 DEF IsFree, Parted
    <3> QED
      BY <3>1, <3>2 DEF C
  <2>10. B \subseteq C
    BY DEF C
  <2> QED
    BY <2>3, <2>4, <2>7, <2>8, <2>9, <2>10
<1> QED
  BY <1>2, <1>3

\* It is given to its owner and filled.
Settled(h, a, user, tag, data) == SetData(SetTag(SetUser(h, a, user), a, tag), a, data)

LEMMA SettledIs ==
    ASSUME NEW h \in [Addr -> Headers], NEW a \in Addr, NEW user \in Users, NEW tag \in Int,
           NEW data \in Slots \cup {"none", "raw"}, NEW g, g = Settled(h, a, user, tag, data)
    PROVE  /\ g \in [Addr -> Headers] /\ SameLinks(g, h)
           /\ \A c \in Addr : /\ g[c].user = IF c = a THEN user ELSE h[c].user
                              /\ g[c].tag = IF c = a THEN tag ELSE h[c].tag
                              /\ g[c].data = IF c = a THEN data ELSE h[c].data
<1> DEFINE g1 == SetUser(h, a, user)
           g2 == SetTag(g1, a, tag)
<1>1. g = SetData(g2, a, data)
  BY DEF Settled
<1> HIDE DEF g1, g2
<1>2. /\ g1 \in [Addr -> Headers] /\ SameLinks(g1, h)
      /\ \A c \in Addr : /\ g1[c].user = IF c = a THEN user ELSE h[c].user
                         /\ g1[c].tag = h[c].tag /\ g1[c].data = h[c].data
  BY UserIsSet DEF g1
<1>3. /\ g2 \in [Addr -> Headers] /\ SameLinks(g2, g1)
      /\ \A c \in Addr : /\ g2[c].tag = IF c = a THEN tag ELSE g1[c].tag
                         /\ g2[c].user = g1[c].user /\ g2[c].data = g1[c].data
  BY <1>2, TagIsSet DEF g2
<1>4. /\ g \in [Addr -> Headers] /\ SameLinks(g, g2)
      /\ \A c \in Addr : /\ g[c].data = IF c = a THEN data ELSE g2[c].data
                         /\ g[c].user = g2[c].user /\ g[c].tag = g2[c].tag
  BY <1>1, <1>3, DataIsSet
<1> QED
  BY <1>2, <1>3, <1>4 DEF SameLinks

DataOf(user) == IF user \in Lumps THEN user ELSE "raw"
PointersTo(a, user, slot) == IF user \in Slots THEN [slot EXCEPT ![user] = a] ELSE slot
DrawnOn(a, user, d) == IF user = Texture THEN a ELSE d
LevelWith(a, user, l) == IF user = Unowned THEN l \cup {a} ELSE l

LEMMA SettledIsHeld ==
    ASSUME NEW h \in [Addr -> Headers], NEW B, Layout(h, B), Parted(h, B), NEW a \in B, IsFree(h, a),
           NEW u \in Nat \ {0}, h[a].size >= u,
           NEW slot, NEW d, Owned(h, B, slot, d),
           NEW user \in Slots \cup {Unowned}, user \in Slots => slot[user] = NoBlock,
           NEW tag \in Int, user = Unowned => tag = PU_LEVEL, user = Texture => tag = PU_STATIC,
           NEW l, LevelHas(h, B, l),
           NEW g, g = Settled(SplitBlock(h, a, u), a, user, tag, DataOf(user))
    PROVE  \E C : /\ Layout(g, C) /\ Parted(g, C)
                  /\ Owned(g, C, PointersTo(a, user, slot), DrawnOn(a, user, d))
                  /\ SplitBlock(h, a, u)[a].next \in Ringed(C)
                  /\ LevelHas(g, C, LevelWith(a, user, l))
<1>0. PICK data, t, e, lv : /\ data = DataOf(user) /\ t = PointersTo(a, user, slot)
                            /\ e = DrawnOn(a, user, d) /\ lv = LevelWith(a, user, l)
  OBVIOUS
<1> DEFINE s == SplitBlock(h, a, u)
<1>1. PICK C : /\ Layout(s, C) /\ s \in [Addr -> Headers] /\ B \subseteq C
               /\ \A c \in C \ B : IsFree(s, c)
               /\ \A c \in Ringed(B) : /\ s[c].user = h[c].user /\ s[c].tag = h[c].tag
                                       /\ s[c].data = h[c].data
               /\ \A c \in C : c # a => ~(IsFree(s, c) /\ IsFree(s, s[c].next))
  BY SplitIs
<1>2. g = Settled(s, a, user, tag, data)
  BY <1>0
<1> HIDE DEF s
<1>3. /\ Ringed(C) \subseteq Addr /\ C \subseteq Addr /\ B \subseteq Addr /\ Cap \in Addr /\ a # Cap /\ a \in C
      /\ a \in Addr /\ B \subseteq Ringed(B) /\ B \subseteq C
  <2>1. Ringed(C) \subseteq Addr /\ C \subseteq Addr /\ Cap \in Addr
    BY <1>1, CapFacts
  <2>2. B \subseteq Addr /\ Cap \notin B
    BY CapFacts
  <2>3. B \subseteq Ringed(B)
    BY DEF Ringed
  <2> QED
    BY <1>1, <2>1, <2>2, <2>3
<1>4. user \in Users /\ data \in Slots \cup {"none", "raw"} /\ user # Free
  BY <1>0, Names DEF Users, DataOf
<1>5. /\ g \in [Addr -> Headers] /\ SameLinks(g, s)
      /\ \A c \in Addr : /\ g[c].user = IF c = a THEN user ELSE s[c].user
                         /\ g[c].tag = IF c = a THEN tag ELSE s[c].tag
                         /\ g[c].data = IF c = a THEN data ELSE s[c].data
  BY <1>1, <1>2, <1>3, <1>4, SettledIs
<1>6. Layout(g, C)
  <2>1. \A c \in Ringed(C) : g[c].size = s[c].size /\ g[c].next = s[c].next /\ g[c].prev = s[c].prev
    BY <1>3, <1>5 DEF SameLinks
  <2>2. g[Cap].user = s[Cap].user /\ g[Cap].tag = s[Cap].tag
    BY <1>3, <1>5
  <2> QED
    BY <1>1, <1>5, <2>1, <2>2, LinksKept
<1>7. Parted(g, C)
  <2>1. ASSUME NEW c \in C, IsFree(g, c), IsFree(g, g[c].next)
        PROVE  FALSE
    <3>1. c # a /\ c \in Addr /\ IsFree(s, c)
      BY <1>3, <1>4, <1>5, <2>1 DEF IsFree
    <3>2. g[c].next = s[c].next /\ s[c].next \in Addr
      BY <1>1, <1>3, <1>5, <3>1, CapFacts DEF SameLinks
    <3>3. IsFree(s, s[c].next)
      BY <1>4, <1>5, <2>1, <3>2 DEF IsFree
    <3> QED
      BY <1>1, <3>1, <3>3
  <2> QED
    BY <2>1 DEF Parted
\* What was there before is as it was; what is new is free.
<1>15. /\ data = IF user \in Lumps THEN user ELSE "raw"
       /\ e = IF user = Texture THEN a ELSE d
       /\ lv = IF user = Unowned THEN l \cup {a} ELSE l
       /\ t = IF user \in Slots THEN [slot EXCEPT ![user] = a] ELSE slot
  BY <1>0 DEF DataOf, PointersTo, DrawnOn, LevelWith
<1>8. /\ \A c \in B : c # a => /\ g[c].user = h[c].user /\ g[c].tag = h[c].tag /\ g[c].data = h[c].data
      /\ \A c \in C : c \notin B => g[c].user = Free
      /\ g[a].user = user /\ g[a].tag = tag /\ g[a].data = data
  BY <1>1, <1>3, <1>5 DEF IsFree
<1>9. /\ slot \in [Slots -> Addr \cup {NoBlock}]
      /\ \A x \in Slots : slot[x] # NoBlock =>
            /\ slot[x] \in B /\ h[slot[x]].user = x /\ slot[x] # a
            /\ h[slot[x]].data = IF d = slot[x] THEN "raw" ELSE x
      /\ \A c \in B : /\ h[c].user \in Slots => slot[h[c].user] = c
                      /\ h[c].user = Unowned => h[c].tag = PU_LEVEL
      /\ d # NoBlock => slot[Texture] = d /\ h[d].tag = PU_STATIC
  BY Names DEF Owned, IsFree
<1>10. /\ t \in [Slots -> Addr \cup {NoBlock}]
       /\ \A x \in Slots : t[x] = IF x = user THEN a ELSE slot[x]
  BY <1>3, <1>9, <1>15, Names
<1>11. /\ d # NoBlock => user # Texture /\ d # a /\ d \in B
       /\ a # NoBlock
  BY <1>3, <1>9, <1>15, Names, ZoneConstants
<1>12. Owned(g, C, t, e)
  <2>1. ASSUME NEW x \in Slots, t[x] # NoBlock
        PROVE  /\ t[x] \in C /\ g[t[x]].user = x
               /\ g[t[x]].data = IF e = t[x] THEN "raw" ELSE x
    <3>1. CASE x = user
      <4>1. t[x] = a /\ g[t[x]].user = x /\ a \in C
        BY <1>3, <1>8, <1>10, <3>1
      <4>2. e = a <=> user = Texture
        BY <1>11, <1>15
      <4>3. user = Texture \/ user \in Lumps
        BY <3>1 DEF Slots
      <4> QED
        BY <1>8, <1>15, <3>1, <4>1, <4>2, <4>3, Names
    <3>2. CASE x # user
      <4>1. t[x] = slot[x] /\ slot[x] # NoBlock
        BY <1>10, <2>1, <3>2
      <4>2. slot[x] \in B /\ slot[x] # a /\ h[slot[x]].user = x
            /\ h[slot[x]].data = IF d = slot[x] THEN "raw" ELSE x
        BY <1>9, <4>1
      <4>3. e = slot[x] <=> d = slot[x]
        BY <1>9, <1>11, <1>15, <4>1, <4>2
      <4> QED
        BY <1>3, <1>8, <4>1, <4>2, <4>3
    <3> QED
      BY <3>1, <3>2
  <2>2. ASSUME NEW c \in C
        PROVE  /\ g[c].user \in Slots => t[g[c].user] = c
               /\ g[c].user = Unowned => g[c].tag = PU_LEVEL
    <3>1. CASE c = a
      BY <1>8, <1>10, <3>1
    <3>2. CASE c \notin B
      BY <1>8, <3>2, Names
    <3>3. CASE c \in B /\ c # a
      <4>1. g[c].user = h[c].user /\ g[c].tag = h[c].tag
        BY <1>8, <3>3
      <4>2. h[c].user \in Slots => h[c].user # user
        BY <1>3, <1>9, <3>3, ZoneConstants
      <4> QED
        BY <1>9, <1>10, <3>3, <4>1, <4>2
    <3> QED
      BY <3>1, <3>2, <3>3
  <2>3. e # NoBlock => t[Texture] = e /\ g[e].tag = PU_STATIC
    BY <1>8, <1>9, <1>10, <1>11, <1>15, Names
  <2> QED
    BY <1>10, <2>1, <2>2, <2>3 DEF Owned
<1>13. LevelHas(g, C, lv)
  <2>1. l = {c \in B : h[c].user = Unowned}
    BY DEF LevelHas
  <2>2. a \notin l
    BY <2>1, Names DEF IsFree
  <2>3. \A c \in C : g[c].user = Unowned <=> (c \in l \/ (c = a /\ user = Unowned))
    BY <1>8, <2>1, <2>2, Names
  <2> QED
    BY <1>3, <1>15, <2>1, <2>3 DEF LevelHas
<1>14. s[a].next \in Ringed(C)
  BY <1>1, <1>3 DEF Layout, Ringed
<1> QED
  BY <1>0, <1>6, <1>7, <1>12, <1>13, <1>14 DEF s

LEMMA GivenIs ==
    ASSUME NEW z, NEW a, NEW s, s = SplitBlock(z.hdr, a, zCall.units),
           NEW data, data = IF zCall.user \in Lumps THEN zCall.user ELSE "raw",
           NEW t, t = IF zCall.user \in Slots THEN [z.slot EXCEPT ![zCall.user] = a] ELSE z.slot
    PROVE  Filled(Given(z, a), a) = [hdr |-> Settled(s, a, zCall.user, zCall.tag, data),
                                     rover |-> s[a].next, slot |-> t]
<1> DEFINE k == SetTag(SetUser(s, a, zCall.user), a, zCall.tag)
<1>1. Given(z, a) = [hdr |-> k, rover |-> s[a].next, slot |-> t]
  BY DEF Given, SetTag, SetUser
<1> HIDE DEF k
<1>2. Filled(Given(z, a), a) = [hdr |-> SetData(k, a, data), rover |-> s[a].next, slot |-> t]
  BY <1>1 DEF Filled, SetData
<1> QED
  BY <1>2 DEF k, Settled

-----------------------------------------------------------------------------
(* One lemma for each action.                                              *)

\* Steps that only walk.
LEMMA WalksOn ==
    ASSUME NEW B \in SUBSET Addr, ZoneOK(B), zPc = "scan", zPc' = "scan",
           UNCHANGED <<zone, zCall, start, drawn, level>>,
           {rover', base'} \subseteq Ringed(B), ~IsFree(zone.hdr, zone.hdr[base'].prev),
           rover' = base' \/ (IsFree(zone.hdr, base') /\ rover' = zone.hdr[base'].next)
    PROVE  ZoneInv'
<1>1. SearchOK(B)
  BY DEF ZoneOK
<1>2. SearchOK(B)'
  <2>1. start \in Ringed(B) /\ ~IsFree(zone.hdr, start)
    BY <1>1 DEF SearchOK
  <2>2. Drawing' <=> Drawing
    BY DEF Drawing
  <2> QED
    BY <1>1, <2>1, <2>2 DEF SearchOK
<1>3. ZoneOK(B)'
  BY <1>2 DEF ZoneOK
<1> QED
  BY <1>3 DEF ZoneInv

\* What is before and behind a block that is searched.
LEMMA Neighbours ==
    ASSUME NEW h \in [Addr -> Headers], NEW B, Layout(h, B), Parted(h, B)
    PROVE  /\ \A a \in Ringed(B) : /\ a \in Addr /\ h[a].next \in Ringed(B) /\ h[a].prev \in Ringed(B)
                                   /\ h[h[a].next].prev = a /\ h[h[a].prev].next = a
                                   /\ IsFree(h, a) => a \in B /\ ~IsFree(h, h[a].next) /\ ~IsFree(h, h[a].prev)
<1> SUFFICES ASSUME NEW a \in Ringed(B)
             PROVE  /\ a \in Addr /\ h[a].next \in Ringed(B) /\ h[a].prev \in Ringed(B)
                    /\ h[h[a].next].prev = a /\ h[h[a].prev].next = a
                    /\ IsFree(h, a) => a \in B /\ ~IsFree(h, h[a].next) /\ ~IsFree(h, h[a].prev)
  OBVIOUS
<1>1. /\ h[a].next \in Ringed(B) /\ h[a].prev \in Ringed(B)
      /\ h[h[a].next].prev = a /\ h[h[a].prev].next = a
  BY DEF Layout
<1>2. a \in Addr /\ ~IsFree(h, Cap)
  BY CapFacts
<1>3. \A c \in Ringed(B) : IsFree(h, c) => c \in B
  BY <1>2 DEF Ringed
<1>4. IsFree(h, a) => ~IsFree(h, h[a].next)
  BY <1>3 DEF Parted
<1>5. IsFree(h, a) => ~IsFree(h, h[a].prev)
  <2> SUFFICES ASSUME IsFree(h, a), IsFree(h, h[a].prev)
               PROVE  FALSE
    OBVIOUS
  <2>1. h[a].prev \in B
    BY <1>1, <1>3
  <2> QED
    BY <1>1, <2>1 DEF Parted
<1> QED
  BY <1>1, <1>2, <1>3, <1>4, <1>5

LEMMA SkipUsedKeeps ==
    ASSUME ZoneInv, SkipUsed
    PROVE  ZoneInv'
<1>1. PICK B \in SUBSET Addr : ZoneOK(B)
  BY DEF ZoneInv
<1>2. Held(zone, B, drawn.block) /\ SearchOK(B) /\ zPc = "scan"
  BY <1>1 DEF ZoneOK, SkipUsed, Scanning
<1> DEFINE h == zone.hdr
<1>3. h \in [Addr -> Headers] /\ Layout(h, B) /\ Parted(h, B)
  BY <1>2 DEF Held, Layout
<1>4. rover \in Ringed(B) /\ ~IsFree(h, rover)
  BY <1>2 DEF SearchOK, SkipUsed
<1>5. h[rover].next \in Ringed(B) /\ h[h[rover].next].prev = rover
  BY <1>3, <1>4, Neighbours
<1>6. rover' = h[rover].next /\ base' = h[rover].next /\ zPc' = "scan" /\ UNCHANGED <<zone, zCall, start, drawn, level>>
  BY <1>2 DEF SkipUsed
<1>7. {rover', base'} \subseteq Ringed(B) /\ ~IsFree(h, h[base'].prev) /\ rover' = base'
  BY <1>4, <1>5, <1>6
<1> QED
  BY <1>1, <1>2, <1>6, <1>7, WalksOn

LEMMA SkipFreeKeeps ==
    ASSUME ZoneInv, SkipFree
    PROVE  ZoneInv'
<1>1. PICK B \in SUBSET Addr : ZoneOK(B)
  BY DEF ZoneInv
<1>2. Held(zone, B, drawn.block) /\ SearchOK(B) /\ zPc = "scan"
  BY <1>1 DEF ZoneOK, SkipFree, Scanning
<1> DEFINE h == zone.hdr
<1>3. h \in [Addr -> Headers] /\ Layout(h, B) /\ Parted(h, B)
  BY <1>2 DEF Held, Layout
<1>4. /\ rover \in Ringed(B) /\ base \in Ringed(B) /\ IsFree(h, rover) /\ ~IsFree(h, h[base].prev)
      /\ rover = base \/ (IsFree(h, base) /\ rover = h[base].next)
  BY <1>2 DEF SearchOK, SkipFree
<1>5. rover = base
  BY <1>3, <1>4, Neighbours
<1>6. rover' = h[rover].next /\ base' = base /\ zPc' = "scan" /\ UNCHANGED <<zone, zCall, start, drawn, level>>
  BY <1>2 DEF SkipFree
<1>7. h[base].next \in Ringed(B)
  BY <1>3, <1>4, Neighbours
<1>8. /\ {rover', base'} \subseteq Ringed(B) /\ ~IsFree(h, h[base'].prev)
      /\ IsFree(h, base') /\ rover' = h[base'].next
  BY <1>4, <1>5, <1>6, <1>7
<1> QED
  BY <1>1, <1>2, <1>6, <1>8, WalksOn

LEMMA OutOfMemoryKeeps ==
    ASSUME ZoneInv, OutOfMemory
    PROVE  ZoneInv'
<1>1. PICK B \in SUBSET Addr : ZoneOK(B)
  BY DEF ZoneInv
<1>2. zPc = "scan" /\ zPc' = "error" /\ UNCHANGED <<zone, level, drawn>>
  BY DEF OutOfMemory, Scanning
<1>3. ZoneOK(B)'
  BY <1>1, <1>2 DEF ZoneOK
<1> QED
  BY <1>3 DEF ZoneInv

LEMMA WithHeader == \A u \in Nat : u + MemBlock \in Nat \ {0}
  BY DEF MemBlock

\* A search begins.
LEMMA StartMallocKeeps ==
    ASSUME NEW B \in SUBSET Addr, ZoneOK(B), zPc # "free tags",
           NEW units \in Nat, NEW tag \in Int, NEW user, NEW for, StartMalloc(units, tag, user, for),
           UNCHANGED <<level, drawn>>,
           user \in Slots => zone.slot[user] = NoBlock,
           \/ for = "lump" /\ user \in Lumps /\ drawn = NotDrawn
           \/ for = "composite" /\ user \in Lumps /\ Drawing /\ drawn.left # <<>>
           \/ for = "composite" /\ user = Texture /\ drawn = NotDrawn /\ tag = PU_STATIC
           \/ for = "level" /\ user = Unowned /\ drawn = NotDrawn /\ tag = PU_LEVEL
    PROVE  ZoneInv'
<1> DEFINE h == zone.hdr
           r == zone.rover
           b == IF IsFree(h, h[r].prev) THEN h[r].prev ELSE r
<1>1. Held(zone, B, drawn.block) /\ LevelHas(h, B, level)
  BY DEF ZoneOK
<1>2. h \in [Addr -> Headers] /\ Layout(h, B) /\ Parted(h, B) /\ r \in Ringed(B)
  BY <1>1 DEF Held, Layout
<1>3. /\ zPc' = "scan" /\ zCall' = [units |-> units + MemBlock, tag |-> tag, user |-> user, for |-> for]
      /\ base' = b /\ rover' = b /\ start' = h[b].prev /\ zone' = zone
  BY DEF StartMalloc
<1> HIDE DEF h, r, b
<1>4. b \in Ringed(B) /\ h[b].prev \in Ringed(B) /\ ~IsFree(h, h[b].prev)
  BY <1>2, Neighbours DEF b
<1>5. /\ zCall'.units = units + MemBlock /\ zCall'.tag = tag /\ zCall'.user = user /\ zCall'.for = for
  BY <1>3
<1>6. zCall'.units \in Nat \ {0}
  BY <1>5, WithHeader
<1>7. Drawing' <=> Drawing
  BY DEF Drawing
<1>8. /\ {start', rover', base'} \subseteq Ringed(B)
      /\ ~IsFree(zone'.hdr, start')
      /\ ~IsFree(zone'.hdr, zone'.hdr[base'].prev)
      /\ rover' = base'
  BY <1>3, <1>4 DEF h
<1>9. SearchOK(B)'
  BY <1>3, <1>5, <1>6, <1>7, <1>8 DEF SearchOK
<1>10. ZoneOK(B)'
  BY <1>1, <1>3, <1>9 DEF ZoneOK, h
<1> QED
  BY <1>10 DEF ZoneInv

\* W_CacheLumpNum: a lump in memory only changes its tag.
LEMMA CachedKeeps ==
    ASSUME NEW B \in SUBSET Addr, ZoneOK(B), zPc \in {"idle", "composite"}, zPc' = zPc,
           NEW l \in Lumps, NEW tag \in Int, zone.slot[l] # NoBlock,
           zone' = Z_ChangeTag(zone, zone.slot[l], tag), UNCHANGED level,
           drawn' = drawn \/ (zPc = "composite" /\ drawn.left # <<>> /\ drawn' = [drawn EXCEPT !.left = Tail(@)])
    PROVE  ZoneInv'
<1>1. Held(zone, B, drawn.block) /\ LevelHas(zone.hdr, B, level)
      /\ (zPc = "idle" => drawn = NotDrawn) /\ (zPc = "composite" => Drawing)
  BY DEF ZoneOK
<1>2. /\ Held(zone', B, drawn.block)
      /\ LevelHas(zone'.hdr, B, level)
  BY <1>1, TaggedIsHeld
<1>3. /\ drawn'.block = drawn.block
      /\ zPc = "idle" => drawn' = NotDrawn
      /\ zPc = "composite" => drawn' \in [block : Addr, left : Seq(Lumps)]
  <2>1. CASE drawn' = drawn
    BY <1>1, <2>1 DEF Drawing
  <2>2. CASE zPc = "composite" /\ drawn.left # <<>> /\ drawn' = [drawn EXCEPT !.left = Tail(@)]
    <3>1. drawn \in [block : Addr, left : Seq(Lumps)]
      BY <1>1, <2>2 DEF Drawing
    <3>2. Tail(drawn.left) \in Seq(Lumps)
      BY <2>2, <3>1
    <3> QED
      BY <2>2, <3>1, <3>2
  <2> QED
    BY <2>1, <2>2
<1>4. ZoneOK(B)'
  BY <1>2, <1>3 DEF ZoneOK, Drawing
<1> QED
  BY <1>4 DEF ZoneInv

LEMMA TagsAreInt == {PU_STATIC, PU_LEVEL, PU_CACHE} \subseteq Int
  BY DEF PU_STATIC, PU_LEVEL, PU_CACHE

LEMMA CacheLumpKeeps ==
    ASSUME ZoneInv, CacheLump
    PROVE  ZoneInv'
<1>1. PICK B \in SUBSET Addr : ZoneOK(B)
  BY DEF ZoneInv
<1>2. PICK l \in Lumps, tag \in {PU_STATIC, PU_LEVEL, PU_CACHE} : W_CacheLumpNum(l, tag, "lump")
  BY DEF CacheLump
<1>3. zPc = "idle" /\ UNCHANGED level /\ drawn = NotDrawn /\ tag \in Int
  BY <1>1, TagsAreInt DEF CacheLump, ZoneOK
<1>4. CASE zone.slot[l] = NoBlock
  <2>1. StartMalloc(LumpUnits[l], tag, l, "lump") /\ UNCHANGED drawn
    BY <1>2, <1>4 DEF W_CacheLumpNum
  <2>2. LumpUnits[l] \in Nat
    BY ZoneAssumption
  <2> QED
    BY <1>1, <1>3, <1>4, <2>1, <2>2, StartMallocKeeps
<1>5. CASE zone.slot[l] # NoBlock
  <2>1. zone' = Z_ChangeTag(zone, zone.slot[l], tag) /\ drawn' = drawn /\ zPc' = zPc
    BY <1>2, <1>5 DEF W_CacheLumpNum
  <2> QED
    BY <1>1, <1>3, <1>5, <2>1, CachedKeeps
<1> QED
  BY <1>4, <1>5

LEMMA DrawPatchKeeps ==
    ASSUME ZoneInv, DrawPatch
    PROVE  ZoneInv'
<1>1. PICK B \in SUBSET Addr : ZoneOK(B)
  BY DEF ZoneInv
<1> DEFINE l == Head(drawn.left)
<1>2. W_CacheLumpNum(l, PU_CACHE, "composite")
  BY DEF DrawPatch
<1>3. zPc = "composite" /\ UNCHANGED level /\ Drawing /\ drawn.left # <<>> /\ PU_CACHE \in Int
  BY <1>1, TagsAreInt DEF DrawPatch, ZoneOK
<1>6. l \in Lumps
  <2>1. drawn.left \in Seq(Lumps) /\ drawn.left # <<>>
    BY <1>3 DEF Drawing
  <2> QED
    BY <2>1
<1> HIDE DEF l
<1>4. CASE zone.slot[l] = NoBlock
  <2>1. StartMalloc(LumpUnits[l], PU_CACHE, l, "composite") /\ UNCHANGED drawn
    BY <1>2, <1>4 DEF W_CacheLumpNum
  <2>2. LumpUnits[l] \in Nat
    BY <1>6, ZoneAssumption
  <2> QED
    BY <1>1, <1>3, <1>4, <1>6, <2>1, <2>2, StartMallocKeeps
<1>5. CASE zone.slot[l] # NoBlock
  <2>1. zone' = Z_ChangeTag(zone, zone.slot[l], PU_CACHE) /\ drawn' = [drawn EXCEPT !.left = Tail(@)] /\ zPc' = zPc
    BY <1>2, <1>5 DEF W_CacheLumpNum
  <2> QED
    BY <1>1, <1>3, <1>5, <1>6, <2>1, CachedKeeps
<1> QED
  BY <1>4, <1>5

LEMMA GetColumnKeeps ==
    ASSUME ZoneInv, R_GetColumn
    PROVE  ZoneInv'
<1>1. PICK B \in SUBSET Addr : ZoneOK(B)
  BY DEF ZoneInv
<1>2. /\ zPc = "idle" /\ UNCHANGED <<level, drawn>> /\ drawn = NotDrawn /\ zone.slot[Texture] = NoBlock
      /\ StartMalloc(TextureUnits, PU_STATIC, Texture, "composite")
  BY <1>1 DEF R_GetColumn, ZoneOK
<1>3. TextureUnits \in Nat /\ PU_STATIC \in Int
  BY ZoneAssumption, TagsAreInt
<1> QED
  BY <1>1, <1>2, <1>3, StartMallocKeeps

LEMMA LevelAllocKeeps ==
    ASSUME ZoneInv, LevelAlloc
    PROVE  ZoneInv'
<1>1. PICK B \in SUBSET Addr : ZoneOK(B)
  BY DEF ZoneInv
<1>2. PICK u \in LevelUnits : StartMalloc(u, PU_LEVEL, Unowned, "level")
  BY DEF LevelAlloc
<1>3. zPc = "idle" /\ UNCHANGED <<level, drawn>> /\ drawn = NotDrawn
  BY <1>1 DEF LevelAlloc, ZoneOK
<1>4. u \in Nat /\ PU_LEVEL \in Int /\ Unowned \notin Slots
  BY ZoneAssumption, TagsAreInt, Names
<1> QED
  BY <1>1, <1>2, <1>3, <1>4, StartMallocKeeps

LEMMA CompositeDoneKeeps ==
    ASSUME ZoneInv, CompositeDone
    PROVE  ZoneInv'
<1>1. PICK B \in SUBSET Addr : ZoneOK(B)
  BY DEF ZoneInv
<1>2. /\ zPc = "composite" /\ zPc' = "idle" /\ drawn' = NotDrawn /\ UNCHANGED level
      /\ zone' = Composed(zone, drawn.block)
  BY DEF CompositeDone, Composed
<1>3. Held(zone, B, drawn.block) /\ Drawing /\ LevelHas(zone.hdr, B, level)
  BY <1>1, <1>2 DEF ZoneOK
<1>4. drawn.block # NoBlock
  BY <1>3, ZoneConstants DEF Drawing
<1>5. Held(zone', B, NoBlock) /\ LevelHas(zone'.hdr, B, level)
  BY <1>2, <1>3, <1>4, DrawnIsHeld
<1>6. drawn'.block = NoBlock
  BY <1>2 DEF NotDrawn
<1>7. ZoneOK(B)'
  BY <1>2, <1>5, <1>6 DEF ZoneOK
<1> QED
  BY <1>7 DEF ZoneInv

\* A search that has thrown out a block stands on the free block it became.
LEMMA PurgedSearch ==
    ASSUME NEW h \in [Addr -> Headers], NEW B, Layout(h, B), Parted(h, B), NEW a \in B, ~IsFree(h, a),
           NEW k \in Ringed(B), ~IsFree(h, h[k].prev), a = k \/ (IsFree(h, k) /\ a = h[k].next),
           NEW s \in Ringed(B), ~IsFree(h, s), s # a
    PROVE  LET f == At(h, a)
               C == StillThere(h, B, a)
               j == Freed(h, a)
           IN  /\ f \in C /\ h[k].prev \in Ringed(C) /\ j[h[k].prev].next = f
               /\ IsFree(j, f) /\ ~IsFree(j, j[f].prev) /\ j[f].next \in Ringed(C)
               /\ s \in Ringed(C) /\ ~IsFree(j, s)
<1> DEFINE f == At(h, a)
           C == StillThere(h, B, a)
           j == Freed(h, a)
           q == h[k].prev
<1>1. /\ j \in [Addr -> Headers] /\ Layout(j, C) /\ f \in C /\ j[f].prev = h[f].prev
      /\ \A c \in Addr : /\ j[c].next = IF c = f THEN Behind(h, a) ELSE h[c].next
                         /\ j[c].user = IF c = a THEN Free ELSE h[c].user
  BY FreedIs
<1>2. k = f
  <2>1. CASE a = k
    BY <2>1 DEF At
  <2>2. CASE IsFree(h, k) /\ a = h[k].next
    <3>1. h[a].prev = k
      BY <2>2, Neighbours
    <3> QED
      BY <2>2, <3>1 DEF At
  <2> QED
    BY <2>1, <2>2
<1>3. /\ a \in Addr /\ f \in Addr /\ q \in Ringed(B) /\ q \in Addr /\ h[q].next = f /\ s \in Addr
      /\ f \in B /\ \A c \in C : c \in B
  <2>1. C \subseteq B
    BY DEF StillThere
  <2>2. \A c \in Ringed(B) : c \in Addr /\ h[c].prev \in Ringed(B) /\ h[h[c].prev].next = c
    <3> HIDE DEF C, f, j, q
    <3> QED
      BY CapFacts DEF Layout
  <2> HIDE DEF C, f
  <2> QED
    BY <1>1, <1>2, <2>1, <2>2 DEF Ringed
\* The block before stays.
<1>4. q < f /\ q \in Nat /\ f \in Nat
  <2>1. h[f].prev < f
    BY <1>3, LayoutFacts
  <2> QED
    BY <1>2, <1>3, <2>1, ZoneConstants
<1>5. q # a
  <2>1. f = a \/ (f = h[a].prev /\ h[a].prev < a /\ a \in Nat)
    BY <1>3, LayoutFacts, ZoneConstants DEF At
  <2> QED
    BY <1>4, <2>1
<1>6. \A c \in Ringed(B) : ~IsFree(h, c) /\ c # a => c \in Ringed(C) /\ ~IsFree(j, c)
  <2>1. \A c \in B : c # a /\ ~IsFree(h, c) => c \in C
    BY UsedStay
  <2>2. \A c \in Ringed(B) : c \in Addr
    BY Neighbours
  <2> HIDE DEF C, j
  <2> QED
    BY <1>1, <2>1, <2>2 DEF Ringed, IsFree
<1>7. IsFree(j, f)
  <2>1. f = a \/ IsFree(h, f)
    BY DEF At
  <2> QED
    BY <1>1, <1>3, <2>1 DEF IsFree
<1>8. j[f].next \in Ringed(C)
  BY <1>1 DEF Layout, Ringed
<1> HIDE DEF f, C, j
<1>9. q \in Ringed(C) /\ ~IsFree(j, q) /\ j[q].next = f /\ j[f].prev = q
  BY <1>1, <1>2, <1>3, <1>4, <1>5, <1>6
<1>10. s \in Ringed(C) /\ ~IsFree(j, s)
  BY <1>6
<1> QED
  BY <1>1, <1>7, <1>8, <1>9, <1>10 DEF f, C, j

LEMMA PurgeKeeps ==
    ASSUME ZoneInv, Purge
    PROVE  ZoneInv'
<1>1. PICK B \in SUBSET Addr : ZoneOK(B)
  BY DEF ZoneInv
<1> DEFINE h == zone.hdr
           d == drawn.block
           q == h[base].prev
<1>2. /\ zPc = "scan" /\ zPc' = "scan" /\ UNCHANGED <<zCall, start, level, drawn>>
      /\ rover # start /\ ~IsFree(h, rover) /\ h[rover].tag >= PU_PURGELEVEL
      /\ zone' = Forget(Z_Free(zone, rover))
      /\ base' = zone'.hdr[q].next /\ rover' = zone'.hdr[zone'.hdr[q].next].next
  BY DEF Purge, Scanning, AtStart, Purgeable
<1>3. Held(zone, B, d) /\ SearchOK(B) /\ LevelHas(h, B, level)
  BY <1>1, <1>2 DEF ZoneOK
<1>4. h \in [Addr -> Headers] /\ Layout(h, B) /\ Parted(h, B) /\ Owned(h, B, zone.slot, d)
  BY <1>3 DEF Held, Layout
<1>5. rover \in B /\ rover # d /\ h[rover].user # Unowned
  <2>1. rover \in Ringed(B) /\ h[Cap].tag = PU_STATIC
    BY <1>3, <1>4, CapFacts DEF SearchOK
  <2>2. PU_STATIC < PU_PURGELEVEL /\ PU_LEVEL < PU_PURGELEVEL
    BY DEF PU_STATIC, PU_PURGELEVEL, PU_LEVEL
  <2>3. ~(PU_STATIC >= PU_PURGELEVEL) /\ ~(PU_LEVEL >= PU_PURGELEVEL)
    BY DEF PU_STATIC, PU_PURGELEVEL, PU_LEVEL
  <2>4. rover # Cap
    BY <1>2, <2>1, <2>3
  <2>5. rover \in B
    BY <2>1, <2>4 DEF Ringed
  <2>6. rover # NoBlock
    BY <1>4, <2>5, CapFacts, ZoneConstants
  <2> QED
    BY <1>2, <1>4, <2>3, <2>5, <2>6 DEF Owned
<1>6. PICK y : y = Z_Free(zone, rover)
  OBVIOUS
<1>7. PICK C : C = StillThere(h, B, rover)
  OBVIOUS
<1>8. /\ Held(y, C, d) /\ y.hdr = Freed(h, rover)
      /\ \A s \in Slots : zone.slot[s] = NoBlock => y.slot[s] = NoBlock
      /\ LevelHas(y.hdr, C, level \ {rover})
  <2>1. h = zone.hdr /\ Held(zone, B, d) /\ ~IsFree(h, rover) /\ d # rover /\ LevelHas(h, B, level)
    BY <1>2, <1>3, <1>5
  <2> HIDE DEF h, d, q
  <2>2. /\ Held(y, StillThere(h, B, rover), d) /\ y.hdr = Freed(h, rover)
        /\ \A s \in Slots : zone.slot[s] = NoBlock => y.slot[s] = NoBlock
        /\ \A l : LevelHas(h, B, l) => LevelHas(y.hdr, StillThere(h, B, rover), l \ {rover})
    BY <1>5, <1>6, <2>1, FreedIsHeld
  <2> QED
    BY <1>7, <2>1, <2>2
<1>9. level \ {rover} = level
  BY <1>3, <1>5 DEF LevelHas
<1>10. /\ Held(zone', C, d) /\ zone'.slot = y.slot
       /\ \A c \in Ringed(C) : zone'.hdr[c] = y.hdr[c]
       /\ LevelHas(zone'.hdr, C, level)
  <2>1. zone' = Forget(y) /\ Held(y, C, d) /\ LevelHas(y.hdr, C, level)
    BY <1>2, <1>6, <1>8, <1>9
  <2> HIDE DEF h, d, q
  <2>2. PICK x : x = zone'
    OBVIOUS
  <2>3. /\ Held(x, C, d) /\ x.slot = y.slot
        /\ \A c \in Ringed(C) : x.hdr[c] = y.hdr[c]
        /\ \A l : LevelHas(y.hdr, C, l) => LevelHas(x.hdr, C, l)
    BY <2>1, <2>2, ForgottenIsHeld
  <2> QED
    BY <2>1, <2>2, <2>3
<1> DEFINE f == At(h, rover)
           j == Freed(h, rover)
<1>11. /\ f \in C /\ q \in Ringed(C) /\ j[q].next = f
       /\ IsFree(j, f) /\ ~IsFree(j, j[f].prev) /\ j[f].next \in Ringed(C)
       /\ start \in Ringed(C) /\ ~IsFree(j, start)
  <2>1. /\ base \in Ringed(B) /\ start \in Ringed(B) /\ ~IsFree(h, start) /\ ~IsFree(h, h[base].prev)
        /\ rover = base \/ (IsFree(h, base) /\ rover = h[base].next)
    BY <1>3 DEF SearchOK
  <2>2. start # rover
    BY <1>2
  <2> HIDE DEF h
  <2> QED
    BY <1>2, <1>4, <1>5, <1>7, <2>1, <2>2, PurgedSearch DEF h
<1>12. C \in SUBSET Addr /\ j[f].prev \in Ringed(C)
  <2>1. Layout(j, C)
    BY <1>8 DEF Held
  <2>2. C \in SUBSET Addr
    BY <2>1, CapFacts
  <2> QED
    BY <1>11, <2>1, <2>2 DEF Layout, Ringed
<1> HIDE DEF f, j
<1>13. /\ base' = f /\ rover' = j[f].next
       /\ {start', rover', base'} \subseteq Ringed(C)
       /\ IsFree(zone'.hdr, base') /\ rover' = zone'.hdr[base'].next
       /\ ~IsFree(zone'.hdr, zone'.hdr[base'].prev)
       /\ ~IsFree(zone'.hdr, start')
  <2>1. \A c \in Ringed(C) : zone'.hdr[c] = j[c]
    BY <1>8, <1>10 DEF j
  <2>2. f \in Ringed(C)
    BY <1>11 DEF Ringed
  <2>3. base' = f /\ rover' = j[f].next /\ start' = start
    BY <1>2, <1>11, <2>1, <2>2
  <2> QED
    BY <1>11, <1>12, <2>1, <2>2, <2>3 DEF IsFree
<1>14. SearchOK(C)'
  <2>1. Drawing' <=> Drawing
    BY <1>2 DEF Drawing
  <2>2. zCall.user \in Slots => zone'.slot[zCall.user] = NoBlock
    BY <1>3, <1>8, <1>10 DEF SearchOK
  <2> QED
    BY <1>2, <1>3, <1>13, <2>1, <2>2 DEF SearchOK
<1>15. ZoneOK(C)'
  BY <1>2, <1>10, <1>14 DEF ZoneOK
<1> QED
  BY <1>12, <1>15 DEF ZoneInv

LEMMA LevelFreeKeeps ==
    ASSUME ZoneInv, LevelFree
    PROVE  ZoneInv'
<1>1. PICK B \in SUBSET Addr : ZoneOK(B)
  BY DEF ZoneInv
<1>2. PICK a \in level : zone' = Forget(Z_Free(zone, a)) /\ level' = level \ {a}
  BY DEF LevelFree
<1>3. zPc = "idle" /\ UNCHANGED <<zPc, drawn>> /\ drawn = NotDrawn
  BY <1>1 DEF LevelFree, ZoneOK
<1> DEFINE h == zone.hdr
<1>4. Held(zone, B, NoBlock) /\ LevelHas(h, B, level) /\ drawn.block = NoBlock
  BY <1>1, <1>3 DEF ZoneOK, NotDrawn
<1>5. a \in B /\ ~IsFree(h, a) /\ NoBlock # a
  <2>1. a \in B /\ h[a].user = Unowned
    BY <1>4 DEF LevelHas
  <2>2. B \subseteq Addr
    OBVIOUS
  <2> QED
    BY <2>1, <2>2, Names, ZoneConstants DEF IsFree
<1>6. PICK y : y = Z_Free(zone, a)
  OBVIOUS
<1>7. PICK C : C = StillThere(h, B, a)
  OBVIOUS
<1>8. Held(y, C, NoBlock) /\ LevelHas(y.hdr, C, level \ {a})
  <2>1. h = zone.hdr /\ Held(zone, B, NoBlock) /\ ~IsFree(h, a) /\ NoBlock # a /\ LevelHas(h, B, level)
    BY <1>4, <1>5
  <2> HIDE DEF h
  <2>2. /\ Held(y, StillThere(h, B, a), NoBlock)
        /\ \A l : LevelHas(h, B, l) => LevelHas(y.hdr, StillThere(h, B, a), l \ {a})
    BY <1>5, <1>6, <2>1, FreedIsHeld
  <2> QED
    BY <1>7, <2>1, <2>2
<1>9. Held(zone', C, NoBlock) /\ LevelHas(zone'.hdr, C, level \ {a})
  <2>1. PICK x : x = zone'
    OBVIOUS
  <2>2. x = Forget(y)
    BY <1>2, <1>6, <2>1
  <2>3. /\ Held(x, C, NoBlock)
        /\ \A l : LevelHas(y.hdr, C, l) => LevelHas(x.hdr, C, l)
    BY <1>8, <2>2, ForgottenIsHeld
  <2> QED
    BY <1>8, <2>1, <2>3
<1>10. C \in SUBSET Addr
  <2>1. C \subseteq B
    BY <1>7, UsedStay
  <2> QED
    BY <2>1
<1>11. ZoneOK(C)'
  BY <1>2, <1>3, <1>4, <1>9 DEF ZoneOK
<1> QED
  BY <1>10, <1>11 DEF ZoneInv

LEMMA SetupLevelKeeps ==
    ASSUME ZoneInv, P_SetupLevel
    PROVE  ZoneInv'
<1>1. PICK B \in SUBSET Addr : ZoneOK(B)
  BY DEF ZoneInv
<1>2. /\ zPc = "idle" /\ zPc' = "free tags" /\ walk' = zone.hdr[Cap].next /\ UNCHANGED <<zone, drawn>>
      /\ Held(zone, B, drawn.block) /\ drawn = NotDrawn
  BY <1>1 DEF P_SetupLevel, ZoneOK
<1>3. walk' = First /\ First \in B /\ First \in Addr /\ First # Cap /\ Cap \notin B /\ \A a \in B : a >= First
  <2>1. Layout(zone.hdr, B)
    BY <1>2 DEF Held
  <2>2. zone.hdr[Cap].next = First /\ First \in B
    BY <2>1, CapFacts
  <2>3. \A a \in B : a \in Nat /\ a > 0 /\ a \in Addr /\ a # Cap
    BY <2>1, LayoutFacts
  <2>4. First = 1
    BY ZoneConstants
  <2>5. \A a \in B : a >= First
    BY <2>3, <2>4
  <2>6. walk' = First
    BY <1>2, <2>2
  <2> QED
    BY <2>2, <2>3, <2>5, <2>6
<1>4. WalkOK(B)'
  BY <1>2, <1>3 DEF WalkOK, Ringed
<1>5. ZoneOK(B)'
  BY <1>2, <1>4 DEF ZoneOK
<1> QED
  BY <1>5 DEF ZoneInv

LEMMA AllFreedKeeps ==
    ASSUME ZoneInv, AllFreed
    PROVE  ZoneInv'
<1>1. PICK B \in SUBSET Addr : ZoneOK(B)
  BY DEF ZoneInv
<1>2. /\ zPc = "free tags" /\ walk = Cap /\ zPc' = "idle" /\ level' = {} /\ zone' = Forget(zone) /\ drawn' = drawn
      /\ drawn = NotDrawn /\ WalkOK(B) /\ Held(zone, B, drawn.block)
  BY <1>1 DEF AllFreed, ZoneOK
<1>3. LevelHas(zone.hdr, B, {})
  BY <1>2 DEF WalkOK, LevelHas
<1>4. Held(zone', B, drawn.block) /\ LevelHas(zone'.hdr, B, {})
  <2>1. PICK x : x = zone'
    OBVIOUS
  <2>2. x = Forget(zone)
    BY <1>2, <2>1
  <2>3. /\ Held(x, B, drawn.block)
        /\ \A l : LevelHas(zone.hdr, B, l) => LevelHas(x.hdr, B, l)
    BY <1>2, <2>2, ForgottenIsHeld
  <2> QED
    BY <1>3, <2>1, <2>3
<1>5. ZoneOK(B)'
  BY <1>2, <1>4 DEF ZoneOK
<1> QED
  BY <1>5 DEF ZoneInv

\* Behind a block there is the next one, or none.
LEMMA Onwards ==
    ASSUME NEW h, NEW B, Layout(h, B), NEW a \in B, NEW c \in B, c >= a, c # a
    PROVE  h[a].next # Cap /\ c >= h[a].next
<1>1. a \in Nat /\ c \in Nat /\ c < ZoneUnits
  BY LayoutFacts
<1>2. a < c
  BY <1>1
<1>3. /\ h[a].next = Cap => a + h[a].size = ZoneUnits
      /\ h[a].next # Cap => a + h[a].size = h[a].next
      /\ h[a].size \in Nat
  BY LayoutFacts
<1>4. a + h[a].size <= c
  BY <1>2 DEF Layout
<1> QED
  BY <1>1, <1>3, <1>4, ZoneConstants

\* The block that Z_FreeTags goes to is there, or is part of a free block now.
LEMMA WalkFreed ==
    ASSUME NEW h \in [Addr -> Headers], NEW B, Layout(h, B), NEW a \in B, ~IsFree(h, a),
           NEW n, n = h[a].next, NEW j, j = Freed(h, a), NEW C, C = StillThere(h, B, a)
    PROVE  \/ n \in Ringed(C)
           \/ /\ IsFree(j, n) /\ j[n].next \in Ringed(C)
              /\ \A c \in C : c >= n => j[n].next # Cap /\ c >= j[n].next
<1>1. /\ Layout(j, C) /\ At(h, a) \in C
      /\ \A c \in Addr : /\ j[c].next = IF c = At(h, a) THEN Behind(h, a) ELSE h[c].next
                         /\ j[c].user = IF c = a THEN Free ELSE h[c].user
  BY FreedIs
<1>2. /\ n \in Addr /\ n # a /\ a \in Nat /\ n # At(h, a) /\ (n # Cap => n \in B)
  <2>1. /\ a \in Nat /\ a # Cap /\ n \in Addr /\ (n # Cap => n \in B /\ n > a)
        /\ h[a].prev < a /\ h[a].prev \in Addr
    BY LayoutFacts
  <2>2. n \in Nat /\ h[a].prev \in Nat
    BY <2>1, ZoneConstants
  <2>3. n # h[a].prev \/ n = Cap
    BY <2>1, <2>2
  <2>4. n = Cap => n # At(h, a)
    BY <1>1, CapFacts DEF StillThere
  <2> QED
    BY <2>1, <2>2, <2>3, <2>4 DEF At
<1>3. CASE n \in Ringed(C)
  BY <1>3
<1>4. CASE n \notin Ringed(C)
  <2>1. n # Cap /\ n \in B /\ IsFree(h, n)
    BY <1>2, <1>4 DEF Ringed, StillThere
  <2>2. IsFree(j, n) /\ j[n].next = h[n].next
    BY <1>1, <1>2, <2>1 DEF IsFree
  <2>3. h[n].next \in Ringed(C)
    <3>1. Behind(h, a) = h[n].next
      BY <2>1 DEF Behind
    <3>2. At(h, a) \in Addr /\ j[At(h, a)].next \in Ringed(C)
      <4>1. C \subseteq Addr
        BY <1>1, CapFacts
      <4>2. At(h, a) \in Ringed(C)
        BY <1>1 DEF Ringed
      <4> QED
        BY <1>1, <4>1, <4>2 DEF Layout
    <3> QED
      BY <1>1, <3>1, <3>2
  <2>4. ASSUME NEW c \in C, c >= n
        PROVE  h[n].next # Cap /\ c >= h[n].next
    <3>1. c \in B /\ c # n
      BY <1>4, UsedStay DEF Ringed
    <3> QED
      BY <2>1, <2>4, <3>1, Onwards
  <2> QED
    BY <2>2, <2>3, <2>4
<1> QED
  BY <1>3, <1>4

LEMMA FreeNextKeeps ==
    ASSUME ZoneInv, FreeNext
    PROVE  ZoneInv'
<1>1. PICK B \in SUBSET Addr : ZoneOK(B)
  BY DEF ZoneInv
<1> DEFINE h == zone.hdr
<1>2. /\ zPc = "free tags" /\ zPc' = "free tags" /\ UNCHANGED <<level, drawn>> /\ walk # Cap
      /\ zone' = IF ~IsFree(h, walk) /\ OfLevel(h[walk].tag) THEN Z_Free(zone, walk) ELSE zone
      /\ walk' = h[walk].next
      /\ drawn = NotDrawn /\ drawn.block = NoBlock /\ WalkOK(B) /\ Held(zone, B, NoBlock)
  <2>1. zPc = "free tags" /\ zPc' = "free tags" /\ walk # Cap /\ walk' = h[walk].next
    BY DEF FreeNext
  <2>2. UNCHANGED <<level, drawn>>
    BY DEF FreeNext
  <2>3. zone' = IF ~IsFree(h, walk) /\ OfLevel(h[walk].tag) THEN Z_Free(zone, walk) ELSE zone
    BY DEF FreeNext
  <2>4. drawn = NotDrawn /\ WalkOK(B) /\ Held(zone, B, drawn.block)
    BY <1>1, <2>1 DEF ZoneOK
  <2>5. drawn.block = NoBlock
    BY <2>4 DEF NotDrawn
  <2> QED
    BY <2>1, <2>2, <2>3, <2>4, <2>5
<1>3. h \in [Addr -> Headers] /\ Layout(h, B) /\ Owned(h, B, zone.slot, NoBlock) /\ B \subseteq Addr
  BY <1>2 DEF Held, Layout
<1>4. walk \in Addr /\ \A a \in B : h[a].user = Unowned => a >= walk
  BY <1>2 DEF WalkOK
<1>5. walk' \in Addr
  BY <1>2, <1>3, <1>4, CapFacts
<1>6. CASE walk \in B /\ ~IsFree(h, walk) /\ OfLevel(h[walk].tag)
  <2>1. PICK y : y = Z_Free(zone, walk)
    OBVIOUS
  <2>2. PICK C : C = StillThere(h, B, walk)
    OBVIOUS
  <2>3. zone' = y
    BY <1>2, <1>6, <2>1
  <2>4. Held(y, C, NoBlock) /\ y.hdr = Freed(h, walk)
    <3>1. h = zone.hdr /\ Held(zone, B, NoBlock) /\ ~IsFree(h, walk) /\ NoBlock # walk
      BY <1>2, <1>4, <1>6, ZoneConstants
    <3> HIDE DEF h
    <3>2. /\ Held(y, StillThere(h, B, walk), NoBlock) /\ y.hdr = Freed(h, walk)
      BY <1>6, <2>1, <3>1, FreedIsHeld
    <3> QED
      BY <2>2, <3>2
  <2> DEFINE n == h[walk].next
             j == y.hdr
  <2>5. \/ n \in Ringed(C)
        \/ /\ IsFree(j, n) /\ j[n].next \in Ringed(C)
           /\ \A c \in C : c >= n => j[n].next # Cap /\ c >= j[n].next
    <3>1. j = Freed(h, walk) /\ n = h[walk].next
      BY <2>4
    <3> HIDE DEF h, n, j
    <3> QED
      BY <1>3, <1>6, <2>2, <3>1, WalkFreed
  <2>6. C \subseteq B /\ \A c \in Addr : j[c].user = IF c = walk THEN Free ELSE h[c].user
    <3>1. \A c \in Addr : Freed(h, walk)[c].user = IF c = walk THEN Free ELSE h[c].user
      BY <1>3, <1>6, FreedIs
    <3> QED
      BY <2>2, <2>4, <3>1, UsedStay
  <2>7. ASSUME NEW a \in C, j[a].user = Unowned
        PROVE  n # Cap /\ a >= n
    <3>1. a \in B /\ a # walk /\ h[a].user = Unowned
      BY <1>3, <2>6, <2>7, Names
    <3> HIDE DEF h
    <3> QED
      BY <1>3, <1>4, <1>6, <3>1, Onwards DEF h
  <2>8. walk' = n /\ zone'.hdr = j
    BY <1>2, <2>3
  <2> HIDE DEF n, j, h
  <2>9. WalkOK(C)'
    BY <1>5, <2>5, <2>7, <2>8 DEF WalkOK
  <2>10. ZoneOK(C)'
    BY <1>2, <2>3, <2>4, <2>9 DEF ZoneOK
  <2>11. C \in SUBSET Addr
    BY <2>6
  <2> QED
    BY <2>10, <2>11 DEF ZoneInv
<1>7. CASE walk \in B /\ ~(~IsFree(h, walk) /\ OfLevel(h[walk].tag))
  <2>1. zone' = zone
    BY <1>2, <1>7
  <2>2. h[walk].next \in Ringed(B)
    BY <1>3, <1>7 DEF Layout, Ringed
  <2>3. h[walk].user # Unowned
    <3>1. h[walk].user = Unowned => h[walk].tag = PU_LEVEL
      BY <1>3, <1>7 DEF Owned
    <3>2. OfLevel(PU_LEVEL)
      BY DEF OfLevel, PU_LEVEL, PU_PURGELEVEL
    <3> QED
      BY <1>7, <3>1, <3>2, Names DEF IsFree
  <2>4. ASSUME NEW a \in B, h[a].user = Unowned
        PROVE  h[walk].next # Cap /\ a >= h[walk].next
    <3>1. a # walk /\ a >= walk
      BY <1>4, <2>3, <2>4
    <3> HIDE DEF h
    <3> QED
      BY <1>3, <1>7, <3>1, Onwards
  <2>5. WalkOK(B)'
    BY <1>2, <1>5, <2>1, <2>2, <2>4 DEF WalkOK
  <2>6. ZoneOK(B)'
    BY <1>2, <2>1, <2>5 DEF ZoneOK
  <2> QED
    BY <2>6 DEF ZoneInv
<1>8. CASE walk \notin B
  <2>1. /\ IsFree(h, walk) /\ h[walk].next \in Ringed(B)
        /\ \A a \in B : a >= walk => h[walk].next # Cap /\ a >= h[walk].next
    BY <1>2, <1>8 DEF WalkOK, Ringed
  <2>2. zone' = zone
    BY <1>2, <2>1
  <2>3. WalkOK(B)'
    BY <1>2, <1>4, <1>5, <2>1, <2>2 DEF WalkOK
  <2>4. ZoneOK(B)'
    BY <1>2, <2>2, <2>3 DEF ZoneOK
  <2> QED
    BY <2>4 DEF ZoneInv
<1> QED
  BY <1>6, <1>7, <1>8

LEMMA ReturnKeeps ==
    ASSUME ZoneInv, Return
    PROVE  ZoneInv'
<1>1. PICK B \in SUBSET Addr : ZoneOK(B)
  BY DEF ZoneInv
<1>2. PICK h, slot, d, lv : h = zone.hdr /\ slot = zone.slot /\ d = drawn.block /\ lv = level
  OBVIOUS
<1>3. PICK a, user, tag, u : a = base /\ user = zCall.user /\ tag = zCall.tag /\ u = zCall.units
  OBVIOUS
<1>4. PICK data : data = DataOf(user)
  OBVIOUS
<1>5. PICK t : t = PointersTo(a, user, slot)
  OBVIOUS
<1>6. PICK e : e = DrawnOn(a, user, d)
  OBVIOUS
<1>7. PICK s : s = SplitBlock(h, a, u)
  OBVIOUS
<1>8. PICK g : g = Settled(s, a, user, tag, data)
  OBVIOUS
<1>9. PICK l : l = LevelWith(a, user, lv)
  OBVIOUS
<1>10. /\ zPc = "scan" /\ IsFree(h, a) /\ h[a].size >= u
       /\ zone' = Filled(Given(zone, base), base)
       /\ level' = IF zCall.for = "level" THEN level \cup {base} ELSE level
       /\ drawn' = IF zCall.user = Texture THEN [block |-> base, left |-> Patches]
                   ELSE IF zCall.for = "composite" THEN [drawn EXCEPT !.left = Tail(@)]
                   ELSE drawn
       /\ zPc' = IF zCall.for = "composite" THEN "composite" ELSE "idle"
  BY <1>2, <1>3 DEF Return, Found
<1>11. Held(zone, B, d) /\ SearchOK(B) /\ LevelHas(h, B, lv)
  BY <1>1, <1>2, <1>10 DEF ZoneOK
<1>12. h \in [Addr -> Headers] /\ Layout(h, B) /\ Parted(h, B) /\ Owned(h, B, slot, d)
  BY <1>2, <1>11 DEF Held, Layout
<1>13. a \in B /\ a \in Addr
  <2>1. a \in Ringed(B)
    BY <1>3, <1>11 DEF SearchOK
  <2> QED
    BY <1>10, <1>12, <2>1, Neighbours
<1>14. /\ u \in Nat \ {0} /\ tag \in Int
       /\ user \in Slots => slot[user] = NoBlock
  BY <1>2, <1>3, <1>11 DEF SearchOK
<1>15. \/ zCall.for = "lump" /\ user \in Lumps /\ drawn = NotDrawn
       \/ zCall.for = "composite" /\ user \in Lumps /\ Drawing /\ drawn.left # <<>>
       \/ zCall.for = "composite" /\ user = Texture /\ drawn = NotDrawn /\ tag = PU_STATIC
       \/ zCall.for = "level" /\ user = Unowned /\ drawn = NotDrawn /\ tag = PU_LEVEL
  BY <1>3, <1>11 DEF SearchOK
<1>16. /\ user \in Slots \cup {Unowned} /\ (user = Unowned => tag = PU_LEVEL) /\ (user = Texture => tag = PU_STATIC)
       /\ zCall.for = "level" <=> user = Unowned
  BY <1>15, Names
<1>17. PICK C : /\ Layout(g, C) /\ Parted(g, C) /\ Owned(g, C, t, e) /\ s[a].next \in Ringed(C)
                /\ LevelHas(g, C, l)
  <2>1. g = Settled(SplitBlock(h, a, u), a, user, tag, DataOf(user))
    BY <1>4, <1>7, <1>8
  <2>3. IsFree(h, a) /\ h[a].size >= u
    BY <1>10
  <2>4. a \in B /\ user \in Slots \cup {Unowned} /\ (user = Unowned => tag = PU_LEVEL) /\ (user = Texture => tag = PU_STATIC)
    BY <1>13, <1>16
  <2>5. LevelHas(h, B, lv)
    BY <1>11
  <2>6. \E C : /\ Layout(g, C) /\ Parted(g, C)
               /\ Owned(g, C, PointersTo(a, user, slot), DrawnOn(a, user, d))
               /\ SplitBlock(h, a, u)[a].next \in Ringed(C)
               /\ LevelHas(g, C, LevelWith(a, user, lv))
    BY <1>12, <1>14, <2>1, <2>3, <2>4, <2>5, SettledIsHeld
  <2> QED
    BY <1>5, <1>6, <1>7, <1>9, <2>6
<1>18. zone' = [hdr |-> g, rover |-> s[a].next, slot |-> t]
  <2>1. s = SplitBlock(zone.hdr, a, zCall.units)
    BY <1>2, <1>3, <1>7
  <2>2. data = IF zCall.user \in Lumps THEN zCall.user ELSE "raw"
    BY <1>3, <1>4 DEF DataOf
  <2>3. t = IF zCall.user \in Slots THEN [zone.slot EXCEPT ![zCall.user] = a] ELSE zone.slot
    BY <1>2, <1>3, <1>5 DEF PointersTo
  <2>4. Filled(Given(zone, a), a) = [hdr |-> Settled(s, a, zCall.user, zCall.tag, data),
                                     rover |-> s[a].next, slot |-> t]
    BY <2>1, <2>2, <2>3, GivenIs
  <2> QED
    BY <1>3, <1>8, <1>10, <2>4
<1>19. IsZone(zone') /\ zone'.hdr = g /\ zone'.rover = s[a].next /\ zone'.slot = t
  <2>1. PICK x : x = zone'
    OBVIOUS
  <2>2. IsZone(x) /\ x.hdr = g /\ x.rover = s[a].next /\ x.slot = t
    BY <1>18, <2>1, ZoneOf
  <2> QED
    BY <2>1, <2>2
<1>20. Held(zone', C, e)
  BY <1>17, <1>19 DEF Held
<1>21. level' = l
  BY <1>2, <1>3, <1>9, <1>10, <1>16 DEF LevelWith
<1>22. /\ drawn'.block = e
       /\ zPc' = "idle" => drawn' = NotDrawn
       /\ zPc' = "composite" => drawn' \in [block : Addr, left : Seq(Lumps)]
       /\ zPc' \in {"idle", "composite"}
  <2>1. CASE user = Texture
    <3>1. drawn' = [block |-> a, left |-> Patches] /\ zPc' = "composite" /\ e = a
      BY <1>3, <1>6, <1>10, <1>15, <2>1, Names DEF DrawnOn
    <3>2. Patches \in Seq(Lumps)
      BY ZoneAssumption
    <3> QED
      BY <1>13, <3>1, <3>2
  <2>2. CASE user # Texture /\ zCall.for = "composite"
    <3>1. Drawing /\ drawn.left # <<>> /\ zPc' = "composite" /\ drawn' = [drawn EXCEPT !.left = Tail(@)]
          /\ e = drawn.block
      BY <1>2, <1>3, <1>6, <1>10, <1>15, <2>2 DEF DrawnOn
    <3>2. drawn \in [block : Addr, left : Seq(Lumps)]
      BY <3>1 DEF Drawing
    <3>3. Tail(drawn.left) \in Seq(Lumps)
      BY <3>1, <3>2
    <3> QED
      BY <3>1, <3>2, <3>3
  <2>3. CASE user # Texture /\ zCall.for # "composite"
    BY <1>2, <1>3, <1>6, <1>10, <1>15, <2>3 DEF DrawnOn
  <2> QED
    BY <2>1, <2>2, <2>3
<1>23. C \in SUBSET Addr
  BY <1>17, CapFacts
<1>24. ZoneOK(C)'
  BY <1>17, <1>19, <1>20, <1>21, <1>22 DEF ZoneOK, Drawing
<1> QED
  BY <1>23, <1>24 DEF ZoneInv

LEMMA ZoneKept ==
    ASSUME ZoneInv, [ZoneNext]_zoneVars
    PROVE  ZoneInv'
<1>1. CASE UNCHANGED zoneVars
  <2>1. PICK B \in SUBSET Addr : ZoneOK(B)
    BY DEF ZoneInv
  <2>2. ZoneOK(B)'
    BY <1>1, <2>1 DEF zoneVars, ZoneOK, SearchOK, WalkOK, Drawing
  <2> QED
    BY <2>2 DEF ZoneInv
<1>2. CASE ZoneNext
  BY <1>2, OutOfMemoryKeeps, SkipUsedKeeps, PurgeKeeps, SkipFreeKeeps, ReturnKeeps, DrawPatchKeeps,
     CompositeDoneKeeps, FreeNextKeeps, AllFreedKeeps, CacheLumpKeeps, GetColumnKeeps, LevelAllocKeeps,
     LevelFreeKeeps, SetupLevelKeeps DEF ZoneNext, ZoneStep
<1> QED
  BY <1>1, <1>2

-----------------------------------------------------------------------------
(* The invariant holds at the start, and is all that is needed.            *)

LEMMA ZoneStarts ==
    ASSUME ZoneInit
    PROVE  ZoneInv
<1> DEFINE h == [a \in Addr |->
                CASE a = Cap -> Block(0, "zone", PU_STATIC, First, First)
                  [] a = First -> Block(ZoneUnits - 1, Free, 0, Cap, Cap)
                  [] OTHER -> Scribbled]
           B == {First}
           slot == [s \in Slots |-> NoBlock]
<1>1. zone = [hdr |-> h, rover |-> First, slot |-> slot]
  BY DEF ZoneInit, Z_Init
<1>2. IsZone(zone) /\ zone.hdr = h /\ zone.rover = First /\ zone.slot = slot
  BY <1>1, ZoneOf
<1>3. Cap \in Addr /\ First \in Addr /\ First # Cap /\ Cap = 0 /\ First = 1 /\ ZoneUnits - 1 \in Nat /\ ZoneUnits > 2
      /\ B \in SUBSET (1 .. ZoneUnits - 1) /\ ZoneUnits \in Nat
  BY ZoneConstants
<1>4. /\ h[Cap] = Block(0, "zone", PU_STATIC, First, First)
      /\ h[First] = Block(ZoneUnits - 1, Free, 0, Cap, Cap)
  BY <1>3
<1>5. h \in [Addr -> Headers]
  <2>1. Block(0, "zone", PU_STATIC, First, First) \in Headers
    BY <1>3 DEF Block, Headers, Users, PU_STATIC
  <2>2. Block(ZoneUnits - 1, Free, 0, Cap, Cap) \in Headers
    BY <1>3 DEF Block, Headers, Users
  <2>3. Scribbled \in Headers
    BY <1>3 DEF Scribbled, Block, Headers, Users
  <2> QED
    BY <2>1, <2>2, <2>3
<1> HIDE DEF h, slot
<1>6. /\ h[Cap].user = "zone" /\ h[Cap].tag = PU_STATIC /\ h[Cap].next = First /\ h[Cap].prev = First
      /\ h[First].user = Free /\ h[First].next = Cap /\ h[First].prev = Cap /\ h[First].size = ZoneUnits - 1
  BY <1>4 DEF Block
<1>7. Layout(h, B)
  <2>1. \A a \in Ringed(B) : a = Cap \/ a = First
    BY DEF Ringed
  <2>2. Cap \in Ringed(B) /\ First \in Ringed(B)
    BY DEF Ringed
  <2>3. \A a \in Ringed(B) : /\ h[a].next \in Ringed(B) /\ h[h[a].next].prev = a
                             /\ h[a].prev \in Ringed(B) /\ h[h[a].prev].next = a
    BY <1>6, <2>1, <2>2
  <2>4. h[First].size > 0 /\ First + h[First].size = ZoneUnits
    BY <1>3, <1>6
  <2>5. \A a \in B : /\ h[a].size > 0
                     /\ a + h[a].size = IF h[a].next = Cap THEN ZoneUnits ELSE h[a].next
                     /\ \A c \in B : a < c => a + h[a].size <= c
    BY <1>3, <1>6, <2>4
  <2> QED
    BY <1>3, <1>5, <1>6, <2>3, <2>5 DEF Layout
<1>8. Parted(h, B)
  BY <1>6 DEF Parted, IsFree, Free
<1>9. Owned(h, B, slot, NoBlock)
  BY <1>6, Names DEF Owned, slot
<1>10. LevelHas(h, B, {})
  BY <1>6, Names DEF LevelHas
<1>11. zone.rover \in Ringed(B)
  BY <1>2 DEF Ringed
<1>12. Held(zone, B, NoBlock)
  BY <1>2, <1>7, <1>8, <1>9, <1>11 DEF Held
<1>13. zPc = "idle" /\ level = {} /\ drawn = NotDrawn /\ drawn.block = NoBlock
  BY DEF ZoneInit, NotDrawn
<1>14. ZoneOK(B)
  BY <1>2, <1>10, <1>12, <1>13 DEF ZoneOK
<1>15. B \in SUBSET Addr
  BY <1>3
<1> QED
  BY <1>14, <1>15 DEF ZoneInv

LEMMA ZoneIsGood ==
    ASSUME ZoneInv
    PROVE  ZoneSound /\ PointersGood
<1>1. PICK B \in SUBSET Addr : ZoneOK(B)
  BY DEF ZoneInv
<1> DEFINE h == zone.hdr
<1>2. /\ Layout(h, B) /\ Parted(h, B) /\ Owned(h, B, zone.slot, drawn.block) /\ zone.rover \in Ringed(B)
      /\ zPc = "scan" => SearchOK(B)
      /\ zPc # "free tags" => LevelHas(h, B, level)
  BY <1>1 DEF ZoneOK, Held
<1>3. Blocks = B
  <2>1. Ring(h) = Ringed(B) /\ Cap \notin B
    BY <1>2, RingIsLayout, CapFacts
  <2> QED
    BY <2>1 DEF Blocks, Ringed
<1>4. B \cup {Cap} = Ringed(B)
  BY DEF Ringed
<1>5. ZoneSound
  <2>1. \A a \in B :
            LET n == h[a].next
            IN  /\ a + h[a].size = IF n = Cap THEN ZoneUnits ELSE n
                /\ h[n].prev = a
                /\ ~(IsFree(h, a) /\ IsFree(h, n))
    <3> TAKE a \in B
    <3>1. a + h[a].size = IF h[a].next = Cap THEN ZoneUnits ELSE h[a].next
      BY <1>2 DEF Layout
    <3>2. h[h[a].next].prev = a
      BY <1>2 DEF Layout, Ringed
    <3>3. ~(IsFree(h, a) /\ IsFree(h, h[a].next))
      BY <1>2 DEF Parted
    <3> QED
      BY <3>1, <3>2, <3>3
  <2>2. h[Cap].next = First
    BY <1>2 DEF Layout
  <2>3. zPc = "scan" => {start, rover, base} \subseteq Ringed(B) /\ ~IsFree(h, start)
    BY <1>2 DEF SearchOK
  <2> QED
    BY <1>2, <1>3, <1>4, <2>1, <2>2, <2>3 DEF ZoneSound
<1>6. PointersGood
  <2>1. zPc \in {"idle", "scan"} => /\ level \subseteq B
                                    /\ \A a \in B : h[a].user = Unowned <=> a \in level
    BY <1>2 DEF LevelHas
  <2> QED
    BY <1>2, <1>3, <2>1 DEF PointersGood, Owned
<1> QED
  BY <1>5, <1>6

-----------------------------------------------------------------------------
(* The results.                                                            *)

LEMMA ZoneHolds == EngineSpec => []ZoneInv
<1>1. EngineInit => ZoneInv
  BY ZoneStarts DEF EngineInit
<1>2. [EngineNext]_engineVars => [ZoneNext]_zoneVars
  BY DEF EngineNext, engineVars, Updating, Deciding, Caching, Playing, Sounding
<1>3. ZoneInv /\ [EngineNext]_engineVars => ZoneInv'
  BY <1>2, ZoneKept
<1> QED
  BY <1>1, <1>3, PTL DEF EngineSpec

\* At every moment of every search, the blocks fill the zone without a gap, are
\* linked both ways, and no two free ones are neighbours: Z_Malloc and Z_Free
\* never lose a block, and the rover is never left on memory that is no header.
THEOREM ZoneIsSound == EngineSpec => []ZoneSound
<1>1. ZoneInv => ZoneSound
  BY ZoneIsGood
<1> QED
  BY <1>1, ZoneHolds, PTL

\* A cached pointer leads to a block that is in use, owned by it and filled with
\* its data, whatever has been thrown out in between; the block of a composite
\* stays while its patches are cached, and the level keeps its own.
THEOREM PointersAreGood == EngineSpec => []PointersGood
<1>1. ZoneInv => PointersGood
  BY ZoneIsGood
<1> QED
  BY <1>1, ZoneHolds, PTL
=============================================================================
