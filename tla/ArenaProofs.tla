------------------------------ MODULE ArenaProofs -------------------------------
(***************************************************************************)
(* ArenaInv is an invariant for every size of header, arena, page and      *)
(* block, for every alignment that divides the page, and for any nesting   *)
(* of scopes.  The arithmetic of the arena and the structure of blocks and *)
(* scopes are separate: each call moves the position to a later one        *)
(* (Grow) or back to where a scope began (Back).                           *)
(***************************************************************************)
EXTENDS Arena, SequenceTheorems, TLAPS

(* AlignUp gives a multiple, not below its argument.                         *)
LEMMA AlignUpMultiple ==
  ASSUME NEW n \in Nat, NEW a \in Nat \ {0}
  PROVE  /\ AlignUp(n, a) \in Nat /\ n <= AlignUp(n, a)
         /\ \E k \in Nat : AlignUp(n, a) = k * a
<1> DEFINE k == (n + (a - 1)) \div a
<1>1. n + (a - 1) \in Nat
  OBVIOUS
<1>2. k \in Nat
  BY <1>1
<1>3. k * a + ((n + (a - 1)) % a) = n + (a - 1) /\ (n + (a - 1)) % a \in 0 .. a - 1
  BY <1>1
<1>4. k * a \in Nat
  BY <1>2
<1>5. AlignUp(n, a) = k * a
  BY DEF AlignUp
<1> HIDE DEF k
<1>6. n <= k * a
  BY <1>3, <1>4
<1> QED BY <1>2, <1>4, <1>5, <1>6

(* ... and it gives the least such multiple.                                 *)
LEMMA AlignUpLeast ==
  ASSUME NEW n \in Nat, NEW a \in Nat \ {0}, NEW k \in Nat, n <= k * a
  PROVE  AlignUp(n, a) <= k * a
<1> DEFINE j == (n + (a - 1)) \div a
<1>1. n + (a - 1) \in Nat
  OBVIOUS
<1>2. j \in Nat
  BY <1>1
<1>3. j * a <= n + (a - 1)
  BY <1>1
<1>4. AlignUp(n, a) = j * a
  BY DEF AlignUp
<1> HIDE DEF j
<1>5. SUFFICES ASSUME k < j PROVE FALSE
  <2>1. CASE j <= k
    BY <2>1, <1>2, <1>4
  <2>2. CASE k < j
    BY <2>2, <1>5
  <2> QED BY <2>1, <2>2, <1>2
<1>6. (k + 1) * a <= j * a
  BY <1>5, <1>2
<1>7. (k + 1) * a = k * a + a
  OBVIOUS
<1>8. k * a \in Nat /\ j * a \in Nat
  BY <1>2
<1> QED BY <1>3, <1>6, <1>7, <1>8

(* No padding without alignment.                                            *)
LEMMA AlignUpOne ==
  ASSUME NEW n \in Nat
  PROVE  AlignUp(n, 1) = n
BY DEF AlignUp

(* What is committed of the arena.                                          *)
Pages(a) == a.commit = Cap \/ \E k \in 0 .. Cap : a.commit = k * Align
Covered(a) == a.pos <= a.commit \/ a.commit = Cap
SoundArena(a) == a \in ArenaType /\ Covered(a) /\ Pages(a)

(* The end of the page of p covers p, as far as the arena goes.              *)
LEMMA PageEndSound ==
  ASSUME NEW p \in Nat
  PROVE  /\ PageEnd(p) \in 0 .. Cap
         /\ p <= PageEnd(p) \/ PageEnd(p) = Cap
         /\ PageEnd(p) = Cap \/ \E k \in 0 .. Cap : PageEnd(p) = k * Align
<1>0. Page \in Nat \ {0} /\ Align \in Nat \ {0} /\ Page % Align = 0 /\ Cap \in Nat
  BY SizeAssumption, AlignAssumption
<1>1. PICK j \in Nat : AlignUp(p, Page) = j * Page
  BY <1>0, AlignUpMultiple
<1>2. AlignUp(p, Page) \in Nat /\ p <= AlignUp(p, Page)
  BY <1>0, AlignUpMultiple
<1>3. PICK m \in Nat : Page = m * Align
  <2> DEFINE m == Page \div Align
  <2>1. m \in Nat /\ Page = m * Align + (Page % Align)
    BY <1>0
  <2>2. m * Align \in Nat
    BY <2>1, <1>0
  <2> QED BY <2>1, <2>2, <1>0
<1>4. CASE AlignUp(p, Page) < Cap
  <2>1. PageEnd(p) = AlignUp(p, Page)
    BY <1>4 DEF PageEnd, Least
  <2>2. AlignUp(p, Page) = (j * m) * Align
    BY <1>1, <1>3, <1>0
  <2>3. j * m \in Nat
    OBVIOUS
  <2>4. j * m <= (j * m) * Align
    BY <2>3, <1>0
  <2>5. j * m \in 0 .. Cap
    BY <2>2, <2>3, <2>4, <1>4, <1>2, <1>0
  <2> QED BY <2>1, <2>2, <2>5, <1>2, <1>4, <1>0
<1>5. CASE ~(AlignUp(p, Page) < Cap)
  BY <1>5, <1>0, <1>2 DEF PageEnd, Least
<1> QED BY <1>4, <1>5

(* The new arena.                                                           *)
LEMMA MakeSound == SoundArena(Make(Align))
<1>0. Header \in Nat /\ Cap \in Nat /\ Header <= Cap /\ Align \in Nat \ {0}
  BY SizeAssumption, AlignAssumption
<1>1. Cap <= AlignUp(Cap, Align) /\ AlignUp(Cap, Align) \in Nat
  BY <1>0, AlignUpMultiple
<1> DEFINE c == PageEnd(Header)
<1>2. c \in 0 .. Cap /\ (Header <= c \/ c = Cap) /\ (c = Cap \/ \E k \in 0 .. Cap : c = k * Align)
  BY <1>0, PageEndSound
<1>3. Make(Align) = [pos |-> Header, commit |-> c, depth |-> 0, align |-> Align]
  BY DEF Make
<1> HIDE DEF c
<1>4. Make(Align) \in ArenaType
  BY <1>0, <1>1, <1>2, <1>3 DEF ArenaType
<1> QED BY <1>2, <1>3, <1>4 DEF SoundArena, Pages, Covered

(* A push pads only outside records, never beyond the capacity.              *)
LEMMA PushSound ==
  ASSUME NEW a, SoundArena(a), NEW n \in Nat, Fits(a, n)
  PROVE  /\ SoundArena(Push(a, n))
         /\ Padded(a, n) \in Nat /\ n <= Padded(a, n)
         /\ a.depth >= 1 => Padded(a, n) = n
         /\ Push(a, n).pos = a.pos + Padded(a, n) /\ Push(a, n).pos <= Cap
         /\ Push(a, n).depth = a.depth /\ Push(a, n).align = a.align
<1>0. /\ Header \in Nat /\ Cap \in Nat /\ Header <= Cap /\ Align \in Nat \ {0}
      /\ AlignUp(Cap, Align) \in Nat /\ Cap <= AlignUp(Cap, Align)
  BY SizeAssumption, AlignAssumption, AlignUpMultiple
<1>1. /\ a \in ArenaType /\ a.pos \in Nat /\ Header <= a.pos /\ a.align \in Nat \ {0}
      /\ a.commit \in 0 .. Cap /\ a.depth \in Nat
  BY <1>0 DEF SoundArena, ArenaType
<1>2. Padded(a, n) \in Nat /\ n <= Padded(a, n) /\ (a.depth >= 1 => Padded(a, n) = n)
  <2>1. AlignUp(n, a.align) \in Nat /\ n <= AlignUp(n, a.align)
    BY <1>1, AlignUpMultiple
  <2> QED BY <2>1, <1>1 DEF Padded
<1> DEFINE p == a.pos + Padded(a, n)
           b == Push(a, n)
<1>3. p \in Nat /\ p <= Cap /\ Header <= p
  BY <1>0, <1>1, <1>2 DEF Fits
<1> DEFINE c == IF p > a.commit THEN PageEnd(p) ELSE a.commit
<1>4. c \in 0 .. Cap /\ (p <= c \/ c = Cap) /\ (c = Cap \/ \E k \in 0 .. Cap : c = k * Align)
  <2>1. CASE p > a.commit
    BY <2>1, <1>3, PageEndSound
  <2>2. CASE ~(p > a.commit)
    BY <2>2, <1>1, <1>3 DEF SoundArena, Pages
  <2> QED BY <2>1, <2>2
<1>5. b = [a EXCEPT !.pos = p, !.commit = c]
  BY DEF Push
<1> HIDE DEF c
<1>6. p \in Header .. AlignUp(Cap, Align)
  BY <1>0, <1>3
<1> HIDE DEF p
<1>7. b = [a EXCEPT !.pos = p, !.commit = c, !.depth = a.depth]
  BY <1>1, <1>5 DEF ArenaType
<1>8. b \in ArenaType /\ b.pos = p /\ b.commit = c /\ b.depth = a.depth /\ b.align = a.align
  BY <1>1, <1>4, <1>6, <1>7 DEF ArenaType
<1>9. SoundArena(b)
  BY <1>4, <1>8 DEF SoundArena, Covered, Pages
<1>10. p = a.pos + Padded(a, n) /\ b = Push(a, n)
  BY DEF p
<1> QED BY <1>2, <1>3, <1>8, <1>9, <1>10

(* A pop to a place between header and position.                             *)
LEMMA PopSound ==
  ASSUME NEW a, SoundArena(a), NEW p \in Nat, Header <= p, p <= a.pos
  PROVE  /\ SoundArena(PopTo(a, p))
         /\ PopTo(a, p).pos = p
         /\ PopTo(a, p).depth = a.depth /\ PopTo(a, p).align = a.align
<1>0. /\ Header \in Nat /\ Cap \in Nat /\ Align \in Nat \ {0} /\ AlignUp(Cap, Align) \in Nat
  BY SizeAssumption, AlignAssumption, AlignUpMultiple
<1>1. /\ a \in ArenaType /\ a.pos \in Nat /\ a.pos <= AlignUp(Cap, Align)
      /\ a.commit \in 0 .. Cap
  BY <1>0 DEF SoundArena, ArenaType
<1> DEFINE b == PopTo(a, p)
<1>2. CASE p = a.pos
  BY <1>2, <1>0, <1>1 DEF PopTo
<1>3. CASE p < a.pos
  <2> DEFINE c == Least(a.commit, PageEnd(p))
  <2>1. ~(p < Header) /\ (p > Header \/ p = Header)
    BY <1>0
  <2>2. b = [a EXCEPT !.pos = p, !.commit = c]
    BY <1>3, <2>1 DEF PopTo
  <2>3. PageEnd(p) \in 0 .. Cap /\ (p <= PageEnd(p) \/ PageEnd(p) = Cap)
    BY PageEndSound
  <2>4. c \in 0 .. Cap /\ (p <= c \/ c = Cap)
    BY <1>0, <1>1, <1>3, <2>3 DEF SoundArena, Covered, Least
  <2>5. c = Cap \/ \E k \in 0 .. Cap : c = k * Align
    BY PageEndSound DEF SoundArena, Pages, Least
  <2> HIDE DEF c
  <2>6. p \in Header .. AlignUp(Cap, Align)
    BY <1>0, <1>1, <1>3
  <2>7. b = [a EXCEPT !.pos = p, !.commit = c, !.depth = a.depth] /\ a.depth \in Nat
    BY <1>1, <2>2 DEF ArenaType
  <2>8. b \in ArenaType /\ b.pos = p /\ b.commit = c /\ b.depth = a.depth /\ b.align = a.align
    BY <1>1, <2>4, <2>6, <2>7 DEF ArenaType
  <2> QED BY <2>4, <2>5, <2>8 DEF SoundArena, Covered, Pages
<1> QED BY <1>0, <1>1, <1>2, <1>3

(* The end of a record.                                                     *)
LEMMA StopSound ==
  ASSUME NEW a, SoundArena(a), a.depth >= 1
  PROVE  /\ SoundArena(StopRecord(a))
         /\ StopRecord(a).depth = a.depth - 1 /\ StopRecord(a).align = a.align
         /\ StopRecord(a).pos \in Nat /\ a.pos <= StopRecord(a).pos
         /\ a.depth # 1 => StopRecord(a).pos = a.pos
<1>0. /\ Header \in Nat /\ Cap \in Nat /\ Align \in Nat \ {0} /\ AlignUp(Cap, Align) \in Nat
      /\ Cap <= AlignUp(Cap, Align)
  BY SizeAssumption, AlignAssumption, AlignUpMultiple
<1>1. /\ a \in ArenaType /\ a.pos \in Nat /\ Header <= a.pos /\ a.pos <= AlignUp(Cap, Align)
      /\ a.commit \in 0 .. Cap /\ a.depth \in Nat /\ a.align \in {1, Align}
  BY <1>0 DEF SoundArena, ArenaType
<1> DEFINE b == StopRecord(a)
           p == IF a.depth = 1 THEN AlignUp(a.pos, a.align) ELSE a.pos
<1>2. p \in Nat /\ a.pos <= p
  <2>1. a.align \in Nat \ {0}
    BY <1>0, <1>1
  <2>2. AlignUp(a.pos, a.align) \in Nat /\ a.pos <= AlignUp(a.pos, a.align)
    BY <2>1, <1>1, AlignUpMultiple
  <2> QED BY <2>2, <1>1
<1>3. p <= AlignUp(Cap, Align)
  <2>1. PICK k \in Nat : AlignUp(Cap, Align) = k * Align
    BY <1>0, AlignUpMultiple
  <2>2. AlignUp(a.pos, Align) <= AlignUp(Cap, Align)
    BY <2>1, <1>0, <1>1, AlignUpLeast
  <2> QED BY <2>2, <1>0, <1>1, AlignUpOne
<1>4. p <= a.commit \/ a.commit = Cap
  <2>1. CASE a.commit = Cap
    BY <2>1
  <2>2. CASE a.commit # Cap
    <3>1. a.pos <= a.commit
      BY <2>2 DEF SoundArena, Covered
    <3>2. PICK k \in 0 .. Cap : a.commit = k * Align
      BY <2>2 DEF SoundArena, Pages
    <3>3. k \in Nat /\ a.pos <= k * Align
      BY <1>0, <3>1, <3>2
    <3>4. AlignUp(a.pos, Align) <= k * Align
      BY <3>3, <1>0, <1>1, AlignUpLeast
    <3> QED BY <3>1, <3>2, <3>4, <1>1, AlignUpOne
  <2> QED BY <2>1, <2>2
<1>5. b = [a EXCEPT !.depth = a.depth - 1, !.pos = p]
  BY DEF StopRecord
<1>6. p = a.pos \/ a.depth = 1
  OBVIOUS
<1> HIDE DEF p
<1>7. p \in Header .. AlignUp(Cap, Align) /\ a.depth - 1 \in Nat
  BY <1>0, <1>1, <1>2, <1>3
<1>8. b = [a EXCEPT !.pos = p, !.commit = a.commit, !.depth = a.depth - 1]
  BY <1>1, <1>5 DEF ArenaType
<1>9. /\ b \in ArenaType /\ b.pos = p /\ b.commit = a.commit /\ b.depth = a.depth - 1
      /\ b.align = a.align
  BY <1>1, <1>7, <1>8 DEF ArenaType
<1> QED BY <1>2, <1>4, <1>6, <1>9 DEF SoundArena, Covered, Pages
--------------------------------------------------------------------------------
(* The fields of blocks and scopes are numbers.                              *)
LEMMA Fields ==
  ASSUME NEW bl \in Seq(BlockType), NEW sc \in Seq(ScopeType)
  PROVE  /\ Len(bl) \in Nat /\ Len(sc) \in Nat
         /\ \A i \in 1 .. Len(bl) : bl[i].start \in Nat /\ End(bl[i]) \in Nat
         /\ \A i \in 1 .. Len(sc) : /\ sc[i].start \in Nat /\ sc[i].below \in Nat
                                    /\ sc[i].depth \in Nat
<1>1. /\ \A i \in 1 .. Len(bl) : bl[i] \in BlockType
      /\ \A i \in 1 .. Len(sc) : sc[i] \in ScopeType
  OBVIOUS
<1>2. \A b \in BlockType : b.start \in Nat /\ End(b) \in Nat
  BY DEF BlockType, End
<1>3. \A s \in ScopeType : s.start \in Nat /\ s.below \in Nat /\ s.depth \in Nat
  BY DEF ScopeType
<1> QED BY <1>1, <1>2, <1>3

(* Tiling depends only on the blocks it is about.                            *)
LEMMA TilesSame ==
  ASSUME NEW bl, NEW new, NEW start, NEW lo \in Nat, NEW end, NEW hi \in Nat,
         \A i \in 1 .. hi : new[i] = bl[i],
         Tiles(bl, start, lo, end, hi)
  PROVE  Tiles(new, start, lo, end, hi)
<1>1. lo < hi => lo + 1 \in 1 .. hi /\ hi \in 1 .. hi
  OBVIOUS
<1>2. \A i \in lo + 1 .. hi - 1 : i \in 1 .. hi /\ i + 1 \in 1 .. hi
  OBVIOUS
<1> QED BY <1>1, <1>2 DEF Tiles

(* A further block behind all others: its padding is d - m.                  *)
LEMMA Grow ==
  ASSUME NEW pos \in Nat, NEW depth \in Nat, NEW bl \in Seq(BlockType), NEW sc \in Seq(ScopeType),
         Structure(pos, depth, bl, sc), Header <= pos,
         NEW m \in Nat, NEW d \in Nat, m <= d, pos + m <= Cap, depth >= 1 => d = m
  PROVE  /\ Append(bl, Block(pos, m)) \in Seq(BlockType)
         /\ Structure(pos + d, depth, Append(bl, Block(pos, m)), sc)
<1> DEFINE new == Append(bl, Block(pos, m))
           n   == Len(bl)
<1>0. Header \in Nat /\ Cap \in Nat
  BY SizeAssumption
<1>1. Block(pos, m) \in BlockType /\ Block(pos, m).start = pos /\ End(Block(pos, m)) = pos + m
  BY DEF Block, BlockType, End
<1>2. /\ new \in Seq(BlockType) /\ n \in Nat /\ Len(new) = n + 1 /\ new[n + 1] = Block(pos, m)
      /\ \A i \in 1 .. n : new[i] = bl[i]
  BY <1>1
<1>3. /\ \A i \in 1 .. n : bl[i].start \in Nat /\ End(bl[i]) \in Nat
      /\ \A s \in 1 .. Len(sc) : /\ sc[s].start \in Nat /\ sc[s].below \in Nat
                                 /\ sc[s].depth \in Nat
  BY Fields
<1>4. Apart(pos, bl) /\ Nested(pos, depth, bl, sc) /\ Depths(depth, sc)
  BY DEF Structure
<1> HIDE DEF new
<1>5. Apart(pos + d, new)
  <2>1. ASSUME NEW i \in 1 .. n + 1
        PROVE  Header <= new[i].start /\ End(new[i]) <= pos + d /\ End(new[i]) <= Cap
    <3>1. CASE i = n + 1
      BY <3>1, <1>0, <1>1, <1>2
    <3>2. CASE i # n + 1
      <4>1. i \in 1 .. n /\ new[i] = bl[i]
        BY <3>2, <1>2
      <4>2. Header <= bl[i].start /\ End(bl[i]) <= pos /\ End(bl[i]) <= Cap
        BY <4>1, <1>4 DEF Apart
      <4> QED BY <4>1, <4>2, <1>3
    <3> QED BY <3>1, <3>2
  <2>2. ASSUME NEW i \in 1 .. n + 1, NEW j \in 1 .. n + 1, i < j
        PROVE  End(new[i]) <= new[j].start
    <3>1. i \in 1 .. n /\ new[i] = bl[i]
      BY <2>2, <1>2
    <3>2. CASE j = n + 1
      BY <3>1, <3>2, <1>1, <1>2, <1>4 DEF Apart
    <3>3. CASE j # n + 1
      <4>1. j \in 1 .. n /\ new[j] = bl[j]
        BY <3>3, <1>2
      <4> QED BY <2>2, <3>1, <4>1, <1>4 DEF Apart
    <3> QED BY <3>2, <3>3
  <2> QED BY <2>1, <2>2, <1>2 DEF Apart
<1>6. ASSUME NEW s \in 1 .. Len(sc), NEW p \in Nat, NEW e \in Nat, NEW len \in Nat, len <= n,
             Within(sc[s], bl, p, e, len)
      PROVE  Within(sc[s], new, p, e, len)
  <2>1. sc[s].start <= p /\ sc[s].below <= len /\ sc[s].below \in Nat
    BY <1>3, <1>6 DEF Within
  <2>2. CASE sc[s].kind = "scratch"
    BY <2>1, <2>2 DEF Within
  <2>3. CASE sc[s].kind # "scratch"
    <3>1. e >= 1 /\ Tiles(bl, sc[s].start, sc[s].below, p, len)
      BY <2>3, <1>6 DEF Within
    <3>2. Tiles(new, sc[s].start, sc[s].below, p, len)
      <4>1. \A i \in 1 .. len : new[i] = bl[i]
        BY <1>2, <1>6
      <4> QED BY <3>1, <4>1, <2>1, TilesSame
    <3> QED BY <2>1, <3>1, <3>2 DEF Within
  <2> QED BY <2>2, <2>3
<1>7. ASSUME NEW s \in 1 .. Len(sc)
      PROVE  Within(sc[s], new, pos + d, depth, n + 1)
  <2>1. Within(sc[s], bl, pos, depth, n)
    BY <1>4 DEF Nested
  <2>2. CASE sc[s].kind = "scratch"
    BY <2>1, <2>2, <1>2, <1>3 DEF Within
  <2>3. CASE sc[s].kind # "scratch"
    <3>1. depth >= 1 /\ d = m /\ Tiles(bl, sc[s].start, sc[s].below, pos, n)
      BY <2>1, <2>3 DEF Within
    <3>2. Tiles(new, sc[s].start, sc[s].below, pos, n)
      BY <3>1, <1>2, <1>3, TilesSame
    <3> DEFINE lo == sc[s].below
    <3>3. lo \in Nat /\ lo <= n /\ lo < n + 1
      BY <3>1, <1>2, <1>3 DEF Tiles
    <3>4. End(new[n + 1]) = pos + d /\ new[n + 1].start = pos
      BY <3>1, <1>1, <1>2
    <3>5. new[lo + 1].start = sc[s].start
      BY <3>2, <3>3, <3>4, <1>2 DEF Tiles
    <3>6. ASSUME NEW i \in lo + 1 .. n PROVE End(new[i]) = new[i + 1].start
      <4>1. CASE i = n
        BY <4>1, <3>2, <3>3, <3>4, <1>2 DEF Tiles
      <4>2. CASE i # n
        BY <4>2, <3>2, <3>3, <1>2 DEF Tiles
      <4> QED BY <4>1, <4>2
    <3>7. Tiles(new, sc[s].start, lo, pos + d, n + 1)
      BY <3>3, <3>4, <3>5, <3>6, <1>2 DEF Tiles
    <3> QED BY <2>1, <3>1, <3>7, <1>2, <1>3 DEF Within
  <2> QED BY <2>2, <2>3
<1>8. Nested(pos + d, depth, new, sc)
  <2>1. SUFFICES ASSUME NEW s \in 1 .. Len(sc)
        PROVE  /\ Header <= sc[s].start
               /\ \A i \in 1 .. n + 1 : IF i <= sc[s].below THEN End(new[i]) <= sc[s].start
                                        ELSE sc[s].start <= new[i].start
               /\ \A t \in s + 1 .. Len(sc) :
                    Within(sc[s], new, sc[t].start, sc[t].depth, sc[t].below)
    BY <1>2, <1>7 DEF Nested
  <2>2. Within(sc[s], bl, pos, depth, n)
    BY <1>4 DEF Nested
  <2>3. sc[s].start <= pos /\ sc[s].below <= n
    BY <2>2 DEF Within
  <2>4. \A i \in 1 .. n : IF i <= sc[s].below THEN End(bl[i]) <= sc[s].start
                          ELSE sc[s].start <= bl[i].start
    BY <1>4 DEF Nested
  <2>5. ASSUME NEW t \in s + 1 .. Len(sc)
        PROVE  Within(sc[s], new, sc[t].start, sc[t].depth, sc[t].below)
    <3>1. t \in 1 .. Len(sc) /\ Within(sc[s], bl, sc[t].start, sc[t].depth, sc[t].below)
      BY <1>4 DEF Nested
    <3>2. Within(sc[t], bl, pos, depth, n)
      BY <3>1, <1>4 DEF Nested
    <3>3. sc[t].below <= n
      BY <3>2 DEF Within
    <3> QED BY <3>1, <3>3, <1>3, <1>6
  <2>6. Header <= sc[s].start
    BY <1>4 DEF Nested
  <2> QED BY <2>3, <2>4, <2>5, <2>6, <1>1, <1>2, <1>3
<1> QED BY <1>2, <1>4, <1>5, <1>8 DEF Structure, new

(* Padding at the end, outside of records.                                   *)
LEMMA Pad ==
  ASSUME NEW pos \in Nat, NEW q \in Nat, NEW bl \in Seq(BlockType), NEW sc \in Seq(ScopeType),
         Structure(pos, 0, bl, sc), pos <= q
  PROVE  Structure(q, 0, bl, sc)
<1>1. /\ Len(bl) \in Nat
      /\ \A i \in 1 .. Len(bl) : bl[i].start \in Nat /\ End(bl[i]) \in Nat
      /\ \A s \in 1 .. Len(sc) : sc[s].start \in Nat /\ sc[s].below \in Nat
  BY Fields
<1>2. Apart(q, bl)
  BY <1>1 DEF Structure, Apart
<1>3. Nested(q, 0, bl, sc)
  BY <1>1 DEF Structure, Nested, Within
<1> QED BY <1>2, <1>3 DEF Structure

(* A scope is opened.                                                       *)
LEMMA OpenScope ==
  ASSUME NEW pos \in Nat, NEW depth \in Nat, NEW bl \in Seq(BlockType), NEW sc \in Seq(ScopeType),
         Structure(pos, depth, bl, sc), Header <= pos, NEW s \in ScopeType,
         s.start = pos, s.below = Len(bl), s.depth = depth
  PROVE  Structure(pos, Inner(s), bl, Append(sc, s))
<1> DEFINE new == Append(sc, s)
           n   == Len(sc)
<1>0. Header \in Nat
  BY SizeAssumption
<1>1. /\ new \in Seq(ScopeType) /\ n \in Nat /\ Len(new) = n + 1 /\ new[n + 1] = s
      /\ \A i \in 1 .. n : new[i] = sc[i]
  OBVIOUS
<1>2. /\ Len(bl) \in Nat
      /\ \A i \in 1 .. Len(bl) : bl[i].start \in Nat /\ End(bl[i]) \in Nat
      /\ \A i \in 1 .. n : sc[i].start \in Nat /\ sc[i].below \in Nat /\ sc[i].depth \in Nat
  BY Fields
<1>3. Apart(pos, bl) /\ Nested(pos, depth, bl, sc) /\ Depths(depth, sc)
  BY DEF Structure
<1>4. Inner(s) \in Nat /\ Inner(s) >= depth /\ (s.kind # "scratch" => Inner(s) >= 1)
  BY DEF Inner
<1> HIDE DEF new
<1>5. Depths(Inner(s), new)
  <2>1. SUFFICES ASSUME NEW i \in 1 .. n + 1
                 PROVE  (IF i = n + 1 THEN Inner(s) ELSE new[i + 1].depth) = Inner(new[i])
    BY <1>1 DEF Depths
  <2>2. CASE i = n + 1
    BY <1>1, <2>2
  <2>3. CASE i = n
    <3>1. i \in 1 .. n /\ i + 1 = n + 1 /\ i # n + 1
      BY <1>1, <2>1, <2>3
    <3>2. new[i + 1] = s /\ new[i] = sc[i]
      BY <1>1, <3>1
    <3>3. depth = Inner(sc[i])
      BY <1>3, <2>3, <3>1 DEF Depths
    <3> QED BY <3>1, <3>2, <3>3
  <2>4. CASE i \in 1 .. n - 1
    <3>1. i \in 1 .. n /\ i + 1 \in 1 .. n /\ i # n + 1 /\ i # n
      BY <1>1, <2>4
    <3>2. new[i + 1] = sc[i + 1] /\ new[i] = sc[i]
      BY <1>1, <3>1
    <3>3. sc[i + 1].depth = Inner(sc[i])
      BY <1>3, <3>1 DEF Depths
    <3> QED BY <3>1, <3>2, <3>3
  <2> QED BY <1>1, <2>1, <2>2, <2>3, <2>4
<1>6. ASSUME NEW i \in 1 .. n PROVE Within(new[i], bl, pos, Inner(s), Len(bl))
  BY <1>1, <1>2, <1>3, <1>4 DEF Nested, Within
<1>7. Within(s, bl, pos, Inner(s), Len(bl))
  BY <1>2, <1>4 DEF Within, Tiles
<1>8. Nested(pos, Inner(s), bl, new)
  <2>1. SUFFICES ASSUME NEW i \in 1 .. n + 1
        PROVE  /\ Header <= new[i].start
               /\ \A k \in 1 .. Len(bl) : IF k <= new[i].below THEN End(bl[k]) <= new[i].start
                                          ELSE new[i].start <= bl[k].start
               /\ \A t \in i + 1 .. n + 1 :
                    Within(new[i], bl, new[t].start, new[t].depth, new[t].below)
               /\ Within(new[i], bl, pos, Inner(s), Len(bl))
    BY <1>1 DEF Nested
  <2>2. CASE i = n + 1
    BY <2>2, <1>0, <1>1, <1>2, <1>3, <1>7 DEF Apart
  <2>3. CASE i \in 1 .. n
    <3>1. /\ Header <= sc[i].start
          /\ \A k \in 1 .. Len(bl) : IF k <= sc[i].below THEN End(bl[k]) <= sc[i].start
                                     ELSE sc[i].start <= bl[k].start
          /\ \A t \in i + 1 .. n :
               Within(sc[i], bl, sc[t].start, sc[t].depth, sc[t].below)
          /\ Within(sc[i], bl, pos, depth, Len(bl))
      BY <2>3, <1>3 DEF Nested
    <3>2. ASSUME NEW t \in i + 1 .. n + 1
          PROVE  Within(new[i], bl, new[t].start, new[t].depth, new[t].below)
      <4>1. CASE t = n + 1
        BY <4>1, <2>3, <3>1, <1>1
      <4>2. CASE t # n + 1
        BY <4>2, <2>3, <3>1, <1>1
      <4> QED BY <4>1, <4>2
    <3> QED BY <2>3, <3>1, <3>2, <1>1, <1>6
  <2> QED BY <2>2, <2>3, <1>1
<1> QED BY <1>3, <1>5, <1>8 DEF Structure, new

(* Back to where the last scope began.                                       *)
LEMMA Back ==
  ASSUME NEW pos \in Nat, NEW depth \in Nat, NEW bl \in Seq(BlockType), NEW sc \in Seq(ScopeType),
         Structure(pos, depth, bl, sc), sc # << >>
  PROVE  LET s == Last(sc) IN
         /\ s = sc[Len(sc)] /\ s \in ScopeType /\ Len(sc) \in Nat \ {0}
         /\ s.start \in Nat /\ Header <= s.start /\ s.start <= pos
         /\ s.below \in Nat /\ s.below <= Len(bl) /\ depth = Inner(s)
         /\ Front(sc) \in Seq(ScopeType)
         /\ SubSeq(bl, 1, s.below) \in Seq(BlockType)
         /\ Structure(s.start, s.depth, SubSeq(bl, 1, s.below), Front(sc))
<1> DEFINE n   == Len(sc)
           s   == sc[n]
           old == Front(sc)
           kept == SubSeq(bl, 1, s.below)
<1>1. n \in Nat \ {0} /\ s \in ScopeType /\ s = Last(sc)
  BY EmptySeq DEF Last
<1>2. s.start \in Nat /\ s.below \in Nat /\ s.depth \in Nat
  BY <1>1 DEF ScopeType
<1>3. /\ Len(bl) \in Nat
      /\ \A i \in 1 .. Len(bl) : bl[i].start \in Nat /\ End(bl[i]) \in Nat
      /\ \A i \in 1 .. n : sc[i].start \in Nat /\ sc[i].below \in Nat /\ sc[i].depth \in Nat
  BY Fields
<1>4. Apart(pos, bl) /\ Nested(pos, depth, bl, sc) /\ Depths(depth, sc)
  BY DEF Structure
<1>5. /\ Header <= s.start /\ Within(s, bl, pos, depth, Len(bl))
      /\ \A i \in 1 .. Len(bl) : IF i <= s.below THEN End(bl[i]) <= s.start
                                 ELSE s.start <= bl[i].start
  BY <1>1, <1>4 DEF Nested
<1>6. s.start <= pos /\ s.below <= Len(bl)
  BY <1>5 DEF Within
<1>7. depth = Inner(s)
  BY <1>1, <1>4 DEF Depths
<1>8. /\ old \in Seq(ScopeType) /\ Len(old) = n - 1 /\ \A i \in 1 .. n - 1 : old[i] = sc[i]
  <2>1. old = SubSeq(sc, 1, n - 1)
    BY DEF Front
  <2>2. \A i \in 1 .. n - 1 : sc[i] \in ScopeType
    BY <1>1
  <2>3. /\ SubSeq(sc, 1, n - 1) \in Seq(ScopeType)
        /\ Len(SubSeq(sc, 1, n - 1)) = IF 1 <= n - 1 THEN n - 1 - 1 + 1 ELSE 0
        /\ \A i \in 1 .. n - 1 - 1 + 1 : SubSeq(sc, 1, n - 1)[i] = sc[1 + i - 1]
    BY <1>1, <2>2, SubSeqProperties
  <2>4. Len(SubSeq(sc, 1, n - 1)) = n - 1
    <3>1. n = 1 \/ 1 <= n - 1
      BY <1>1
    <3>2. n - 1 - 1 + 1 = n - 1
      BY <1>1
    <3> QED BY <2>3, <3>1, <3>2
  <2>5. ASSUME NEW i \in 1 .. n - 1 PROVE SubSeq(sc, 1, n - 1)[i] = sc[i]
    <3>1. i \in 1 .. n - 1 - 1 + 1 /\ 1 + i - 1 = i
      BY <1>1
    <3> QED BY <2>3, <3>1
  <2> QED BY <2>1, <2>3, <2>4, <2>5
<1>9. /\ kept \in Seq(BlockType) /\ Len(kept) = s.below
      /\ \A i \in 1 .. s.below : kept[i] = bl[i]
  <2>1. \A i \in 1 .. s.below : bl[i] \in BlockType
    BY <1>2, <1>3, <1>6
  <2>2. /\ kept \in Seq(BlockType)
        /\ Len(kept) = IF 1 <= s.below THEN s.below - 1 + 1 ELSE 0
        /\ \A i \in 1 .. s.below - 1 + 1 : kept[i] = bl[1 + i - 1]
    BY <1>2, <2>1, SubSeqProperties
  <2> QED BY <2>2, <1>2
<1> HIDE DEF old, kept, s
<1>9a. \A i \in 1 .. s.below : i \in 1 .. Len(bl)
  BY <1>2, <1>3, <1>6
<1>10. Apart(s.start, kept)
  <2>1. ASSUME NEW i \in 1 .. s.below
        PROVE  Header <= kept[i].start /\ End(kept[i]) <= s.start /\ End(kept[i]) <= Cap
    BY <1>4, <1>5, <1>9, <1>9a, <1>2 DEF Apart
  <2>2. ASSUME NEW i \in 1 .. s.below, NEW j \in 1 .. s.below, i < j
        PROVE  End(kept[i]) <= kept[j].start
    BY <2>2, <1>4, <1>9, <1>9a DEF Apart
  <2> QED BY <2>1, <2>2, <1>9 DEF Apart
<1>11. Depths(s.depth, old)
  <2>1. ASSUME NEW i \in 1 .. n - 1
        PROVE  (IF i = n - 1 THEN s.depth ELSE old[i + 1].depth) = Inner(old[i])
    <3>1. i \in 1 .. n /\ i # n /\ old[i] = sc[i]
      BY <1>1, <1>8
    <3>2. sc[i + 1].depth = Inner(sc[i])
      BY <3>1, <1>4 DEF Depths
    <3>3. CASE i = n - 1
      <4>1. i + 1 = n
        BY <3>3, <1>1
      <4> QED BY <3>1, <3>2, <3>3, <4>1 DEF s
    <3>4. CASE i # n - 1
      <4>1. i + 1 \in 1 .. n - 1
        BY <3>4, <1>1
      <4> QED BY <3>1, <3>2, <3>4, <4>1, <1>8
    <3> QED BY <3>3, <3>4
  <2> QED BY <2>1, <1>8 DEF Depths
<1>12. Nested(s.start, s.depth, kept, old)
  <2>1. ASSUME NEW i \in 1 .. n - 1, NEW p \in Nat, NEW e \in Nat, NEW len \in Nat,
               len <= s.below, Within(sc[i], bl, p, e, len)
        PROVE  Within(old[i], kept, p, e, len)
    <3>1. i \in 1 .. n
      BY <1>1
    <3>2. sc[i].start \in Nat /\ sc[i].below \in Nat /\ old[i] = sc[i]
      BY <3>1, <1>3, <1>8
    <3>3. \A k \in 1 .. len : kept[k] = bl[k]
      BY <2>1, <1>2, <1>9
    <3>4. Tiles(bl, sc[i].start, sc[i].below, p, len)
             => Tiles(kept, sc[i].start, sc[i].below, p, len)
      BY <3>2, <3>3, TilesSame
    <3> QED BY <2>1, <3>2, <3>4 DEF Within
  <2>2. SUFFICES ASSUME NEW i \in 1 .. n - 1
        PROVE  /\ Header <= old[i].start
               /\ \A k \in 1 .. s.below : IF k <= old[i].below THEN End(kept[k]) <= old[i].start
                                          ELSE old[i].start <= kept[k].start
               /\ \A t \in i + 1 .. n - 1 :
                    Within(old[i], kept, old[t].start, old[t].depth, old[t].below)
               /\ Within(old[i], kept, s.start, s.depth, s.below)
    BY <1>1, <1>8, <1>9 DEF Nested
  <2>3. /\ Header <= sc[i].start
        /\ \A k \in 1 .. Len(bl) : IF k <= sc[i].below THEN End(bl[k]) <= sc[i].start
                                   ELSE sc[i].start <= bl[k].start
        /\ \A t \in i + 1 .. n :
             Within(sc[i], bl, sc[t].start, sc[t].depth, sc[t].below)
    BY <1>1, <1>4 DEF Nested
  <2>4. Within(sc[i], bl, s.start, s.depth, s.below)
    BY <2>3, <1>1 DEF s
  <2>5. Within(old[i], kept, s.start, s.depth, s.below)
    BY <2>1, <2>4, <1>2
  <2>6. ASSUME NEW t \in i + 1 .. n - 1
        PROVE  Within(old[i], kept, old[t].start, old[t].depth, old[t].below)
    <3>1. t \in 1 .. n - 1 /\ t \in 1 .. n /\ n \in t + 1 .. Len(sc)
      BY <1>1
    <3>2. Within(sc[t], bl, s.start, s.depth, s.below)
      BY <3>1, <1>4 DEF Nested, s
    <3>3. sc[t].below <= s.below
      BY <3>2 DEF Within
    <3>4. Within(sc[i], bl, sc[t].start, sc[t].depth, sc[t].below)
      BY <2>3, <1>1
    <3> QED BY <3>1, <3>3, <3>4, <2>1, <1>3, <1>8
  <2>7. \A k \in 1 .. s.below : k \in 1 .. Len(bl) /\ kept[k] = bl[k]
    BY <1>2, <1>3, <1>6, <1>9
  <2>8. old[i] = sc[i]
    BY <1>8
  <2> QED BY <2>3, <2>5, <2>6, <2>7, <2>8
<1> QED BY <1>1, <1>2, <1>5, <1>6, <1>7, <1>8, <1>9, <1>10, <1>11, <1>12 DEF Structure, s, old, kept
--------------------------------------------------------------------------------
(* Facts about a state in which the invariant holds.                         *)
LEMMA InvFacts ==
  ASSUME ArenaInv
  PROVE  /\ SoundArena(arena) /\ arena \in ArenaType
         /\ arena.pos \in Nat /\ Header <= arena.pos /\ arena.depth \in Nat
         /\ arena.align \in {1, Align}
         /\ blocks \in Seq(BlockType) /\ scopes \in Seq(ScopeType)
         /\ Structure(arena.pos, arena.depth, blocks, scopes)
<1>1. arena \in ArenaType /\ blocks \in Seq(BlockType) /\ scopes \in Seq(ScopeType)
  BY DEF ArenaInv, TypeOK
<1>2. Header \in Nat /\ AlignUp(Cap, Align) \in Nat
  BY SizeAssumption, AlignAssumption, AlignUpMultiple
<1>3. arena.pos \in Nat /\ Header <= arena.pos /\ arena.depth \in Nat /\ arena.align \in {1, Align}
  BY <1>1, <1>2 DEF ArenaType
<1> QED BY <1>1, <1>3
        DEF ArenaInv, SoundArena, Committed, CommittedPages, Covered, Pages

(* ... and what is to be shown of the next.                                  *)
LEMMA InvNext ==
  ASSUME SoundArena(arena'), blocks' \in Seq(BlockType), scopes' \in Seq(ScopeType),
         Structure(arena'.pos, arena'.depth, blocks', scopes')
  PROVE  ArenaInv'
BY DEF ArenaInv, TypeOK, SoundArena, Committed, CommittedPages, Covered, Pages

(* Initially nothing is in use.                                              *)
LEMMA InitInv == Init => ArenaInv
<1> SUFFICES ASSUME Init PROVE ArenaInv
  OBVIOUS
<1>1. SoundArena(arena) /\ blocks = << >> /\ scopes = << >>
  BY MakeSound DEF Init
<1>2. Structure(arena.pos, arena.depth, blocks, scopes)
  BY <1>1 DEF Structure, Apart, Nested, Depths
<1> QED BY <1>1, <1>2 DEF ArenaInv, TypeOK, SoundArena, Committed, CommittedPages, Covered, Pages

(* PushPart; PushBlock is the case in which all of the block is used.        *)
LEMMA PushPartStep ==
  ASSUME ArenaInv, NEW n \in Nat, NEW used \in Nat, PushPart(n, used)
  PROVE  ArenaInv'
<1> DEFINE pad == Padded(arena, n)
           a   == Push(arena, n)
           d   == pad - (n - used)
<1>1. used <= n /\ Fits(arena, n)
  BY DEF PushPart
<1>2. /\ SoundArena(arena) /\ arena.pos \in Nat /\ Header <= arena.pos /\ arena.depth \in Nat
      /\ blocks \in Seq(BlockType) /\ scopes \in Seq(ScopeType)
      /\ Structure(arena.pos, arena.depth, blocks, scopes)
  BY InvFacts
<1>3. /\ SoundArena(a) /\ pad \in Nat /\ n <= pad /\ (arena.depth >= 1 => pad = n)
      /\ a.pos = arena.pos + pad /\ a.pos <= Cap /\ a.depth = arena.depth
  BY <1>1, <1>2, PushSound
<1> HIDE DEF pad, a
<1>4. Cap \in Nat /\ Header \in Nat
  BY SizeAssumption
<1>5. d \in Nat /\ used <= d /\ arena.pos + used <= Cap /\ (arena.depth >= 1 => d = used)
  BY <1>1, <1>2, <1>3, <1>4
<1>6. arena.pos + d \in Nat /\ Header <= arena.pos + d /\ arena.pos + d <= a.pos
      /\ a.pos - (n - used) = arena.pos + d
  BY <1>1, <1>2, <1>3, <1>4, <1>5
<1> HIDE DEF d
<1>7. arena' = PopTo(a, arena.pos + d)
  BY <1>6 DEF PushPart, PopAmount, a
<1>8. SoundArena(arena') /\ arena'.pos = arena.pos + d /\ arena'.depth = arena.depth
  BY <1>3, <1>6, <1>7, PopSound
<1>9. blocks' = Append(blocks, Block(arena.pos, used)) /\ scopes' = scopes
  BY DEF PushPart
<1>10. /\ blocks' \in Seq(BlockType)
       /\ Structure(arena.pos + d, arena.depth, blocks', scopes)
  BY <1>2, <1>5, <1>9, Grow
<1> QED BY <1>2, <1>8, <1>9, <1>10, InvNext

(* PushBlock.                                                               *)
LEMMA PushBlockStep ==
  ASSUME ArenaInv, NEW n \in Nat, PushBlock(n)
  PROVE  ArenaInv'
<1> DEFINE pad == Padded(arena, n)
<1>1. /\ SoundArena(arena) /\ arena.pos \in Nat /\ Header <= arena.pos /\ arena.depth \in Nat
      /\ blocks \in Seq(BlockType) /\ scopes \in Seq(ScopeType)
      /\ Structure(arena.pos, arena.depth, blocks, scopes)
  BY InvFacts
<1>2. Fits(arena, n) /\ arena' = Push(arena, n) /\ scopes' = scopes
      /\ blocks' = Append(blocks, Block(arena.pos, n))
  BY DEF PushBlock
<1>3. /\ SoundArena(arena') /\ pad \in Nat /\ n <= pad /\ (arena.depth >= 1 => pad = n)
      /\ arena'.pos = arena.pos + pad /\ arena'.pos <= Cap /\ arena'.depth = arena.depth
  BY <1>1, <1>2, PushSound
<1> HIDE DEF pad
<1>4. arena.pos + n <= Cap
  BY <1>1, <1>3, SizeAssumption
<1>5. blocks' \in Seq(BlockType) /\ Structure(arena.pos + pad, arena.depth, blocks', scopes)
  BY <1>1, <1>2, <1>3, <1>4, Grow
<1> QED BY <1>1, <1>2, <1>3, <1>5, InvNext

(* A scope is opened, with a record unless it is a scratch.                  *)
LEMMA OpenStep ==
  ASSUME ArenaInv, ScratchStart \/ RecordStart \/ FormatStart
  PROVE  ArenaInv'
<1>1. /\ SoundArena(arena) /\ arena \in ArenaType /\ arena.pos \in Nat /\ Header <= arena.pos
      /\ arena.depth \in Nat /\ arena.align \in {1, Align}
      /\ blocks \in Seq(BlockType) /\ scopes \in Seq(ScopeType)
      /\ Structure(arena.pos, arena.depth, blocks, scopes)
  BY InvFacts
<1> DEFINE Scope(kind) == [kind |-> kind, start |-> arena.pos, below |-> Len(blocks),
                           align |-> arena.align, depth |-> arena.depth]
<1>2. ASSUME NEW kind \in Kinds, Open(kind)
      PROVE  /\ blocks' = blocks /\ scopes' = Append(scopes, Scope(kind))
             /\ scopes' \in Seq(ScopeType)
             /\ Structure(arena.pos, Inner(Scope(kind)), blocks', scopes')
  <2> DEFINE s == Scope(kind)
  <2>1. s \in ScopeType /\ s.start = arena.pos /\ s.below = Len(blocks) /\ s.depth = arena.depth
    BY <1>1 DEF ScopeType
  <2>2. blocks' = blocks /\ scopes' = Append(scopes, s)
    BY <1>2 DEF Open
  <2> HIDE DEF s
  <2>3. Structure(arena.pos, Inner(s), blocks, Append(scopes, s))
    BY <1>1, <2>1, OpenScope
  <2> QED BY <1>1, <2>1, <2>2, <2>3 DEF s
<1>3. ASSUME NEW align \in {1, Align}, arena' = StartRecord([arena EXCEPT !.align = align])
      PROVE  SoundArena(arena') /\ arena'.pos = arena.pos /\ arena'.depth = arena.depth + 1
  <2>0. arena' = [arena EXCEPT !.align = align, !.depth = arena.depth + 1]
    BY <1>1, <1>3 DEF StartRecord, ArenaType
  <2>1. arena' \in ArenaType
    <3>1. arena.depth + 1 \in Nat
      BY <1>1
    <3> QED BY <1>1, <2>0, <3>1 DEF ArenaType
  <2>2. /\ arena'.pos = arena.pos /\ arena'.depth = arena.depth + 1
        /\ arena'.commit = arena.commit
    BY <1>1, <1>3 DEF StartRecord, ArenaType
  <2> QED BY <2>1, <2>2, <1>1 DEF SoundArena, Covered, Pages
<1>4. CASE ScratchStart
  <2>1. Open("scratch") /\ arena' = arena
    BY <1>4 DEF ScratchStart
  <2>2. Inner(Scope("scratch")) = arena.depth
    BY <1>1 DEF Inner
  <2>3. /\ blocks' = blocks /\ scopes' \in Seq(ScopeType)
        /\ Structure(arena.pos, Inner(Scope("scratch")), blocks', scopes')
    BY <2>1, <1>2 DEF Kinds
  <2> QED BY <1>1, <2>1, <2>2, <2>3, InvNext
<1>5. CASE RecordStart
  <2>1. Open("record") /\ arena' = StartRecord(arena)
    BY <1>5 DEF RecordStart
  <2>2. Inner(Scope("record")) = arena.depth + 1
    BY <1>1 DEF Inner
  <2>3. /\ blocks' = blocks /\ scopes' \in Seq(ScopeType)
        /\ Structure(arena.pos, Inner(Scope("record")), blocks', scopes')
    BY <2>1, <1>2 DEF Kinds
  <2>4. [arena EXCEPT !.align = arena.align] = arena
    BY <1>1 DEF ArenaType
  <2>5. SoundArena(arena') /\ arena'.pos = arena.pos /\ arena'.depth = arena.depth + 1
    BY <1>1, <1>3, <2>1, <2>4
  <2> QED BY <1>1, <2>2, <2>3, <2>5, InvNext
<1>6. CASE FormatStart
  <2>1. Open("format") /\ arena' = StartRecord([arena EXCEPT !.align = 1])
    BY <1>6 DEF FormatStart
  <2>2. Inner(Scope("format")) = arena.depth + 1
    BY <1>1 DEF Inner
  <2>3. /\ blocks' = blocks /\ scopes' \in Seq(ScopeType)
        /\ Structure(arena.pos, Inner(Scope("format")), blocks', scopes')
    BY <2>1, <1>2 DEF Kinds
  <2>4. SoundArena(arena') /\ arena'.pos = arena.pos /\ arena'.depth = arena.depth + 1
    BY <1>3, <2>1
  <2> QED BY <1>1, <2>2, <2>3, <2>4, InvNext
<1> QED BY <1>4, <1>5, <1>6

(* ScratchEnd goes back to where the scratch began.                          *)
LEMMA ScratchEndStep ==
  ASSUME ArenaInv, ScratchEnd
  PROVE  ArenaInv'
<1>1. /\ SoundArena(arena) /\ arena.pos \in Nat /\ arena.depth \in Nat
      /\ blocks \in Seq(BlockType) /\ scopes \in Seq(ScopeType)
      /\ Structure(arena.pos, arena.depth, blocks, scopes)
  BY InvFacts
<1> DEFINE s == Last(scopes)
<1>2. /\ scopes # << >> /\ s.kind = "scratch" /\ arena' = PopTo(arena, s.start)
      /\ blocks' = SubSeq(blocks, 1, s.below) /\ scopes' = Front(scopes)
  BY DEF ScratchEnd, InScope
<1>3. /\ s.start \in Nat /\ Header <= s.start /\ s.start <= arena.pos /\ s \in ScopeType
      /\ arena.depth = Inner(s) /\ scopes' \in Seq(ScopeType) /\ blocks' \in Seq(BlockType)
      /\ Structure(s.start, s.depth, blocks', scopes')
  BY <1>1, <1>2, Back
<1> HIDE DEF s
<1>4. s.depth \in Nat
  BY <1>3 DEF ScopeType
<1>5. arena.depth = s.depth
  BY <1>2, <1>3, <1>4 DEF Inner
<1>6. SoundArena(arena') /\ arena'.pos = s.start /\ arena'.depth = s.depth
  BY <1>1, <1>2, <1>3, <1>5, PopSound
<1> QED BY <1>3, <1>6, InvNext

(* ScratchEndKeeping goes back and keeps a block.                            *)
LEMMA KeepStep ==
  ASSUME ArenaInv, NEW used \in Nat, ScratchEndKeeping(used)
  PROVE  ArenaInv'
<1>1. /\ SoundArena(arena) /\ arena.pos \in Nat /\ arena.depth \in Nat
      /\ blocks \in Seq(BlockType) /\ scopes \in Seq(ScopeType)
      /\ Structure(arena.pos, arena.depth, blocks, scopes)
  BY InvFacts
<1> DEFINE s    == Last(scopes)
           kept == SubSeq(blocks, 1, s.below)
<1>2. /\ scopes # << >> /\ s.kind = "scratch" /\ arena' = PopTo(arena, s.start + used)
      /\ Len(blocks) > s.below /\ blocks[s.below + 1].start = s.start
      /\ used <= blocks[s.below + 1].size
      /\ blocks' = Append(kept, Block(s.start, used)) /\ scopes' = Front(scopes)
  BY DEF ScratchEndKeeping, InScope
<1>3. /\ s.start \in Nat /\ Header <= s.start /\ s \in ScopeType /\ s.below \in Nat
      /\ arena.depth = Inner(s) /\ scopes' \in Seq(ScopeType) /\ kept \in Seq(BlockType)
      /\ Structure(s.start, s.depth, kept, scopes')
  BY <1>1, <1>2, Back
<1> HIDE DEF s, kept
<1>4. s.depth \in Nat
  BY <1>3 DEF ScopeType
<1>5. arena.depth = s.depth
  BY <1>2, <1>3, <1>4 DEF Inner
<1>6. s.start + used <= arena.pos /\ s.start + used <= Cap
  <2> DEFINE b == blocks[s.below + 1]
  <2>1. s.below + 1 \in 1 .. Len(blocks)
    BY <1>1, <1>2, <1>3
  <2>2. End(b) <= arena.pos /\ End(b) <= Cap
    BY <1>1, <2>1 DEF Structure, Apart
  <2>3. b \in BlockType
    BY <1>1, <2>1
  <2>4. b.size \in Nat /\ End(b) = s.start + b.size /\ used <= b.size
    BY <1>2, <2>3 DEF End, BlockType
  <2> HIDE DEF b
  <2>5. Cap \in Nat
    BY SizeAssumption
  <2>6. s.start + used <= End(b)
    BY <1>3, <2>4
  <2> QED BY <1>1, <1>3, <2>2, <2>4, <2>5, <2>6
<1>7. SoundArena(arena') /\ arena'.pos = s.start + used /\ arena'.depth = s.depth
  <2>1. used \in Nat /\ s.start + used \in Nat /\ Header <= s.start + used
    BY <1>3, SizeAssumption
  <2>2. /\ SoundArena(PopTo(arena, s.start + used))
        /\ PopTo(arena, s.start + used).pos = s.start + used
        /\ PopTo(arena, s.start + used).depth = arena.depth
    BY <1>1, <1>6, <2>1, PopSound
  <2> QED BY <1>2, <1>5, <2>2
<1>8. blocks' \in Seq(BlockType) /\ Structure(s.start + used, s.depth, blocks', scopes')
  <2>1. used <= used /\ (s.depth >= 1 => used = used)
    OBVIOUS
  <2> QED BY <1>2, <1>3, <1>4, <1>6, <2>1, Grow
<1> QED BY <1>3, <1>7, <1>8, InvNext

(* RecordEnd, FormatEnd: the pieces become a block, outermost padding follows. *)
LEMMA RecordEndStep ==
  ASSUME ArenaInv, RecordEnd \/ FormatEnd
  PROVE  ArenaInv'
<1>1. /\ SoundArena(arena) /\ arena.pos \in Nat /\ arena.depth \in Nat
      /\ blocks \in Seq(BlockType) /\ scopes \in Seq(ScopeType)
      /\ Structure(arena.pos, arena.depth, blocks, scopes)
  BY InvFacts
<1> DEFINE s    == Last(scopes)
           kept == SubSeq(blocks, 1, s.below)
           a    == StopRecord(arena)
<1>2. /\ scopes # << >> /\ s.kind # "scratch" /\ blocks' = Recorded
      /\ scopes' = Front(scopes)
      /\ arena' = a \/ arena' = [a EXCEPT !.align = s.align]
  BY DEF RecordEnd, FormatEnd, InScope
<1>3. /\ s.start \in Nat /\ Header <= s.start /\ s.start <= arena.pos
      /\ s = scopes[Len(scopes)] /\ Len(scopes) \in Nat \ {0}
      /\ s \in ScopeType /\ s.below \in Nat /\ s.below <= Len(blocks)
      /\ arena.depth = Inner(s) /\ scopes' \in Seq(ScopeType) /\ kept \in Seq(BlockType)
      /\ Structure(s.start, s.depth, kept, scopes')
  BY <1>1, <1>2, Back
<1>4. blocks' = IF s.start < arena.pos THEN Append(kept, Block(s.start, arena.pos - s.start))
                ELSE kept
  BY <1>2 DEF Recorded
<1>5. Tiles(blocks, s.start, s.below, arena.pos, Len(blocks))
  <2>1. Within(scopes[Len(scopes)], blocks, arena.pos, arena.depth, Len(blocks))
    BY <1>1, <1>3 DEF Structure, Nested
  <2> QED BY <2>1, <1>2, <1>3 DEF Within
<1> HIDE DEF s, kept
<1>6. s.depth \in Nat /\ s.align \in {1, Align} /\ arena.depth = s.depth + 1
  <2>1. s.depth \in Nat /\ s.align \in {1, Align}
    BY <1>3 DEF ScopeType
  <2> QED BY <2>1, <1>2, <1>3 DEF Inner
<1>7. /\ SoundArena(a) /\ a.depth = s.depth /\ a.pos \in Nat /\ arena.pos <= a.pos
      /\ (s.depth # 0 => a.pos = arena.pos)
  BY <1>1, <1>6, StopSound
<1> HIDE DEF a
<1>8. SoundArena(arena') /\ arena'.pos = a.pos /\ arena'.depth = s.depth
  <2>1. CASE arena' = a
    BY <2>1, <1>7
  <2>2. CASE arena' = [a EXCEPT !.align = s.align]
    <3>1. a \in ArenaType
      BY <1>7 DEF SoundArena
    <3>2. arena' \in ArenaType
      BY <2>2, <3>1, <1>6 DEF ArenaType
    <3>3. arena'.pos = a.pos /\ arena'.depth = a.depth /\ arena'.commit = a.commit
      BY <2>2, <3>1 DEF ArenaType
    <3> QED BY <3>2, <3>3, <1>7 DEF SoundArena, Covered, Pages
  <2> QED BY <2>1, <2>2, <1>2
<1>9. blocks' \in Seq(BlockType) /\ Structure(a.pos, s.depth, blocks', scopes')
  <2>1. CASE s.start < arena.pos
    <3> DEFINE m == arena.pos - s.start
               d == a.pos - s.start
    <3>1. m \in Nat /\ d \in Nat /\ m <= d /\ (s.depth >= 1 => d = m)
      BY <2>1, <1>1, <1>3, <1>6, <1>7
    <3>2. s.start + m = arena.pos /\ s.start + d = a.pos
      BY <1>1, <1>3, <1>7
    <3>3. arena.pos <= Cap
      <4>1. Len(blocks) \in Nat
        BY <1>1
      <4>2. s.below < Len(blocks)
        BY <2>1, <4>1, <1>1, <1>3, <1>5 DEF Tiles
      <4>3. End(blocks[Len(blocks)]) = arena.pos
        BY <4>2, <1>5 DEF Tiles
      <4>4. Len(blocks) \in 1 .. Len(blocks)
        BY <4>1, <4>2, <1>3
      <4> QED BY <4>3, <4>4, <1>1 DEF Structure, Apart
    <3> HIDE DEF m, d
    <3>4. blocks' = Append(kept, Block(s.start, m))
      BY <2>1, <1>4 DEF m
    <3>5. blocks' \in Seq(BlockType) /\ Structure(s.start + d, s.depth, blocks', scopes')
      BY <3>1, <3>2, <3>3, <3>4, <1>3, <1>6, Grow
    <3> QED BY <3>2, <3>5
  <2>2. CASE ~(s.start < arena.pos)
    <3>1. blocks' = kept /\ s.start = arena.pos
      BY <2>2, <1>1, <1>3, <1>4
    <3>2. CASE s.depth = 0
      BY <3>1, <3>2, <1>3, <1>7, Pad
    <3>3. CASE s.depth # 0
      BY <3>1, <3>3, <1>3, <1>7
    <3> QED BY <3>1, <3>2, <3>3, <1>3
  <2> QED BY <2>1, <2>2
<1> QED BY <1>3, <1>8, <1>9, InvNext

(* Every step keeps the invariant.                                           *)
LEMMA StepInv == ArenaInv /\ [Next]_vars => ArenaInv'
<1> SUFFICES ASSUME ArenaInv, [Next]_vars PROVE ArenaInv'
  OBVIOUS
<1>1. ASSUME NEW n \in Sizes, PushBlock(n) PROVE ArenaInv'
  BY <1>1, SizesAssumption, PushBlockStep
<1>2. ASSUME NEW n \in Sizes, NEW used \in Sizes, PushPart(n, used) PROVE ArenaInv'
  BY <1>2, SizesAssumption, PushPartStep
<1>3. CASE ScratchStart \/ RecordStart \/ FormatStart
  BY <1>3, OpenStep
<1>4. CASE ScratchEnd
  BY <1>4, ScratchEndStep
<1>5. ASSUME NEW used \in Sizes, ScratchEndKeeping(used) PROVE ArenaInv'
  BY <1>5, SizesAssumption, KeepStep
<1>6. CASE RecordEnd \/ FormatEnd
  BY <1>6, RecordEndStep
<1>7. CASE UNCHANGED vars
  BY <1>7 DEF vars, ArenaInv, TypeOK, Committed, CommittedPages
<1> QED BY <1>1, <1>2, <1>3, <1>4, <1>5, <1>6, <1>7 DEF Next

--------------------------------------------------------------------------------
(* The invariant of the arena holds in every reachable state.                *)
THEOREM ArenaInductive == Spec => []ArenaInv
BY InitInv, StepInv, PTL DEF Spec

(* The position never runs away from the arena, whatever is pushed, popped   *)
(* and recorded.                                                            *)
THEOREM ArenaTypes == Spec => []TypeOK
<1>1. ArenaInv => TypeOK
  BY DEF ArenaInv
<1> QED BY <1>1, ArenaInductive, PTL

(* Two blocks in use never overlap and none reaches past the capacity.       *)
THEOREM BlocksSound == Spec => []BlocksApart
<1>1. ArenaInv => BlocksApart
  BY DEF ArenaInv, Structure, BlocksApart
<1> QED BY <1>1, ArenaInductive, PTL

(* What is used is committed.                                                *)
THEOREM CommitSound == Spec => []Committed
<1>1. ArenaInv => Committed
  BY DEF ArenaInv
<1> QED BY <1>1, ArenaInductive, PTL

(* A recorded string is the pieces written to it, without a gap.             *)
THEOREM RecordsSound == Spec => []RecordTiled
<1>1. ArenaInv => RecordTiled
  BY DEF ArenaInv, Structure, Nested, Within, RecordTiled
<1> QED BY <1>1, ArenaInductive, PTL
================================================================================
