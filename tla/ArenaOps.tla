-------------------------------- MODULE ArenaOps --------------------------------
(***************************************************************************)
(* The functions of base.c on an Arena, as operators from an arena to the  *)
(* arena after the call.  Positions count from the start of the arena, so  *)
(* that the memory handed out begins at Header = sizeof(Arena).            *)
(*                                                                         *)
(* Sums do not wrap around: sizes are far below 2^64 for every caller.     *)
(***************************************************************************)
EXTENDS Integers

CONSTANTS
  Header,  \* sizeof(Arena)
  Cap,     \* arena->cap
  Page     \* arena->base.pageSize

ASSUME SizeAssumption ==
  /\ Header \in Nat /\ Page \in Nat \ {0}
  /\ Cap \in Nat /\ Header <= Cap

Least(a, b) == IF a < b THEN a ELSE b

(* alignUp, for an alignment that is a power of two.                         *)
AlignUp(n, a) == ((n + (a - 1)) \div a) * a

(* What has to be committed to use the arena up to p.                        *)
PageEnd(p) == Least(AlignUp(p, Page), Cap)

(* mem_makeArenaAligned.                                                    *)
Make(align) ==
  [pos |-> Header, commit |-> PageEnd(Header), depth |-> 0, align |-> align]

(* depth is unsafeRecord: inside a record nothing is padded.                 *)
Padded(a, n) == IF a.depth = 0 /\ a.align > 1 THEN AlignUp(n, a.align) ELSE n

Fits(a, n) == a.pos + Padded(a, n) <= Cap

(* mem_arenaPush of something that fits: it is put at a.pos.  If it does not *)
(* fit NULL is returned and the arena is unchanged.                          *)
Push(a, n) ==
  LET p == a.pos + Padded(a, n)
  IN  [a EXCEPT !.pos = p, !.commit = IF p > @ THEN PageEnd(p) ELSE @]

(* Mutant: gives back the page the position is in.                           *)
PopTo_WholePage(a, p) ==
  IF p < a.pos THEN [a EXCEPT !.pos = p, !.commit = Least(@, (p \div Page) * Page)] ELSE a

(* mem_arenaPopTo.                                                          *)
PopTo(a, p) ==
  LET q == IF p > Header THEN p ELSE Header
  IN  IF q < a.pos THEN [a EXCEPT !.pos = q, !.commit = Least(@, PageEnd(q))] ELSE a

(* mem_arenaPopAmount, for amounts up to the position.                       *)
PopAmount(a, n) == PopTo(a, a.pos - n)

(* mem_arenaStartUnsafeRecord, mem_arenaStopUnsafeRecord.                    *)
StartRecord(a) == [a EXCEPT !.depth = @ + 1]

(* Mutant: a flag instead of a count.                                        *)
StopRecord_Flag(a) == [a EXCEPT !.depth = 0, !.pos = AlignUp(@, a.align)]

StopRecord(a) ==
  [a EXCEPT !.depth = @ - 1,
            !.pos   = IF a.depth = 1 THEN AlignUp(@, a.align) ELSE @]
================================================================================
