---------------------------------- MODULE Arena ---------------------------------
(***************************************************************************)
(* An arena as the code of base.c uses it: blocks are pushed; mem_scoped,  *)
(* str_record and the formatting functions open and close scopes, which    *)
(* nest because they are for loops; some callers push more than they need  *)
(* and pop the rest at once.  What the scopes and the blocks in use are is *)
(* known to the callers only: it is what the arena must not disturb.       *)
(***************************************************************************)
EXTENDS ArenaOps, Sequences, SequencesExt

CONSTANTS
  Align,      \* the alignment the arena was made with
  Sizes,      \* the sizes that are pushed
  MaxBlocks,  \* bound on the blocks in use
  MaxScopes   \* bound on the open scopes

ASSUME AlignAssumption == Align \in Nat \ {0} /\ Page % Align = 0
ASSUME SizesAssumption == Sizes \subseteq Nat
ASSUME BoundsAssumption == MaxBlocks \in Nat /\ MaxScopes \in Nat

VARIABLES
  arena,   \* pos, commit, depth, align
  blocks,  \* the blocks in use, oldest first
  scopes   \* the open scopes, outermost first

vars == <<arena, blocks, scopes>>

Kinds == {"scratch", "record", "format"}

Block(start, size) == [start |-> start, size |-> size]
End(b) == b.start + b.size

Init ==
  /\ arena = Make(Align)
  /\ blocks = << >>
  /\ scopes = << >>

--------------------------------------------------------------------------------
(* mem_arenaPush, and the macros around it.                                  *)
PushBlock(n) ==
  /\ Len(blocks) < MaxBlocks
  /\ Fits(arena, n)
  /\ arena' = Push(arena, n)
  /\ blocks' = Append(blocks, Block(arena.pos, n))
  /\ UNCHANGED scopes

(* os_cwd, os_filepath, str_recordU32: the rest of the block is popped.      *)
PushPart(n, used) ==
  /\ Len(blocks) < MaxBlocks
  /\ used <= n
  /\ Fits(arena, n)
  /\ arena' = PopAmount(Push(arena, n), n - used)
  /\ blocks' = Append(blocks, Block(arena.pos, used))
  /\ UNCHANGED scopes

Open(kind) ==
  /\ Len(scopes) < MaxScopes
  /\ scopes' = Append(scopes, [kind |-> kind, start |-> arena.pos,
                               below |-> Len(blocks), align |-> arena.align,
                               depth |-> arena.depth])
  /\ UNCHANGED blocks

InScope(kind) == scopes # << >> /\ Last(scopes).kind = kind

(* mem_scratchStart, mem_scratchEnd.                                        *)
ScratchStart == Open("scratch") /\ UNCHANGED arena

ScratchEnd ==
  /\ InScope("scratch")
  /\ arena' = PopTo(arena, Last(scopes).start)
  /\ blocks' = SubSeq(blocks, 1, Last(scopes).below)
  /\ scopes' = Front(scopes)

(* os_fixFilepath moves the start of its scratch behind the result, which is *)
(* the first block pushed in it and may have become shorter.                 *)
ScratchEndKeeping(used) ==
  /\ InScope("scratch")
  /\ LET s == Last(scopes) IN
     /\ Len(blocks) > s.below /\ blocks[s.below + 1].start = s.start
     /\ used <= blocks[s.below + 1].size
     /\ arena' = PopTo(arena, s.start + used)
     /\ blocks' = Append(SubSeq(blocks, 1, s.below), Block(s.start, used))
  /\ scopes' = Front(scopes)

(* str_record and str_joinVargs: the pieces become one string.               *)
RecordStart == Open("record") /\ arena' = StartRecord(arena)

(* The string the loop of str_record yields at its end, STR_NULL if empty.   *)
Recorded ==
  LET s == Last(scopes)
      outer == SubSeq(blocks, 1, s.below)
  IN  IF s.start < arena.pos THEN Append(outer, Block(s.start, arena.pos - s.start))
      ELSE outer

RecordEnd ==
  /\ InScope("record")
  /\ blocks' = Recorded
  /\ arena' = StopRecord(arena)
  /\ scopes' = Front(scopes)

(* str_fmtVargs: a record without alignment, which is restored afterwards.   *)
FormatStart ==
  /\ Open("format")
  /\ arena' = StartRecord([arena EXCEPT !.align = 1])

FormatEnd ==
  /\ InScope("format")
  /\ blocks' = Recorded
  /\ arena' = [StopRecord(arena) EXCEPT !.align = Last(scopes).align]
  /\ scopes' = Front(scopes)

--------------------------------------------------------------------------------
Next ==
  \/ \E n \in Sizes : PushBlock(n)
  \/ \E n \in Sizes, used \in Sizes : PushPart(n, used)
  \/ ScratchStart \/ ScratchEnd \/ \E used \in Sizes : ScratchEndKeeping(used)
  \/ RecordStart \/ RecordEnd
  \/ FormatStart \/ FormatEnd

Spec == Init /\ [][Next]_vars

--------------------------------------------------------------------------------
BlockType == [start : Nat, size : Nat]
ScopeType == [kind : Kinds, start : Nat, below : Nat, align : {1, Align}, depth : Nat]
ArenaType == [pos : Header .. AlignUp(Cap, Align), commit : 0 .. Cap, depth : Nat,
              align : {1, Align}]

(* The position is behind the header; the end of a record may move it past   *)
(* the capacity, but only by the padding; no more than Cap is committed.     *)
TypeOK ==
  /\ arena \in ArenaType
  /\ blocks \in Seq(BlockType)
  /\ scopes \in Seq(ScopeType)

(* Blocks in use lie between header and capacity, in order, and never        *)
(* overlap; what a scope ends or a caller pops is not in use.                *)
Apart(pos, bl) ==
  /\ \A i \in 1 .. Len(bl) : Header <= bl[i].start /\ End(bl[i]) <= pos /\ End(bl[i]) <= Cap
  /\ \A i, j \in 1 .. Len(bl) : i < j => End(bl[i]) <= bl[j].start

BlocksApart == Apart(arena.pos, blocks)

(* Every byte up to the position has been committed and not given back.      *)
Committed == arena.pos <= arena.commit \/ arena.commit = Cap

(* The blocks lo + 1 .. hi of bl fill the memory from start to end.          *)
Tiles(bl, start, lo, end, hi) ==
  /\ lo <= hi
  /\ lo = hi => start = end
  /\ lo < hi => bl[lo + 1].start = start /\ End(bl[hi]) = end
  /\ \A i \in lo + 1 .. hi - 1 : End(bl[i]) = bl[i + 1].start

(* The pieces recorded so far follow each other without a gap, from the start *)
(* of the record to the position, however records and scratches nest: the    *)
(* string of a record is its pieces.                                        *)
RecordTiled ==
  \A s \in 1 .. Len(scopes) : scopes[s].kind # "scratch" =>
    Tiles(blocks, scopes[s].start, scopes[s].below, arena.pos, Len(blocks))

--------------------------------------------------------------------------------
(* The inductive invariant.                                                 *)

(* The end of scope s or of the innermost: what a later scope found when it  *)
(* was opened, or what is there now, was reached within scope s.             *)
Within(s, bl, pos, depth, len) ==
  /\ s.start <= pos /\ s.below <= len
  /\ s.kind # "scratch" => depth >= 1 /\ Tiles(bl, s.start, s.below, pos, len)

Nested(pos, depth, bl, sc) ==
  \A s \in 1 .. Len(sc) :
    /\ Header <= sc[s].start
    /\ \A i \in 1 .. Len(bl) :
         IF i <= sc[s].below THEN End(bl[i]) <= sc[s].start ELSE sc[s].start <= bl[i].start
    /\ \A t \in s + 1 .. Len(sc) : Within(sc[s], bl, sc[t].start, sc[t].depth, sc[t].below)
    /\ Within(sc[s], bl, pos, depth, Len(bl))

(* A scope adds its own record to the depth it found.                        *)
Inner(s) == s.depth + (IF s.kind = "scratch" THEN 0 ELSE 1)

Depths(depth, sc) ==
  \A s \in 1 .. Len(sc) : (IF s = Len(sc) THEN depth ELSE sc[s + 1].depth) = Inner(sc[s])

Structure(pos, depth, bl, sc) ==
  Apart(pos, bl) /\ Nested(pos, depth, bl, sc) /\ Depths(depth, sc)

(* What is committed ends with a page, which is aligned, or with the arena.  *)
CommittedPages == arena.commit = Cap \/ \E k \in 0 .. Cap : arena.commit = k * Align

ArenaInv ==
  /\ TypeOK /\ Committed /\ CommittedPages
  /\ Structure(arena.pos, arena.depth, blocks, scopes)
================================================================================
