-------------------------------- MODULE FilePath -------------------------------
(***************************************************************************)
(* os_fixFilepath of base.h, and the functions of base.c it is made of:    *)
(* str_findFirst, str_findLast, str_containsSubStringCount and             *)
(* str_replaceAll.  A string is a sequence of characters.                  *)
(*                                                                         *)
(* A string that is built is a block of a size computed beforehand, into   *)
(* which a number of characters is then written.                           *)
(***************************************************************************)
EXTENDS Integers, Sequences, FiniteSets

CONSTANTS
  Characters,
  MaxPath,    \* bound on the length of a path
  MaxRounds   \* bound on the rounds of the loop for ".."

VARIABLES
  path,      \* the argument
  fixed,     \* fixedPath: the block, and what was written to it
  rounds,    \* how often a ".." was taken out
  result,    \* resultPath
  at         \* what is next

vars == <<path, fixed, rounds, result, at>>

Block(size, written) == [size |-> size, written |-> written]
Content(b) == SubSeq(b.written, 1, b.size)

--------------------------------------------------------------------------------
(* The strings of base.c, with positions from 0.                             *)

IsAt(str, find, i) ==
  i + Len(find) <= Len(str) /\ SubSeq(str, i + 1, i + Len(find)) = find

(* str_findFirst: the size of the string if there is no match.               *)
FindFirst(str, find, offset) ==
  LET Matches == {i \in offset .. Len(str) - Len(find) : IsAt(str, find, i)}
  IN  IF find = << >> THEN 0
      ELSE IF Matches = {} THEN Len(str)
      ELSE CHOOSE i \in Matches : \A j \in Matches : i <= j

(* str_findLast: the position counts from the offset, and a match there is   *)
(* not seen.                                                                *)
FindLast(str, find, offset) ==
  LET sub == SubSeq(str, offset + 1, Len(str))
      Matches == {i \in 1 .. Len(sub) - Len(find) : IsAt(sub, find, i)}
  IN  IF Len(find) + offset > Len(str) \/ Matches = {} THEN Len(str)
      ELSE CHOOSE i \in Matches : \A j \in Matches : j <= i

Matches(str, find) == {i \in 0 .. Len(str) - Len(find) : IsAt(str, find, i)}

(* str_containsSubStringCount: each search begins one behind the last match, *)
(* so that matches which overlap all count.                                  *)
Count(str, find) == Cardinality(Matches(str, find))

(* The loop of str_replaceAll: where it is, and what it has written.         *)
ReplaceTurn(str, find, by, s) ==
  IF s.pos = Len(str) THEN s
  ELSE IF IsAt(str, find, s.pos)
       THEN [pos |-> s.pos + Len(find), written |-> s.written \o by]
  ELSE [pos |-> s.pos + 1, written |-> Append(s.written, str[s.pos + 1])]

ReplaceTurns(str, find, by) ==
  LET Turns[n \in 0 .. Len(str)] ==
        IF n = 0 THEN [pos |-> 0, written |-> << >>]
        ELSE ReplaceTurn(str, find, by, Turns[n - 1])
  IN  Turns

Replaced(str, find, by) == ReplaceTurns(str, find, by)[Len(str)].written

(* Mutant: the size of one match too few is counted.                         *)
ReplaceAll_FirstOnly(b, find, by) ==
  LET str == Content(b)
  IN  IF Count(str, find) = 0 THEN b
      ELSE Block(Len(str) - Len(find) + Len(by), Replaced(str, find, by))

(* str_replaceAll.                                                          *)
ReplaceAll(b, find, by) ==
  LET str   == Content(b)
      count == Count(str, find)
  IN  IF find = << >> \/ count = 0 THEN b
      ELSE Block(Len(str) - count * Len(find) + count * Len(by), Replaced(str, find, by))

--------------------------------------------------------------------------------
(* Paths between two and MaxPath characters long.                           *)
Init ==
  /\ \E n \in 2 .. MaxPath : path \in [1 .. n -> Characters]
  /\ fixed = Block(Len(path), path)
  /\ rounds = 0
  /\ result = << >>
  /\ at = "slashes"

FixSlashes ==
  /\ at = "slashes"
  /\ fixed' = ReplaceAll(fixed, <<"\\">>, <<"/">>)
  /\ at' = "dots"
  /\ UNCHANGED <<path, rounds, result>>

FixDots ==
  /\ at = "dots"
  /\ fixed' = ReplaceAll(fixed, <<"/", ".", "/">>, <<"/">>)
  /\ at' = "parents"
  /\ UNCHANGED <<path, rounds, result>>

DotDot == FindFirst(Content(fixed), <<".", ".">>, 0)

(* The search for the slash begins just before the dots.  At the start of    *)
(* the path its offset wraps around and nothing is found.                    *)
LastSlash ==
  IF DotDot = 0 THEN fixed.size ELSE FindLast(Content(fixed), <<"/">>, DotDot - 1)

(* One round of the loop.  The last memcpy takes one character more than is  *)
(* left and writes one more than fits.                                      *)
FixParent ==
  /\ at = "parents" /\ DotDot # fixed.size
  /\ rounds < MaxRounds
  /\ LET old == Content(fixed) IN
     fixed' = Block(fixed.size - (DotDot + 3 - LastSlash),
                    SubSeq(old, 1, LastSlash) \o SubSeq(old \o <<".">>, DotDot + 4, Len(old) + 1))
  /\ rounds' = rounds + 1
  /\ UNCHANGED <<path, result, at>>

(* ASSERT(fixedPath.size >= path.size) is an assert of the C library and the *)
(* build defines no NDEBUG: whatever became shorter ends the program.        *)
Finish ==
  /\ at = "parents" /\ DotDot = fixed.size
  /\ \/ /\ fixed.size >= Len(path)
        /\ result' = Content(fixed)
        /\ at' = "done"
     \/ /\ fixed.size < Len(path)
        /\ at' = "aborted"
        /\ UNCHANGED result
  /\ UNCHANGED <<path, fixed, rounds>>

Next == FixSlashes \/ FixDots \/ FixParent \/ Finish

Spec == Init /\ [][Next]_vars

--------------------------------------------------------------------------------
(* What the path is with slashes only; whether ".." occurs in it, or two     *)
(* "/./" that overlap.                                                      *)
Slashed   == [i \in DOMAIN path |-> IF path[i] = "\\" THEN "/" ELSE path[i]]
NoParents == FindFirst(Slashed, <<".", ".">>, 0) = Len(path)
Apart     == FindFirst(Slashed, <<"/", ".", "/", ".", "/">>, 0) = Len(path)
Simple    == NoParents /\ Apart

(* The characters of a path that stay: all but the "/." of a "/./".   *)
IsDropped(i) ==
  \/ IsAt(Slashed, <<"/", ".", "/">>, i - 1)
  \/ i > 1 /\ IsAt(Slashed, <<"/", ".", "/">>, i - 2)
KeptTo[n \in 0 .. Len(path)] ==
  IF n = 0 THEN << >>
  ELSE IF IsDropped(n) THEN KeptTo[n - 1] ELSE Append(KeptTo[n - 1], Slashed[n])
Kept == KeptTo[Len(path)]

(* Of any path the first call of str_replaceAll makes the same path with      *)
(* slashes.                                                                 *)
SlashesReplaced == at = "dots" => fixed = Block(Len(path), Slashed)

(* The second takes out every "/." of a "/./".  It computes the size of its  *)
(* result in one loop and fills it in another, which agree if no two matches *)
(* overlap; whether there are ".." does not matter.                          *)
DotsTakenOut ==
  at \notin {"slashes", "dots"} /\ rounds = 0 /\ Apart => fixed = Block(Len(Kept), Kept)

(* A path without ".." is returned only as it should be, with slashes and     *)
(* without "/./"; and one from which nothing has to be taken out does not    *)
(* reach the failing assertion.                                             *)
SimpleFixed ==
  Simple =>
    /\ at = "done" => result = Kept
    /\ at = "aborted" => \E i \in DOMAIN path : IsDropped(i)
================================================================================
