------------------------------- MODULE HtmlBuilder ------------------------------
(***************************************************************************)
(* The HTML builder of kit_webServer.h on its arena: html_builderStart,    *)
(* the tags, which are macros around a block of C, html_text, and          *)
(* html_builderEnd.  A block may be left early (break, return): the macro  *)
(* is a for loop, and its end is then not run.                             *)
(*                                                                         *)
(* A unit of text is a letter; what stands in it only says which tag it    *)
(* belongs to and whether it opens or closes it.                           *)
(***************************************************************************)
EXTENDS ArenaOps, Sequences

CONSTANTS
  Align,     \* the alignment of the arena
  Tags,
  MaxAttrs   \* bound on the attributes of a tag

VARIABLES
  at,       \* "start", "body", "done" or "crashed"
  arena,    \* as in ArenaOps
  memory,   \* arena->memory
  builder,  \* depth and startIdx
  body,     \* the C blocks that are open, by tag
  page,     \* what html_builderEnd returned
  written,  \* history: what was written to the page
  left      \* history: a block was left early

vars == <<at, arena, memory, builder, body, page, written, left>>

Letter(part, tag) == [part |-> part, tag |-> tag]
Garbage == Letter("garbage", "none")

(* mem_getArenaMemOffsetPos.                                                *)
Offset(a) == a.pos - Header

Init ==
  /\ at = "start"
  /\ arena = Make(Align)
  /\ memory = [i \in 0 .. Cap - Header |-> Garbage]   \* and one byte behind
  /\ builder = [depth |-> 0, startIdx |-> 0]
  /\ body = << >> /\ page = << >>
  /\ written = << >> /\ left = FALSE

--------------------------------------------------------------------------------
(* What str_join works on, and whether the program goes on.                   *)
Store == [arena |-> arena, memory |-> memory, written |-> written, ok |-> TRUE]

(* str_recordStr: mem_copy to what mem_arenaPush returned, which is NULL in a *)
(* full arena.                                                              *)
RecordStr(s, text) ==
  LET i == Offset(s.arena) IN
  IF ~s.ok \/ ~Fits(s.arena, Len(text)) THEN [s EXCEPT !.ok = FALSE]
  ELSE [arena   |-> Push(s.arena, Len(text)),
        memory  |-> [k \in DOMAIN s.memory |->
                       IF k \in i .. i + Len(text) - 1 THEN text[k - i + 1] ELSE s.memory[k]],
        written |-> s.written \o text,
        ok      |-> TRUE]

(* str_join of some pieces, a record of its own whose string is not used: the *)
(* store after each piece.                                                   *)
Recorded(s, pieces) ==
  LET After[n \in 0 .. Len(pieces)] ==
        IF n = 0 THEN [s EXCEPT !.arena = StartRecord(@)]
        ELSE RecordStr(After[n - 1], pieces[n])
  IN  After
Join(s, pieces) == [Recorded(s, pieces)[Len(pieces)] EXCEPT !.arena = StopRecord(@)]

(* The str_joins of one tag or text: the store after each.                    *)
Joined(joins) ==
  LET After[n \in 0 .. Len(joins)] ==
        IF n = 0 THEN Store ELSE Join(After[n - 1], joins[n])
  IN  After
WriteAll(joins) ==
  LET s == Joined(joins)[Len(joins)] IN
  /\ arena' = s.arena /\ memory' = s.memory /\ written' = s.written
  /\ at' = IF s.ok THEN at ELSE "crashed"

Attribute(tag) == << <<Letter("key", tag)>>, <<Letter("value", tag)>> >>

OpenJoins(tag, attrs) ==
  << << <<Letter("open", tag)>> >> >> \o [i \in 1 .. attrs |-> Attribute(tag)]
    \o << << <<Letter("rest", tag), Letter("rest", tag)>> >> >>

Top(stack)    == stack[Len(stack)]
Popped(stack) == SubSeq(stack, 1, Len(stack) - 1)

(* html_builderStart: two records are started.                               *)
Start ==
  /\ at = "start"
  /\ builder' = [depth |-> 0, startIdx |-> Offset(arena)]
  /\ arena' = StartRecord(StartRecord(arena))
  /\ at' = "body"
  /\ UNCHANGED <<memory, body, page, written, left>>

(* html_start, html_headStart, html_bodyStart, html_divStart.                *)
OpenTag(tag, attrs) ==
  /\ at = "body"
  /\ builder' = [builder EXCEPT !.depth = @ + 1]
  /\ WriteAll(OpenJoins(tag, attrs))
  /\ body' = Append(body, tag)
  /\ UNCHANGED <<page, left>>

(* html_end, html_headEnd, html_bodyEnd, html_divEnd.                        *)
CloseTag ==
  /\ at = "body" /\ body # << >>
  /\ builder' = [builder EXCEPT !.depth = @ - 1]
  /\ WriteAll(<< << <<Letter("close", Top(body))>> >> >>)
  /\ body' = Popped(body)
  /\ UNCHANGED <<page, left>>

(* A break in the block: the loop of the macro ends without its last part.   *)
LeaveBlock ==
  /\ at = "body" /\ body # << >>
  /\ body' = Popped(body)
  /\ left' = TRUE
  /\ UNCHANGED <<at, arena, memory, builder, page, written>>

(* html_text.                                                               *)
Text ==
  /\ at = "body"
  /\ WriteAll(<< << <<Letter("text", "none")>> >> >>)
  /\ UNCHANGED <<builder, body, page, left>>

(* Mutant: the depth is not looked at.                                       *)
Finish_AnyDepth ==
  /\ at = "body" /\ body = << >>
  /\ arena' = StopRecord(arena)
  /\ LET size == Offset(arena') - (builder.startIdx - 1) IN
     page' = [i \in 1 .. size |-> memory[builder.startIdx + i - 1]]
  /\ builder' = [depth |-> -1, startIdx |-> -1]
  /\ at' = "done"
  /\ UNCHANGED <<memory, body, written, left>>

(* html_builderEnd: one record is stopped; the size counts from startIdx - 1. *)
Finish ==
  /\ at = "body" /\ body = << >>
  /\ arena' = StopRecord(arena)
  /\ LET size == Offset(arena') - (builder.startIdx - 1) IN
     page' = IF builder.depth # 0 THEN << >>
             ELSE [i \in 1 .. size |-> memory[builder.startIdx + i - 1]]
  /\ builder' = [depth |-> -1, startIdx |-> -1]
  /\ at' = "done"
  /\ UNCHANGED <<memory, body, written, left>>

Next ==
  \/ Start
  \/ \E tag \in Tags, attrs \in 0 .. MaxAttrs : OpenTag(tag, attrs)
  \/ CloseTag \/ LeaveBlock \/ Text
  \/ Finish

Spec == Init /\ [][Next]_vars

--------------------------------------------------------------------------------
Letters == [part : {"open", "key", "value", "rest", "text", "close", "garbage"},
            tag : Tags \cup {"none"}]

(* Every variable stays in its type; the depth is at least the blocks open.  *)
TypeOK ==
  /\ at \in {"start", "body", "done", "crashed"}
  /\ arena.pos \in Header .. Cap
  /\ memory \in [0 .. Cap - Header -> Letters]
  /\ builder.depth >= IF at = "done" THEN -1 ELSE Len(body)
  /\ body \in Seq(Tags) /\ page \in Seq(Letters) /\ written \in Seq(Letters)
  /\ left \in BOOLEAN

(* Whether tags are properly nested: opening and closing letters match up.   *)
Nest(stack, l) ==
  IF l.part = "open" THEN Append(stack, l.tag)
  ELSE IF l.part # "close" THEN stack
  ELSE IF stack # << >> /\ Top(stack) = l.tag THEN Popped(stack)
  ELSE Append(stack, "mismatch")
Nesting(letters) ==
  LET Open[n \in 0 .. Len(letters)] ==
        IF n = 0 THEN << >> ELSE Nest(Open[n - 1], letters[n])
  IN  Open
WellNested(letters) == Nesting(letters)[Len(letters)] = << >>

(* The builder only counts tags; a page it hands out is nevertheless properly *)
(* nested, and it begins with all that was written, in order, without gaps,  *)
(* although every str_join records and may align.                            *)
PageIsWhole ==
  page # << >> =>
    /\ WellNested(written)
    /\ Len(written) <= Len(page) /\ \A i \in DOMAIN written : page[i] = written[i]

(* A page is empty exactly if a block was left early.                        *)
EmptyIfLeft == at = "done" => (page = << >>) = left

(* "Content-length: {}" is sent with the size of the page: a page that is    *)
(* handed out should be what was written and nothing else.                   *)
PageSizeExact == page # << >> => Len(page) = Len(written)
================================================================================
