------------------------------- MODULE HttpHeader ------------------------------
(***************************************************************************)
(* http_headerInit, http_headerNext and http_headerReset on what the first *)
(* SSL_read returned, and the route g_handleSocket takes for it.           *)
(*                                                                         *)
(* What was read is a request of a client up to some character: requests   *)
(* come in one or more TLS records, and the server reads once.  A request  *)
(* has a first line, fields, and a blank line.  Letters stand for all      *)
(* characters but spaces, ends of line and the colon.                      *)
(***************************************************************************)
EXTENDS Integers, Sequences, FiniteSets

CONSTANTS
  Lines,   \* the first lines
  Eols,    \* the ends of line
  Fields,  \* sequences of [key, gap, value]
  About,   \* the path "/about"
  Resets   \* bound on the number of http_headerReset

VARIABLES
  request,  \* line, eol and fields of what the client sends
  text,     \* what was read of it
  header,   \* see Header
  at,       \* "received", "parsed" or "ended"
  found,    \* what http_headerNext found since it began or was reset
  resets    \* how often it was reset

vars == <<request, text, header, at, found, resets>>

Size == Len(text)

(* Characters count from 0, as in the code; a Span is an S8 into the text.   *)
Char(i)     == text[i + 1]
Span(i, j)  == [start |-> i, size |-> j - i]
String(s)   == SubSeq(text, s.start + 1, s.start + s.size)
IsSpacing(c)   == c = " "
IsEndOfLine(c) == c \in {"CR", "LF"}

(* Where the characters of each kind are.                                    *)
Positions  == 0 .. Size - 1
Colons     == {j \in Positions : Char(j) = ":"}
LineEnds   == {j \in Positions : IsEndOfLine(Char(j))}
Spacings   == {j \in Positions : IsSpacing(Char(j))}

(* The next position of a set at or behind i, or the end.                    *)
Find(i, set) ==
  LET Behind == {j \in set : j >= i}
  IN  IF Behind = {} THEN Size ELSE CHOOSE j \in Behind : \A k \in Behind : j <= k

--------------------------------------------------------------------------------
Request(line, eol, fields) == [line |-> line, eol |-> eol, fields |-> fields]

Field(f) == f.key \o <<":">> \o f.gap \o f.value

(* The first n fields, each with its end of line.                            *)
FieldLines(r) ==
  LET First[n \in 0 .. Len(r.fields)] ==
        IF n = 0 THEN << >> ELSE First[n - 1] \o Field(r.fields[n]) \o r.eol
  IN  First

Text(r) == r.line \o r.eol \o FieldLines(r)[Len(r.fields)] \o r.eol

NoHeader == [words |-> << >>, start |-> 0, needle |-> 0, key |-> << >>, value |-> << >>]

Init ==
  /\ \E line \in Lines, eol \in Eols, fields \in Fields :
       LET r == Request(line, eol, fields) IN
       /\ request = r
       /\ \E n \in 1 .. Len(Text(r)) : text = SubSeq(Text(r), 1, n)
  /\ header = NoHeader
  /\ at = "received"
  /\ found = << >>
  /\ resets = 0

--------------------------------------------------------------------------------
(* The two loops of http_headerInit at the next character.  The outer one     *)
(* passes over spaces; the inner one looks for the end of a word, and with   *)
(* three words stored for nothing, so that it runs to the end of the text.   *)
ScanChar(s) ==
  LET c == Char(s.next)
      Then(words, from, inWord, over) ==
        [next |-> s.next + 1, words |-> words, from |-> from, inWord |-> inWord, over |-> over]
  IN  IF s.over THEN s
      ELSE IF ~s.inWord /\ IsSpacing(c) THEN Then(s.words, s.next + 1, FALSE, FALSE)
      ELSE IF ~s.inWord /\ IsEndOfLine(c) THEN Then(s.words, s.from, FALSE, TRUE)
      ELSE IF Len(s.words) = 3 \/ ~(IsSpacing(c) \/ IsEndOfLine(c))
           THEN Then(s.words, s.from, TRUE, FALSE)
      ELSE Then(Append(s.words, Span(s.from, s.next)), s.next + 1, FALSE, IsEndOfLine(c))

Scan[n \in 0 .. Size] ==
  IF n = 0 THEN [next |-> 0, words |-> << >>, from |-> 0, inWord |-> FALSE, over |-> FALSE]
  ELSE ScanChar(Scan[n - 1])

Least(a, b) == IF a < b THEN a ELSE b

(* One further than the character behind the first end-of-line character.    *)
Start(next) == Least(next + 1, Size - 1)

HeaderInit ==
  /\ at = "received"
  /\ LET s == Scan[Size] IN
     header' = [NoHeader EXCEPT !.words = s.words, !.start = Start(s.next),
                                !.needle = Start(s.next)]
  /\ at' = "parsed"
  /\ UNCHANGED <<request, text, found, resets>>

(* str_skipWhiteSpace.                                                      *)
SkipWhiteSpace(s) ==
  LET i == Least(Find(s.start, Positions \ (Spacings \cup LineEnds)), s.start + s.size)
  IN  Span(i, s.start + s.size)

(* Mutant: the end of the text ends a value too.                             *)
HeaderNext_EndsValue ==
  /\ at = "parsed"
  /\ LET c == Find(header.needle, Colons)
         e == Find(c, LineEnds)
         key == SkipWhiteSpace(Span(header.needle, c))
         value == SkipWhiteSpace(Span(c + 1, e))
     IN  IF c = Size
         THEN /\ header' = [header EXCEPT !.needle = Size]
              /\ at' = "ended" /\ UNCHANGED found
         ELSE /\ header' = [header EXCEPT !.key = String(key), !.value = String(value),
                                          !.needle = Find(e, Positions \ LineEnds)]
              /\ found' = Append(found, [key |-> String(key), value |-> String(value)])
              /\ UNCHANGED at
  /\ UNCHANGED <<request, text, resets>>

(* http_headerNext: false, with the needle at the end, if there is no colon  *)
(* or no end of line behind it.                                             *)
HeaderNext ==
  /\ at = "parsed"
  /\ LET c == Find(header.needle, Colons)
         e == Find(c, LineEnds)
         key == SkipWhiteSpace(Span(header.needle, c))
         value == SkipWhiteSpace(Span(c + 1, e))
     IN  IF e = Size
         THEN /\ header' = [header EXCEPT !.needle = Size]
              /\ at' = "ended" /\ UNCHANGED found
         ELSE /\ header' = [header EXCEPT !.key = String(key), !.value = String(value),
                                          !.needle = Find(e, Positions \ LineEnds)]
              /\ found' = Append(found, [key |-> String(key), value |-> String(value)])
              /\ UNCHANGED at
  /\ UNCHANGED <<request, text, resets>>

HeaderReset ==
  /\ at # "received" /\ resets < Resets
  /\ header' = [header EXCEPT !.needle = header.start]
  /\ at' = "parsed"
  /\ found' = << >>
  /\ resets' = resets + 1
  /\ UNCHANGED <<request, text>>

Next == HeaderInit \/ HeaderNext \/ HeaderReset

Spec == Init /\ [][Next]_vars

--------------------------------------------------------------------------------
Word(i) == IF i <= Len(header.words) THEN String(header.words[i]) ELSE << >>

(* The route of g_handleSocket: the default for every other path.            *)
Route == IF Word(2) = About THEN "about" ELSE "default"

(* Each string and the needle lie within what was read.                      *)
TypeOK ==
  /\ at \in {"received", "parsed", "ended"}
  /\ header.start \in 0 .. Size - 1 /\ header.needle \in 0 .. Size
  /\ Len(header.words) <= 3
  /\ \A i \in DOMAIN header.words :
       header.words[i].start >= 0 /\ header.words[i].start + header.words[i].size <= Size
  /\ Len(header.key) < Size /\ Len(header.value) < Size
  /\ resets \in 0 .. Resets

(* The words of a line, defined by their boundaries.                         *)
Solid(line, i)  == i \in DOMAIN line /\ ~IsSpacing(line[i])
Starts(line)    == {i \in DOMAIN line : Solid(line, i) /\ ~Solid(line, i - 1)}
WordFrom(line, i) ==
  LET end == CHOOSE j \in DOMAIN line :
        j >= i /\ ~Solid(line, j + 1) /\ \A k \in i .. j : Solid(line, k)
  IN  SubSeq(line, i, end)
Words(line) ==
  [n \in 1 .. Cardinality(Starts(line)) |->
     WordFrom(line, CHOOSE i \in Starts(line) : Cardinality({j \in Starts(line) : j <= i}) = n)]

Parsed == at # "received"

(* A request that was cut off anywhere: method, path and protocol are those  *)
(* of the request or empty, never shortened, so that it is not answered with *)
(* the page of another path.                                                *)
WordsWhole ==
  Parsed => LET full == Words(request.line) IN
            /\ \A i \in 1 .. 3 : Word(i) # << >> => i <= Len(full) /\ Word(i) = full[i]
            /\ Len(text) > Len(request.line) =>
                 \A i \in 1 .. 3 : i <= Len(full) => Word(i) = full[i]
            /\ Route = "about" => Len(full) >= 2 /\ full[2] = About

Expected ==
  [i \in DOMAIN request.fields |->
     [key |-> request.fields[i].key, value |-> request.fields[i].value]]

(* What a client has sent when field n is complete.                          *)
UpTo(n) == request.line \o request.eol \o FieldLines(request)[n]

(* With lines that end in CR LF and a first line of at most three words the  *)
(* fields are found in order, each with its whole value; of a request that   *)
(* was cut off those that are there completely; after a reset the same.      *)
FieldsFound ==
  request.eol = <<"CR", "LF">> /\ Len(Words(request.line)) <= 3 =>
    /\ Len(found) <= Len(Expected)
    /\ \A i \in DOMAIN found : found[i] = Expected[i]
    /\ at = "ended" => \A n \in DOMAIN Expected :
         Len(text) > Len(UpTo(n)) - Len(request.eol) => Len(found) >= n
================================================================================
