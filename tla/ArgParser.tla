------------------------------- MODULE ArgParser -------------------------------
(***************************************************************************)
(* arg_nextOpt of base.c, called by main until it returns arg_end, on a    *)
(* command line.  Arguments, names and values are sequences of characters; *)
(* an option is known by its number.                                       *)
(*                                                                         *)
(* Numbers are short enough not to reach the limits of their types.        *)
(***************************************************************************)
EXTENDS Integers, Sequences

CONSTANTS
  Options,   \* name, short, type, flags and default of each option
  Program,   \* the first argument
  Argument,  \* the arguments that occur behind it
  MaxArgs    \* bound on their number

Numbers == DOMAIN Options

VARIABLES
  args,     \* inputOpts
  nextIdx,
  seen,     \* redArgsBitField: the options whose bit is set
  chosen,   \* what main keeps for each option
  results,  \* history: what arg_nextOpt returned
  at        \* "reading" or "ended"

vars == <<args, nextIdx, seen, chosen, results, at>>

Digits == {"0", "1"}

Init ==
  /\ \E n \in 0 .. MaxArgs : \E given \in [1 .. n -> Argument] : args = <<Program>> \o given
  /\ nextIdx = 1
  /\ seen = {}
  /\ chosen = [o \in Numbers |-> Options[o].default]
  /\ results = << >>
  /\ at = "reading"

--------------------------------------------------------------------------------
(* The key of an argument that starts with "-" or "--", the others are       *)
(* skipped, as are "-" and "--" by themselves.                               *)
IsDashed(arg) == arg # << >> /\ arg[1] = "-"
IsLong(arg)   == IsDashed(arg) /\ Len(arg) > 1 /\ arg[2] = "-"
IsOption(arg) == IsDashed(arg) /\ Len(arg) > (IF IsLong(arg) THEN 2 ELSE 1)

Names(arg, o) ==
  /\ IsOption(arg)
  /\ IF IsLong(arg) THEN arg = <<"-", "-">> \o Options[o].name
                    ELSE arg = <<"-", Options[o].short>>

(* Mutant: whatever follows is the value.                                    *)
IsValue_Any(i) == i <= Len(args)

(* The argument behind an option is its value unless it starts with "-".     *)
IsValue(i) == i <= Len(args) /\ ~IsDashed(args[i])

(* The option of the loop over opts: the first of that name.                 *)
IsNamed(i)  == \E o \in Numbers : Names(args[i], o)
OptionAt(i) ==
  CHOOSE o \in Numbers : Names(args[i], o) /\ \A p \in 1 .. o - 1 : ~Names(args[i], p)

(* A turn of the loop over the arguments, which has found nothing yet and is *)
(* at argument s.next.  An unknown option takes the value behind it along.   *)
Turn(s) ==
  LET i     == s.next
      value == IF IsValue(i + 1) THEN args[i + 1] ELSE << >>
      next  == IF IsValue(i + 1) THEN i + 2 ELSE i + 1
  IN  IF s.found # {} \/ i > Len(args) THEN s
      ELSE IF ~IsOption(args[i]) THEN [s EXCEPT !.next = i + 1]
      ELSE IF ~IsNamed(i) THEN [s EXCEPT !.next = next]
      ELSE [next |-> next, found |-> {OptionAt(i)}, value |-> value]

(* What the loop has come to after n turns; as many as arguments are enough. *)
Turns[n \in 0 .. Len(args)] ==
  IF n = 0 THEN [next |-> nextIdx, found |-> {}, value |-> << >>] ELSE Turn(Turns[n - 1])

Search == Turns[Len(args)]

(* Where str_parseU32N and str_parseS64N stop: the latter never looks at the *)
(* first character.                                                         *)
StopFrom(i, value) ==
  CHOOSE n \in 0 .. Len(value) :
    /\ n >= i \/ n = Len(value)
    /\ n = Len(value) \/ value[n + 1] \notin Digits
    /\ \A k \in i .. n - 1 : value[k + 1] \in Digits

U32End(value) == StopFrom(0, value)
S64End(value) == StopFrom(1, value)

F32End(value) ==
  LET n == S64End(value)
      fraction == SubSeq(value, n + 2, Len(value))
      m == S64End(fraction)
  IN  IF /\ n > 0 /\ Len(value) > n + 2 /\ value[n + 2] = "."
         /\ \E k \in 2 .. m : fraction[k] # "0"
      THEN n + m ELSE n

(* The value of a number is accepted if parsing stops at its last character. *)
Accepts(type, value) ==
  CASE type = "string" -> TRUE
    [] type = "i32"    -> S64End(value) = Len(value) - 1
    [] type = "flags"  -> U32End(value) = Len(value) - 1
    [] type = "f32"    -> F32End(value) = Len(value) - 1

(* The first of the errors, in the order of the tests.                       *)
Outcome(o, value) ==
  IF o \in seen /\ "duplicatesAllowed" \notin Options[o].flags THEN "duplicate"
  ELSE IF "requiredValue" \in Options[o].flags /\ value = << >> THEN "missingValue"
  ELSE IF ~Accepts(Options[o].type, value) THEN "invalidValue"
  ELSE "option"

Result(o, outcome, value) ==
  [option |-> o, outcome |-> outcome,
   value |-> IF value = << >> THEN Options[o].default ELSE value]

(* main keeps the value of an option that is reported without an error.      *)
Keep(r) == IF r.outcome = "option" THEN [chosen EXCEPT ![r.option] = r.value] ELSE chosen

FindOption ==
  /\ at = "reading"
  /\ LET s == Search IN
     \E o \in s.found :
       LET r == Result(o, Outcome(o, s.value), s.value) IN
       /\ results' = Append(results, r)
       /\ chosen' = Keep(r)
       /\ seen' = seen \cup {o}
       /\ nextIdx' = s.next
  /\ UNCHANGED <<args, at>>

(* The search for missing arguments looks at the first option, whose bit it  *)
(* computes as 0 << 1, the empty mask; then its index wraps around and it is *)
(* over.                                                                    *)
Mask == {}
MissingArg == Options # << >> /\ "required" \in Options[1].flags /\ ~(Mask \subseteq seen)

End ==
  /\ at = "reading"
  /\ LET s == Search IN s.found = {} /\ nextIdx' = s.next
  /\ IF MissingArg
     THEN /\ results' = Append(results, Result(1, "missingArg", << >>))
          /\ UNCHANGED at
     ELSE at' = "ended" /\ UNCHANGED results
  /\ UNCHANGED <<args, seen, chosen>>

Next == FindOption \/ End

Spec == Init /\ [][Next]_vars

--------------------------------------------------------------------------------
(* Every variable stays in its type; the index never passes the end, and no  *)
(* more is reported than there are arguments and, at the most, options to    *)
(* miss: the loop of main ends.                                             *)
TypeOK ==
  /\ nextIdx \in 1 .. Len(args) + 1
  /\ seen \subseteq Numbers
  /\ at \in {"reading", "ended"}
  /\ Len(results) <= Len(args) + Len(Options)

(* The arguments that name an option, in order, and what stands behind them. *)
NamedTo[n \in 0 .. Len(args)] ==
  IF n = 0 THEN << >>
  ELSE IF IsNamed(n) THEN Append(NamedTo[n - 1], n) ELSE NamedTo[n - 1]
Named      == NamedTo[Len(args)]
ValueAt(i) == IF i = Len(args) \/ IsDashed(args[i + 1]) THEN << >> ELSE args[i + 1]

Repeated(i) == \E j \in 1 .. i - 1 : IsNamed(j) /\ OptionAt(j) = OptionAt(i)

(* What may be reported for argument i, which names an option: that option,  *)
(* with its value or else the default, and an error if the option was named  *)
(* before or lacks its value.  Which texts are numbers is left open.         *)
Errors(i) ==
  LET flags == Options[OptionAt(i)].flags IN
  {e \in {"duplicate", "missingValue"} :
     IF e = "duplicate" THEN Repeated(i) /\ "duplicatesAllowed" \notin flags
                        ELSE "requiredValue" \in flags /\ ValueAt(i) = << >>}

Reports(r, i) ==
  LET o == Options[OptionAt(i)] IN
  /\ r.option = OptionAt(i)
  /\ r.value = IF ValueAt(i) = << >> THEN o.default ELSE ValueAt(i)
  /\ r.outcome \in IF Errors(i) # {} THEN Errors(i)
                   ELSE IF o.type = "string" THEN {"option"}
                   ELSE {"option", "invalidValue"}

(* Only a required option that the command line does not name is missing.    *)
ReportsMissing(r) ==
  /\ r.outcome = "missingArg"
  /\ "required" \in Options[r.option].flags
  /\ \A i \in DOMAIN args : IsNamed(i) => OptionAt(i) # r.option

(* Whatever stands between them, and whether or not values are missing: the  *)
(* options are reported one by one, in the order of the command line, each   *)
(* with its own value and the errors it has, none is passed over, and what   *)
(* is reported behind them can only be a required option that is missing.    *)
ReportsAll ==
  /\ \A k \in DOMAIN results :
       IF k <= Len(Named) THEN Reports(results[k], Named[k]) ELSE ReportsMissing(results[k])
  /\ at = "ended" => Len(results) >= Len(Named)

(* main keeps for an option without duplicates what its first mention says,  *)
(* even if later mentions differ, and the default if that has no value.      *)
FirstWins ==
  at = "ended" => \A o \in Numbers :
    "duplicatesAllowed" \notin Options[o].flags /\ Options[o].type = "string" =>
      LET Mentions == {i \in DOMAIN args : IsNamed(i) /\ OptionAt(i) = o}
          first    == CHOOSE i \in Mentions : \A j \in Mentions : i <= j
      IN  chosen[o] = IF Mentions = {} \/ ValueAt(first) = << >> THEN Options[o].default
                      ELSE ValueAt(first)
================================================================================
