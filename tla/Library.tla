-------------------------------- MODULE Library --------------------------------
(***************************************************************************)
(* The sequential parts of the library side by side: a behaviour is one    *)
(* use of one part, and the variables of the others are unused.            *)
(***************************************************************************)
EXTENDS DenseTime, Sequences

(* The constants of HtmlBuilder, HttpHeader, ArgParser, UrlParser, FilePath. *)
CONSTANTS
  Header, Cap, Page, Align, Tags, MaxAttrs,
  Lines, Eols, Fields, About, Resets,
  Options, Program, Argument, MaxArgs,
  Given, Ports, Width,
  Characters, MaxPath, MaxRounds

VARIABLES
  part,  \* the part in use: "page", "request", "arguments", "url", "path" or "time"
  pageAt, arena, memory, builder, body, page, written, left,
  requestAt, request, text, header, found, resets,
  argsAt, args, nextIdx, seen, chosen, results,
  urlAt, given, rest, out,
  pathAt, path, fixed, rounds, result

pageVars    == <<pageAt, arena, memory, builder, body, page, written, left>>
requestVars == <<requestAt, request, text, header, found, resets>>
argsVars    == <<argsAt, args, nextIdx, seen, chosen, results>>
urlVars     == <<urlAt, given, rest, out>>
pathVars    == <<pathAt, path, fixed, rounds, result>>

Pages     == INSTANCE HtmlBuilder WITH at <- pageAt
Requests  == INSTANCE HttpHeader WITH at <- requestAt
Arguments == INSTANCE ArgParser WITH at <- argsAt
Urls      == INSTANCE UrlParser WITH at <- urlAt
Paths     == INSTANCE FilePath WITH at <- pathAt

(* The arena of a page has room for its header.                              *)
ASSUME PageAssumption ==
  /\ Header \in Nat /\ Cap \in Nat /\ Header <= Cap /\ Page \in Nat \ {0}
  /\ MaxAttrs \in Nat

(* Parts of URLs are texts, and no URL is as long as the largest number.     *)
ASSUME UrlAssumption ==
  /\ Width \in Nat
  /\ \A g \in Given :
       /\ \A p \in {"scheme", "user", "pass", "host", "port", "path", "query", "fragment"} :
            g[p] \in Seq(STRING)
       /\ Len(Urls!Format(g)) < Width

(* The options are listed in a table; arguments are texts.                   *)
ASSUME ArgumentAssumption ==
  /\ Options \in Seq([name : Seq(STRING), short : STRING, default : Seq(STRING),
                      type : {"string", "i32", "flags", "f32"}, flags : SUBSET STRING])
  /\ Program \in Seq(STRING) /\ Argument \subseteq Seq(STRING)
  /\ MaxArgs \in Nat

ASSUME PathAssumption == MaxPath \in Nat

(* Lines hold no end of line, keys no separator; the spaces before a value   *)
(* are its gap; the path "/about" is not empty.                              *)
ASSUME RequestAssumption ==
  /\ Lines \subseteq {l \in Seq(STRING) : \A i \in DOMAIN l : l[i] \notin {"CR", "LF"}}
  /\ Eols \subseteq {<<"CR", "LF">>, <<"LF">>}
  /\ Fields \subseteq Seq([key : Seq(STRING), gap : Seq({" "}), value : Seq(STRING)])
  /\ \A fields \in Fields : \A n \in DOMAIN fields :
       LET f == fields[n]
       IN  /\ \A i \in DOMAIN f.key : f.key[i] \notin {" ", ":", "CR", "LF"}
           /\ \A i \in DOMAIN f.value : f.value[i] \notin {"CR", "LF"}
           /\ f.value = << >> \/ f.value[1] # " "
  /\ About # << >> /\ Resets \in Nat

--------------------------------------------------------------------------------
Unused == "unused"

PageUnused ==
  /\ pageAt = Unused /\ arena = Unused /\ memory = Unused /\ builder = Unused
  /\ body = Unused /\ page = Unused /\ written = Unused /\ left = Unused
RequestUnused ==
  /\ requestAt = Unused /\ request = Unused /\ text = Unused
  /\ header = Unused /\ found = Unused /\ resets = Unused
ArgsUnused ==
  /\ argsAt = Unused /\ args = Unused /\ nextIdx = Unused
  /\ seen = Unused /\ chosen = Unused /\ results = Unused
UrlUnused  == urlAt = Unused /\ given = Unused /\ rest = Unused /\ out = Unused
PathUnused ==
  /\ pathAt = Unused /\ path = Unused /\ fixed = Unused
  /\ rounds = Unused /\ result = Unused
TimeUnused ==
  /\ at = Unused /\ date = Unused /\ dense = Unused /\ back = Unused /\ origin = Unused

LibraryInit ==
  /\ part \in {"page", "request", "arguments", "url", "path", "time"}
  /\ IF part = "page" THEN Pages!Init ELSE PageUnused
  /\ IF part = "request" THEN Requests!Init ELSE RequestUnused
  /\ IF part = "arguments" THEN Arguments!Init ELSE ArgsUnused
  /\ IF part = "url" THEN Urls!Init ELSE UrlUnused
  /\ IF part = "path" THEN Paths!Init ELSE PathUnused
  /\ IF part = "time" THEN Init ELSE TimeUnused

LibraryNext ==
  /\ \/ /\ part = "page" /\ Pages!Next
        /\ UNCHANGED <<requestVars, argsVars, urlVars, pathVars, vars>>
     \/ /\ part = "request" /\ Requests!Next
        /\ UNCHANGED <<pageVars, argsVars, urlVars, pathVars, vars>>
     \/ /\ part = "arguments" /\ Arguments!Next
        /\ UNCHANGED <<pageVars, requestVars, urlVars, pathVars, vars>>
     \/ /\ part = "url" /\ Urls!Next
        /\ UNCHANGED <<pageVars, requestVars, argsVars, pathVars, vars>>
     \/ /\ part = "path" /\ Paths!Next
        /\ UNCHANGED <<pageVars, requestVars, argsVars, urlVars, vars>>
     \/ /\ part = "time" /\ Next
        /\ UNCHANGED <<pageVars, requestVars, argsVars, urlVars, pathVars>>
  /\ UNCHANGED part

LibrarySpec ==
  LibraryInit /\ [][LibraryNext]_<<part, pageVars, requestVars, argsVars, urlVars, pathVars, vars>>

--------------------------------------------------------------------------------
(* What each part does, see the modules: a page is handed out whole and       *)
(* nested, or not at all if a block was left early;                          *)
PageIsWhole ==
  part = "page" => Pages!TypeOK /\ Pages!PageIsWhole /\ Pages!EmptyIfLeft

(* wherever a request is cut off, the words of its first line and its fields  *)
(* are whole or absent;                                                      *)
RequestIsWhole ==
  part = "request" => Requests!TypeOK /\ Requests!WordsWhole /\ Requests!FieldsFound

(* arguments are reported one by one with their own values, and main keeps    *)
(* the first of several;                                                     *)
OptionsReported ==
  part = "arguments" => Arguments!TypeOK /\ Arguments!ReportsAll /\ Arguments!FirstWins

(* the parts of a URL lie within it, and are the right ones if all are there; *)
UrlTakenApart == part = "url" => Urls!InBounds /\ Urls!HostPortFound

(* replacing in a path fills what was allocated for it with the right text,   *)
(* and a simple path is returned only if it was fixed as intended.           *)
PathFixed ==
  part = "path" => Paths!SlashesReplaced /\ Paths!DotsTakenOut /\ Paths!SimpleFixed
================================================================================
