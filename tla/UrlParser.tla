------------------------------- MODULE UrlParser -------------------------------
(***************************************************************************)
(* url_fromStr of base.c: five functions, each of which takes the next     *)
(* part off the URL or reports an error.  A string is a piece of the URL,  *)
(* a start and a size, as in the code; sizes are unsigned, and the code    *)
(* computes some of them from a search that found nothing, which is -1.    *)
(***************************************************************************)
EXTENDS Integers, Sequences

CONSTANTS
  Given,  \* the parts of the URLs; a part that is not there is empty
  Ports,  \* the default ports of the code, by scheme, in its order
  Width   \* unsigned numbers are less than this

VARIABLES
  given,  \* the parts the URL was put together from
  rest,   \* url: what is not parsed yet
  out,    \* the parts found
  at      \* the function that is next

vars == <<given, rest, out, at>>

(* <scheme>://<user>:<pass>@<host>:<port>/<path>?<query>#<fragment>           *)
Pre(sep, part)  == IF part = << >> THEN << >> ELSE sep \o part
Post(part, sep) == IF part = << >> THEN << >> ELSE part \o sep
Format(g) ==
  Post(g.scheme, <<":", "/", "/">>)
    \o Post(g.user \o Pre(<<":">>, g.pass), <<"@">>)
    \o g.host \o Pre(<<":">>, g.port) \o g.path
    \o Pre(<<"?">>, g.query) \o Pre(<<"#">>, g.fragment)

url  == Format(given)
Null == [start |-> 0, size |-> 0]
All  == [start |-> 0, size |-> Len(url)]
Text(s) == SubSeq(url, s.start + 1, s.start + s.size)

--------------------------------------------------------------------------------
Unsigned(n) == IF n < 0 THEN Width + n ELSE n
Least(a, b) == IF a < b THEN a ELSE b

(* str_findChar.                                                            *)
FindChar(s, c) ==
  LET At == {i \in 0 .. s.size - 1 : url[s.start + i + 1] = c}
  IN  IF At = {} THEN -1 ELSE CHOOSE i \in At : \A j \in At : i <= j

(* str_subStr.                                                              *)
SubStr(s, start, size) ==
  IF s.size = 0 THEN s
  ELSE IF s.size <= Unsigned(start) THEN Null
  ELSE [start |-> s.start + start, size |-> Least(s.size - start, Unsigned(size))]

(* str_from.                                                                *)
From(s, start) ==
  IF start >= s.size THEN Null ELSE [start |-> s.start + start, size |-> s.size - start]

HasPrefix(s, p) == s.size >= Len(p) /\ SubSeq(Text(s), 1, Len(p)) = p

(* url__defaultPortForScheme compares the result of str_isEqual with 0.      *)
DefaultPort(scheme) ==
  IF scheme.size = 0 THEN << >>
  ELSE Ports[CHOOSE k \in DOMAIN Ports :
         /\ Text(scheme) # Ports[k].scheme
         /\ \A j \in 1 .. k - 1 : Text(scheme) = Ports[j].scheme].port

Init ==
  /\ given \in Given
  /\ rest = All
  /\ out = [error |-> "ok", scheme |-> Null, user |-> Null, pass |-> Null, host |-> Null,
            port |-> << >>, path |-> Null, query |-> Null, fragment |-> Null]
  /\ at = "scheme"

(* What each function ends with: the parts, what is left, and the next.  A    *)
(* host or path that stays empty is "localhost" or "/" at the end.           *)
Give(o, r, next) ==
  /\ out' = o /\ rest' = r
  /\ at' = IF o.error = "ok" THEN next ELSE "done"
  /\ UNCHANGED given

ParseScheme ==
  /\ at = "scheme"
  /\ LET start == FindChar(rest, ":")
         sep   == From(rest, start + 1)
         o     == [out EXCEPT !.scheme = SubStr(rest, 0, start)]
     IN  IF start < 0 THEN Give(out, rest, "user")
         ELSE IF ~HasPrefix(sep, <<"/", "/">>) \/ o.scheme.size = 0
              THEN Give([out EXCEPT !.error = "scheme"], Null, "user")
         ELSE Give(o, From(sep, 2), "user")

(* The position of the "@" is looked for in an empty string: it is -1.       *)
ParseUserPass ==
  /\ at = "user"
  /\ LET start   == FindChar(rest, "@")
         atpos   == FindChar(SubStr(rest, start, 0), "@")
         passsep == FindChar(SubStr(rest, 0, atpos), ":")
         o == IF passsep < 0 THEN [out EXCEPT !.user = SubStr(rest, 0, atpos)]
              ELSE [out EXCEPT !.user = SubStr(rest, 0, passsep),
                               !.pass = SubStr(rest, passsep + 1, atpos - passsep - 1)]
     IN  IF start < 0 THEN Give(out, rest, "host")
         ELSE IF o.user.size = 0 \/ o.pass.size = 0
              THEN Give([o EXCEPT !.error = "userOrPass"], Null, "host")
         ELSE Give(o, SubStr(rest, atpos + 1, 0), "host")

(* The host is as long as the distance from the path to the end of the URL,  *)
(* which is negative, or up to a path that is not there, or up to the port.  *)
HostLen(portsep, pathsep) ==
  IF portsep < 0 THEN IF pathsep = 0 THEN rest.size ELSE Unsigned(pathsep - rest.size)
  ELSE IF pathsep # 0 /\ portsep # 0 /\ pathsep < portsep THEN Unsigned(pathsep)
  ELSE portsep

(* Mutant: the port begins with its colon.                                   *)
Port_WithColon(portsep, pathsep) ==
  IF portsep < 0 \/ (pathsep # 0 /\ portsep # 0 /\ pathsep < portsep)
  THEN DefaultPort(out.scheme)
  ELSE Text(SubStr(rest, portsep, pathsep - portsep))

(* The text str_parseU32 is applied to.                                      *)
Port(portsep, pathsep) ==
  IF portsep < 0 \/ (pathsep # 0 /\ portsep # 0 /\ pathsep < portsep)
  THEN DefaultPort(out.scheme)
  ELSE Text(SubStr(rest, portsep + 1, pathsep - portsep - 1))

(* The end of the path is looked for in an empty string: it is the end.      *)
ParseHostPort ==
  /\ at = "host"
  /\ LET portsep == FindChar(rest, ":")
         pathsep == FindChar(rest, "/")
         hostlen == HostLen(portsep, pathsep)
         o == [out EXCEPT !.port = Port(portsep, pathsep),
                          !.host = IF hostlen > 0 THEN SubStr(rest, 0, hostlen) ELSE @]
     IN  IF (hostlen > 0 /\ o.host.size = 0) \/ pathsep < 0 THEN Give(o, Null, "query")
         ELSE Give([o EXCEPT !.path = SubStr(rest, pathsep, rest.size)],
                   From(rest, rest.size), "query")

(* A query is always an error: the fragment is not parsed yet.               *)
ParseQuery ==
  /\ at = "query"
  /\ IF HasPrefix(rest, <<"?">>) THEN Give([out EXCEPT !.error = "query"], Null, "fragment")
     ELSE Give(out, rest, "fragment")

ParseFragment ==
  /\ at = "fragment"
  /\ IF HasPrefix(rest, <<"#">>) THEN Give([out EXCEPT !.error = "fragment"], rest, "done")
     ELSE Give(out, rest, "done")

Next == ParseScheme \/ ParseUserPass \/ ParseHostPort \/ ParseQuery \/ ParseFragment

Spec == Init /\ [][Next]_vars

--------------------------------------------------------------------------------
Parts == {"scheme", "user", "pass", "host", "path", "query", "fragment"}

(* Each part lies within the URL, although its size may be computed from a   *)
(* search without result and wrap around.                                   *)
InBounds ==
  /\ \A p \in Parts : out[p].start \in 0 .. Len(url) /\ out[p].size \in 0 .. Len(url) - out[p].start
  /\ rest.start + rest.size <= Len(url)

Found(p)   == Text(out[p])
Only(ps)   == \A p \in Parts \cup {"port"} : given[p] # << >> <=> p \in ps
PartsAre(ps) ==
  /\ out.error = "ok"
  /\ \A p \in ps : IF p = "port" THEN out.port = given.port ELSE Found(p) = given[p]

(* The characters that separate parts are in none of them, but that a path   *)
(* begins with "/" and may have more of them, and ":".                       *)
Without(s, c) == \A i \in DOMAIN s : s[i] # c
Separable(g) ==
  /\ \A p \in {"scheme", "host", "port"} : \A c \in {":", "/", "@"} : Without(g[p], c)
  /\ g.path # << >> => g.path[1] = "/"
  /\ Without(g.path, "@")

(* With a port and a path and without user, query and fragment the parts     *)
(* found are those of the URL.                                              *)
HostPortFound ==
  LET ps == {"scheme", "host", "port", "path"}
  IN  at = "done" /\ Only(ps) /\ Separable(given) => PartsAre(ps)
================================================================================
