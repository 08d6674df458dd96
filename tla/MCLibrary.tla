------------------------------- MODULE MCLibrary -------------------------------
(***************************************************************************)
(* The vocabularies for the run of Library: pages of up to twelve letters  *)
(* with two tags and an attribute each, paths of up to seven characters,   *)
(* and those below.                                                        *)
(***************************************************************************)
EXTENDS Library, SequencesExt

(* First lines of up to four words, with single or double gaps; up to two    *)
(* fields; one reset.                                                       *)
MCWords == {<<"G">>, <<"/">>, <<"/", "a">>}
MCLine(words, lead, gap, tail) ==
  lead \o (IF words = << >> THEN << >>
           ELSE FoldLeft(LAMBDA l, w : l \o gap \o w, Head(words), Tail(words))) \o tail
MCLines ==
  {MCLine(ws, lead, gap, tail) :
     ws \in {<< >>, << <<"G">> >>}
              \cup {<< <<"G">>, w>> : w \in MCWords}
              \cup {<< <<"G">>, w, <<"/">> >> : w \in MCWords}
              \cup {<< <<"G">>, w, <<"/">>, <<"a">> >> : w \in MCWords},
     lead \in {<< >>, <<" ">>}, gap \in {<<" ">>, <<" ", " ">>}, tail \in {<< >>, <<" ">>}}
MCEols == {<<"CR", "LF">>, <<"LF">>}
MCField == [key : {<<"k">>, <<"k", "k">>}, gap : {<< >>, <<" ">>},
            value : {<< >>, <<"v", ":">>}]
MCFields ==
  {<< >>} \cup {<<f>> : f \in MCField}
    \cup {<<f, [key |-> <<"h">>, gap |-> <<" ">>, value |-> <<"v", " ">>]>> : f \in MCField}
MCAbout == <<"/", "a">>

(* An option as main has them and one of each other type; up to four         *)
(* arguments behind the name of the program.                                *)
MCOption(name, short, type, flags, default) ==
  [name |-> name, short |-> short, type |-> type, flags |-> flags, default |-> default]
MCOptions ==
  <<MCOption(<<"c", "e">>, "c", "string", {"required", "requiredValue"}, <<"d">>),
    MCOption(<<"n", "u">>, "n", "flags", {"duplicatesAllowed"}, <<"0">>),
    MCOption(<<"f", "l">>, "f", "f32", {"requiredValue"}, <<"0">>),
    MCOption(<<"i", "n">>, "i", "i32", {}, <<"0">>)>>
MCProgram == <<"v">>
MCArgument ==
  {<<"-", "-", "c", "e">>, <<"-", "c">>, <<"-", "n">>, <<"-", "f">>, <<"-", "i">>,
   <<"-", "-">>, <<"-">>, <<"-", "x">>, << >>, <<"v">>, <<"1", "x">>, <<"1", "x", ".", "1">>}

(* URLs put together from their parts, and any text of up to five characters. *)
MCPorts ==
  <<[scheme |-> <<"h", "t">>, port |-> <<"8", "0">>],
    [scheme |-> <<"h", "t", "s">>, port |-> <<"4", "4">>],
    [scheme |-> <<"f">>, port |-> <<"2", "1">>]>>
Optional(piece) == {<< >>, piece}
MCUrls ==
  [scheme : {<<"h", "t">>, <<"h", "t", "s">>, <<"f">>, <<"x">>}, user : {<< >>},
   pass : {<< >>}, host : {<<"w">>, <<"w", "w">>}, port : {<< >>, <<"9">>, <<"9", "1">>},
   path : {<< >>, <<"/">>, <<"/", "p">>, <<"/", "p", "/", "q">>},
   query : Optional(<<"k">>), fragment : Optional(<<"z">>)]
  \cup
  [scheme : {<<"h", "t">>}, user : Optional(<<"u">>), pass : Optional(<<"s">>),
   host : {<<"w">>}, port : Optional(<<"9">>), path : Optional(<<"/", "p">>),
   query : {<< >>}, fragment : {<< >>}]
MCTexts ==
  [scheme : {<< >>}, user : {<< >>}, pass : {<< >>},
   host : UNION {[1 .. n -> {"a", ":", "/", "@", "?", "#"}] : n \in 0 .. 5},
   port : {<< >>}, path : {<< >>}, query : {<< >>}, fragment : {<< >>}]
MCGiven == MCUrls \cup MCTexts

MCCharacters == {"/", "\\", ".", "a"}
================================================================================
