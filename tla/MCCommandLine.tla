--------------------------- MODULE MCCommandLine ----------------------------
(***************************************************************************)
(* Instances of CommandLine for TLC: names and parts of names, arguments   *)
(* and options with and without a value, and the single characters that    *)
(* join them in every way.                                                 *)
(***************************************************************************)
EXTENDS CommandLine

MCPieces == { <<"c","a","l","c">>, <<"e">>, <<"x","i","t">>, <<"a">>, <<"-">>, <<" ">>,
              <<" ","3">>, <<" ","-","a","2">>, <<" ","-","m","-","4">>,
              <<" ","-","d","0">>, <<" ","-","M","3">>, <<" ","&">> }

MCChars  == UNION {ToSet(w) : w \in MCPieces \cup {commandes[n].text : n \in DOMAIN commandes}}
=============================================================================
