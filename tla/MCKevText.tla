------------------------------ MODULE MCKevText ------------------------------
(* Descriptions of up to three pieces, some of them the sentences of the facts or markup. *)
EXTENDS KevText

MCPiece == {"w", " ", ".", "~", "R", "D1", "D2", "<", ">"}
MCPieces == {<<>>, <<"w">>, <<" ">>, <<"R">>, <<"D1">>, <<".">>, <<"w", "w", "w">>,
             <<"<">>, <<"<", "w", ">">>}
MCDescriptions == {a \o b \o c : a \in MCPieces, b \in MCPieces, c \in MCPieces}
=============================================================================
