------------------------------ MODULE MCSyntax ------------------------------
(* Programs in which every rule of the grammar is used, and what becomes of  *)
(* them when one token is lost, doubled or followed by one too many.         *)
EXTENDS Syntax

Declared   == <<"int", "x", ";", "float", "y", "[", "007", "]", ";", "void", "x", ";",
                "void", "f", "(", "void", ")", "{", "return", ";", "}">>
Parameters == <<"int", "f", "(", "int", "x", ",", "float", "y", "[", "]", ",", "void", "x", ")",
                "{", "int", "x", ";", "float", "y", "[", "0", "]", ";", "}">>
Assigned   == <<"float", "f", "(", "void", ")", "{", "x", "=", "y", "[", "x", "=", "0", "]", "=",
                "f", "(", "x", ",", "1.50", ",", "y", ")", ";", "return", "f", "(", ")", ";", "}">>
Nested     == <<"void", "f", "(", "void", ")", "{", "if", "(", "x", ")", "while", "(", "y", ")",
                "if", "(", "0", ")", ";", "else", "{", "}", "else", "y", ";", "}">>
Grouping   == <<"int", "f", "(", "void", ")", "{", "x", "-", "(", "y", "-", "x", ")", "*", "0", "/",
                "y", "-", "007", "<", "x", "+", "y", ";", "}">>
Compared   == <<"int", "f", "(", "void", ")", "{", "(", "x", "<=", "y", ")", ">", "(", "x", ">=", "y", ")",
                ";", "x", "==", "y", ";", "x", "!=", "y", ";", "}">>
TooLarge   == <<"int", "y", "[", "2147483648", "]", ";">>

Programs == {Declared, Parameters, Assigned, Nested, Grouping, Compared, TooLarge}

Damaged(t) == {RemoveAt(t, i) : i \in DOMAIN t} \cup {InsertAt(t, i, t[i]) : i \in DOMAIN t}
              \cup {Append(t, ";"), Append(t, "}")}

MCTexts       == Programs \cup UNION {Damaged(t) : t \in Programs}
MCIdentifiers == {"x", "y", "f"}
MCIntegers    == {"0", "007", "2147483648"}
MCFloats      == {"1.50"}
MCNumber      == "0" :> "0" @@ "007" :> "7" @@ "2147483648" :> "out of range" @@ "1.50" :> "1.5"
=============================================================================
