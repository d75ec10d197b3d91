---------------------------- MODULE MCSkbEngine -----------------------------
(* Names "a" and "A" are one name in two spellings; "b" has the hash of "a" *)
(* and "c" another.  An index may hold several files of a name or none.     *)
EXTENDS SkbEngine

MCName == {"a", "A", "b", "c"}
MCFold == [n \in MCName |-> IF n = "A" THEN "a" ELSE n]
MCNorm == MCFold
MCHash == [n \in MCName |-> IF n = "c" THEN 3 ELSE 2]
MCIndexes == {<<"a", "b", "A">>, <<"b", "c">>}

(* A Greek name with a final sigma: "S" its capitals, "s" what              *)
(* String::to_lowercase makes of it, "x" the character-wise lower case.     *)
SigmaName == {"S", "s", "x"}
SigmaFold == [n \in SigmaName |-> IF n = "S" THEN "x" ELSE n]
SigmaNorm == [n \in SigmaName |-> IF n = "S" THEN "s" ELSE n]
SigmaHash == [n \in SigmaName |-> IF n = "s" THEN 2 ELSE 1]
SigmaIndexes == {<<"S">>}
=============================================================================
