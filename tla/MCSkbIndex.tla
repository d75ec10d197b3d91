----------------------------- MODULE MCSkbIndex -----------------------------
(* A small index: eight hashes in two, four or eight buckets.  "a" and "A"  *)
(* are spellings of one name, "b" collides with them in the first bucket,   *)
(* "c" and "d" lie on the two sides of a bucket border and "e" has the last *)
(* hash of the last bucket.                                                 *)
EXTENDS SkbIndex

MCName == {"a", "A", "b", "c", "d", "e"}
MCFold == [n \in MCName |-> IF n = "A" THEN "a" ELSE n]
MCFilenameHash ==
  [n \in MCName |-> CASE n \in {"a", "A", "b"} -> 0
                      [] n = "c" -> 3
                      [] n = "d" -> 4
                      [] OTHER -> 7]
=============================================================================
