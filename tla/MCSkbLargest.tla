---------------------------- MODULE MCSkbLargest ----------------------------
(* Six files, three of them of one size, in four directories, a link to one *)
(* of these and a device; the sizes together exceed what a total can hold.  *)
EXTENDS SkbLargest

MCNode == {"root", "a", "b", "c", "link", "dev", "f1", "f2", "f3", "f4", "f5", "f6"}
MCKind == [x \in MCNode |->
  CASE x \in {"root", "a", "b", "c"} -> "dir"
    [] x = "link" -> "symlink"
    [] x = "dev" -> "other"
    [] OTHER -> "file"]
MCChildren == [x \in MCNode |->
  CASE x = "root" -> {"f1", "f2", "a", "b", "link"}
    [] x \in {"a", "link"} -> {"f3", "dev"}
    [] x = "b" -> {"f4", "f5", "c"}
    [] x = "c" -> {"f6"}
    [] OTHER -> {}]
MCSize == [x \in {"f1", "f2", "f3", "f4", "f5", "f6"} |->
  CASE x = "f1" -> 4
    [] x \in {"f2", "f3", "f6"} -> 2
    [] x = "f4" -> 0
    [] OTHER -> 3]
MCPath == [x \in {"f1", "f2", "f3", "f4", "f5", "f6"} |->
  CASE x = "f1" -> 5
    [] x = "f2" -> 6
    [] x = "f3" -> 1
    [] x = "f4" -> 2
    [] x = "f5" -> 3
    [] OTHER -> 4]
\* As texts, the six are in the opposite order.
MCText == [x \in {"f1", "f2", "f3", "f4", "f5", "f6"} |-> 7 - MCPath[x]]
=============================================================================
