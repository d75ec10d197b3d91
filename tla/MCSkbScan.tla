----------------------------- MODULE MCSkbScan ------------------------------
(* A root with a file, two directories whose lossy texts coincide, one of   *)
(* them with a nested directory, a link into the other, a device node and a *)
(* last directory whose file has a long name.  What is left when some       *)
(* children cannot be read fits exactly, or is one too many for the limit   *)
(* of files, of directories, of the name pool or of the directory pool.     *)
EXTENDS SkbScan

MCNode == {"root", "a", "b", "c", "d", "link", "dev", "f1", "f2", "f3", "f4", "f5"}
MCKind == [x \in MCNode |->
  CASE x \in {"root", "a", "b", "c", "d"} -> "dir"
    [] x = "link" -> "symlink"
    [] x = "dev" -> "other"
    [] OTHER -> "file"]
MCChildren == [x \in MCNode |->
  CASE x = "root" -> {"f1", "a", "b", "d", "link"}
    [] x \in {"a", "link"} -> {"f2", "dev"}
    [] x = "b" -> {"f3", "c"}
    [] x = "c" -> {"f4"}
    [] x = "d" -> {"f5"}
    [] OTHER -> {}]
\* "a" and "b" differ in bytes to_string_lossy replaces; "f1" and "f4" share
\* a name.
MCText == [x \in MCNode |->
  CASE x \in {"a", "b"} -> "root/?"
    [] x = "c" -> "root/?/c"
    [] x = "d" -> "root/d"
    [] x = "f4" -> "f1"
    [] OTHER -> x]
MCTextSize == [t \in {MCText[x] : x \in MCNode} |->
  CASE t \in {"root", "root/?"} -> 2
    [] t \in {"root/?/c", "root/d", "f2"} -> 3
    [] t = "f5" -> 5
    [] OTHER -> 1]
=============================================================================
