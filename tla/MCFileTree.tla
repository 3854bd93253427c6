------------------------------ MODULE MCFileTree ------------------------------
(* Instances of FileTree for TLC: a directory in a directory and another one  *)
(* next to them, files of two blocks, of one and of none, and a link.         *)
EXTENDS FileTree

MCNodes == {"outer", "inner", "other", "long", "short", "empty", "link"}
MCParent == [n \in MCNodes |-> CASE n \in {"inner", "link"} -> "outer"
                                 [] n = "empty" -> "inner"
                                 [] n = "short" -> "other"
                                 [] OTHER -> Root]
MCKind == [n \in MCNodes |-> CASE n \in {"outer", "inner", "other"} -> "dir"
                               [] n = "link" -> "link"
                               [] OTHER -> "file"]
MCBlocks == [n \in MCNodes |-> CASE n = "long" -> 2 [] n = "short" -> 1 [] OTHER -> 0]

=============================================================================
