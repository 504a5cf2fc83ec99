------------------------------ MODULE MCEnviron ------------------------------
(* The lines of hand-edited files: plain, double-quoted and single-quoted      *)
(* references in both directions, an escape, a comment behind a value, a        *)
(* comment line, one that is too long and a line without "=".                   *)
EXTENDS Environ

MCEdits ==
  {Line(KeyA, <<"x">>),
   Line(KeyA, <<Quote, Backslash, "n", Dollar, "B", Quote>>),
   Line(KeyB, <<Dollar, "A">>),
   Line(KeyB, <<Single, Dollar, "A", Single>>),
   Line(KeyB, <<"n", Hash, "x">>),
   Line(Comment, <<>>),
   Line(Comment, [i \in 1 .. MaxLine + 1 |-> "x"]),
   Line(NoKey, <<>>)}
=============================================================================
