----------------------------- MODULE MCPatchPolicy -----------------------------
(* Small instances of PatchPolicy: every patch of up to MaxLines lines,    *)
(* with every declaration.                                                 *)
EXTENDS PatchPolicy

CONSTANT MaxLines  \* bound: lines of a patch

Header(starts, names, git) ==
  [starts |-> starts, names |-> names, marker |-> FALSE, role |-> "header", git |-> git]

Content(starts, names, role) ==
  [starts |-> starts, names |-> names, marker |-> FALSE, role |-> role, git |-> {}]

(* Headers of a source file, of another one or a protected one on either   *)
(* side, of a new file, malformed ones, one the scan skips and one that it *)
(* reads otherwise than git; changes, among them a removed line that reads *)
(* like a header and one that shlex cannot split; a mode line of a symbolic*)
(* link.                                                                   *)
MCLines ==
  {Header("diff --git ", <<"pkg/a.py", "pkg/a.py">>, {"pkg/a.py"}),
   Header("diff --git ", <<"pkg/a.py", "pkg/b.py">>, {"pkg/a.py", "pkg/b.py"}),
   Header("diff --git ", <<"pkg/a.py">>, {}),
   Header("--- or +++ ", <<"pkg/a.py">>, {"pkg/a.py"}),
   Header("--- or +++ ", <<"pkg/a.py">>, {"pkg/b.py"}),
   Header("--- or +++ ", <<"tests/t.py">>, {"tests/t.py"}),
   Header("--- or +++ ", <<DevNull>>, {}),
   Header("--- or +++ ", <<>>, {}),
   Header("other", <<>>, {}),
   Header("other", <<>>, {"pkg/b.py"}),
   Content("+", <<>>, "added"),
   Content("-", <<>>, "removed"),
   Content("--- or +++ ", <<"pkg/b.py">>, "removed"),
   Content("--- or +++ ", Invalid, "removed"),
   [Header("other", <<>>, {}) EXCEPT !.marker = TRUE]}

MCCandidates ==
  [patch : UNION {[1..n -> MCLines] : n \in 0..MaxLines},
   touched_files : SUBSET {"pkg/a.py", "pkg/b.py"}
                     \cup {{"tests/t.py"}, {Invalid}}]
===============================================================================
