------------------------------- MODULE MCContext -------------------------------
(* Small instances of ContextSelector: every import graph among three      *)
(* files, every traceback of up to MaxTrace paths.                         *)
EXTENDS ContextSelector

CONSTANTS
  Withheld,  \* the sets of files that may be protected
  MaxTrace   \* bound: paths in a traceback

(* File 2 is in the package of file 1; file 3 is a module of its own, or   *)
(* has the name of file 1 once more.                                       *)
Modules == {<< <<"a">>, <<"a", "b">>, <<third>> >> : third \in {"a", "c"}}

(* What a file may import: a name nobody has, a name inside file 1, a name *)
(* inside file 2, file 3.                                                  *)
Statements == {{}, {<<"d">>}, {<<"a", "x">>}, {<<"a", "b", "y">>}, {<<"c">>},
               {<<"a", "x">>, <<"c">>}}

MCCheckouts ==
  [size : {[f \in Files |-> f], [f \in Files |-> 1]},
   module : Modules,
   statements : [Files -> Statements],
   excluded : Withheld,
   trace : BoundedSeq(Files \cup {None}, MaxTrace)]
===============================================================================
