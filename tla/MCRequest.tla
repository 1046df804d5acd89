------------------------------- MODULE MCRequest -------------------------------
(* A small instance of RepairRequest: the checkouts of MCContext, where    *)
(* nobody else writes, for the selection; and, for the request as well,    *)
(* checkouts in which a stalled worker's patch makes one file longer, or   *)
(* shorter.                                                                *)
EXTENDS RepairRequest, MCContext, ContextProofs

(* File 1 imports file 2; the traceback names file 1, and file 3 perhaps.  *)
Disturbed ==
  [size : [Files -> {1, 2}],
   module : {<< <<"a">>, <<"b">>, <<"c">> >>},
   statements : {<< {<<"b">>}, {}, {} >>},
   excluded : Withheld,
   trace : {<<1>>, <<1, 3>>}]

RequestCheckouts == MCCheckouts \cup Disturbed

OneFileDiffers(co, other) ==
  \E f \in Files, n \in {1, 2} :
    n # co.size[f] /\ other = [co EXCEPT !.size[f] = n]

MCPatched ==
  [co \in RequestCheckouts |->
     IF co \in Disturbed THEN {other \in Disturbed : OneFileDiffers(co, other)}
     ELSE {}]

Good == [exit_code |-> 0, size |-> 1, document |-> "object", patch |-> "diff",
         touched_files |-> "paths", rationale |-> "text"]

MCAnswers ==
  {Good,
   [Good EXCEPT !.exit_code = 1],
   [Good EXCEPT !.size = MaxOutput + 1],
   [Good EXCEPT !.document = "value"],
   [Good EXCEPT !.patch = "other"],
   [Good EXCEPT !.touched_files = "other"],
   [Good EXCEPT !.rationale = "other"]}

(* Bound: requests are made in the checkouts that may be disturbed.        *)
BoundedSpec ==
  RequestInit /\ [][RequestNext /\ (request' # request => checkout \in Disturbed)]_requestVars
===============================================================================
