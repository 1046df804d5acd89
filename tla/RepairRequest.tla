----------------------------- MODULE RepairRequest -----------------------------
(***************************************************************************)
(* SubprocessRepairer.propose (repairers.py), after the selection of the   *)
(* context: the selected files are read one by one, the request goes to    *)
(* the repairer's process, its answer is checked.  The selection measured  *)
(* the files; here they are read, and in between a worker whose run was    *)
(* taken over may still run its git apply in the same worktree.            *)
(***************************************************************************)
EXTENDS ContextSelector

CONSTANTS
  Patched,   \* Patched[co]: what checkout co may become by such a patch
  Answers,   \* what the repairer's process may come back with
  MaxOutput  \* max_output_bytes

Answer ==
  [exit_code : Nat,
   size : Nat,
   document : {"none", "value", "object"},  \* what of JSON the output is
   patch : {"diff", "other"},               \* "other": missing or of no use
   touched_files : {"paths", "other"},
   rationale : {"text", "other"}]

ASSUME RequestAssumption ==
  /\ Patched \in [Checkouts -> SUBSET Checkouts]
  /\ \A co \in Checkouts : \A other \in Patched[co] : other.excluded = co.excluded
  /\ Answers \subseteq Answer
  /\ MaxOutput \in Nat

VARIABLES
  request,  \* request[c]: the request made of the selection of call c
  stalled   \* a stalled worker's patch has yet to reach the worktree

requestVars == <<checkout, call, request, stalled>>

-----------------------------------------------------------------------------
Sets(c, new) == request' = [request EXCEPT ![c] = new]

Reads(c) ==
  /\ Returned(c)
  /\ request[c].at = "reading"
  /\ request[c].next <= Len(call[c].selected)

WithContent(c) ==
  LET f == call[c].selected[request[c].next]
  IN  [request[c] EXCEPT !.next = @ + 1, !.files = Append(@, f),
                         !.bytes = @ + checkout.size[f]]

ReadContextFile_Skips(c) ==    \* mutant: a file that cannot be read is left out
  /\ Reads(c)
  /\ Sets(c, WithContent(c)) \/ Sets(c, [request[c] EXCEPT !.next = @ + 1])

ReadContextFile(c) == Reads(c) /\ Sets(c, WithContent(c))

Ask(c) ==
  /\ Returned(c)
  /\ request[c].at = "reading"
  /\ request[c].next = Len(call[c].selected) + 1
  /\ Sets(c, [request[c] EXCEPT !.at = "asking"])

WellFormed(answer) ==
  /\ answer.exit_code = 0
  /\ answer.size <= MaxOutput
  /\ answer.document = "object"
  /\ answer.patch = "diff"
  /\ answer.touched_files = "paths"
  /\ answer.rationale = "text"

TakeAnswer(c) ==
  /\ request[c].at = "asking"
  /\ \E answer \in Answers :
       Sets(c, [request[c] EXCEPT
         !.at = IF WellFormed(answer) THEN "answered" ELSE "raised"])

(* A file that cannot be read any more; the repairer's timeout.            *)
Raises(c) ==
  /\ Returned(c)
  /\ request[c].at \in {"reading", "asking"}
  /\ Sets(c, [request[c] EXCEPT !.at = "raised"])

Propose(c) == ReadContextFile(c) \/ Ask(c) \/ TakeAnswer(c) \/ Raises(c)

(* The patch of a stalled worker reaches the worktree.                     *)
Disturb ==
  /\ stalled
  /\ checkout' \in Patched[checkout]
  /\ stalled' = FALSE

(* The next selected file to read, the files whose content is in the       *)
(* request, and how much that is.                                          *)
NoRequest == [at |-> "reading", next |-> 1, files |-> <<>>, bytes |-> 0]

RequestInit == Init /\ request = [c \in Calls |-> NoRequest] /\ stalled = TRUE

RequestNext ==
  \/ Next /\ UNCHANGED <<request, stalled>>
  \/ \E c \in Calls : Propose(c) /\ UNCHANGED <<checkout, call, stalled>>
  \/ Disturb /\ UNCHANGED <<call, request>>

RequestSpec == RequestInit /\ [][RequestNext]_requestVars

-----------------------------------------------------------------------------
(* Properties of a request, and of a selection in a quiet worktree.        *)

(* As long as nobody else writes to the worktree, nothing is left out of   *)
(* the context that would still fit (context.py:78-83).                    *)
QuietSelectionFull == stalled => LeftOutDoesNotFit

(* As long as nobody else writes to the worktree, the failing files come   *)
(* first and lose their place in the budget to no other (context.py:48).   *)
QuietFailingFirst == stalled => FailingFilesFirst

(* Whatever happens to the worktree meanwhile, the repairer is shown the   *)
(* files that the audit event of the apply stage lists as its context      *)
(* (pipeline.py:91), no more and no fewer, and nothing that is withheld    *)
(* from it (README.md:109-110).                                            *)
EvidenceNamesRequest ==
  \A c \in Calls : request[c].at \in {"asking", "answered"} =>
    /\ request[c].files = call[c].selected
    /\ ToSet(request[c].files) \cap checkout.excluded = {}

(* The request shows a bounded code context, within the byte budget        *)
(* (README.md:6 and 20).  It does not hold: the budget is kept by the      *)
(* sizes at selection (context.py:78); what is sent is read later.         *)
RequestBounded ==
  \A c \in Calls : request[c].bytes <= MaxBytes
===============================================================================
