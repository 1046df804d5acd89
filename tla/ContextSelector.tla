---------------------------- MODULE ContextSelector ----------------------------
(***************************************************************************)
(* FailureContextSelector.select (context.py): from the traceback of a     *)
(* failed test and the import graph of the checkout, the files a repairer  *)
(* is shown, within a budget of files and bytes.  Every attempt at a run   *)
(* selects anew, in its own process: what may differ from one call to the  *)
(* next is the order in which Python iterates over a set of paths.         *)
(***************************************************************************)
EXTENDS Integers, SequencesExt, FiniteSetsExt

CONSTANTS
  Files,      \* the Python files of the checkout, numbered in path order
  Checkouts,  \* contents a checkout can have
  Calls,      \* calls of select on one checkout and failure text
  None,       \* a traceback path that is no Python file of the checkout
  MaxFiles,   \* max_files
  MaxBytes    \* max_bytes

ASSUME ContextAssumption ==
  /\ Files \subseteq Nat /\ IsFiniteSet(Files)
  /\ None \notin Files
  /\ MaxFiles \in Nat /\ MaxBytes \in Nat
  /\ \A co \in Checkouts :
       /\ co.size \in [Files -> Nat]
       /\ co.excluded \in SUBSET Files
       /\ co.trace \in Seq(Files \cup {None})

VARIABLES
  checkout,  \* of each file its size, dotted name (a sequence of parts), the
             \* names it imports, and whether it is withheld; the traceback
  call       \* call[c]: the local variables of call c

vars == <<checkout, call>>

-----------------------------------------------------------------------------
(* The elements of S in ascending rank (a set with one element if the      *)
(* ranks are distinct).                                                    *)
Ascending(S, rank) ==
  {q \in SetToSeqs(S) : \A i, j \in DOMAIN q : i < j => rank[q[i]] < rank[q[j]]}

(* The files of the traceback, each once, in the order they first occur.   *)
Seeds == {f \in Files : \E i \in DOMAIN checkout.trace : checkout.trace[i] = f}

FirstIn(trace) ==
  [f \in Files |-> CHOOSE n \in 0..Len(trace) :
     /\ n > 0 => trace[n] = f
     /\ \A i \in DOMAIN trace : trace[i] = f => 0 < n /\ n <= i]

(* An imported name is that of the longest prefix that names a file.  Of   *)
(* two files with one name (a.py and a/__init__.py) the index keeps the    *)
(* one iterated over last.                                                 *)
Named(name) == {f \in Files : checkout.module[f] = name}

Resolved(rank, name) ==
  LET known == {n \in 1..Len(name) : Named(SubSeq(name, 1, n)) # {}}
  IN  {f \in Files :
        \E n \in known :
          /\ \A m \in known : m <= n
          /\ f \in Named(SubSeq(name, 1, n))
          /\ \A g \in Named(SubSeq(name, 1, n)) : rank[g] <= rank[f]}

Imports(rank, f) == UNION {Resolved(rank, name) : name \in checkout.statements[f]}

Importers(rank, f) == {g \in Files : f \in Imports(rank, g)}

-----------------------------------------------------------------------------
Call ==
  [at : {"idle", "selecting", "returned"},
   rank : [Files -> Nat],          \* the iteration order of the set of paths
   expand : Seq(Files),            \* seeds whose neighbours are not listed yet
   candidates : Seq(Files),        \* candidates not considered yet
   seen : SUBSET Files,
   selected : Seq(Files),
   total : Nat,
   truncated : BOOLEAN]

NoCall ==
  [at |-> "idle", rank |-> [f \in Files |-> 0], expand |-> <<>>, candidates |-> <<>>,
   seen |-> {}, selected |-> <<>>, total |-> 0, truncated |-> FALSE]

(* The local variables of call c become new.                               *)
Becomes(c, new) == call' = [call EXCEPT ![c] = new]

Orders == {rank \in [Files -> 1..Cardinality(Files)] : IsInjective(rank)}

(* Candidates are first of all the traceback's files ...                   *)
Begin(c) ==
  /\ call[c].at = "idle"
  /\ \E rank \in Orders, seeds \in Ascending(Seeds, FirstIn(checkout.trace)) :
       Becomes(c, [call[c] EXCEPT !.at = "selecting", !.rank = rank,
                                  !.expand = seeds, !.candidates = seeds])

(* ... then, seed by seed, the files it imports, by path, and the files    *)
(* that import it, in the order of iteration.                              *)
ByPath == [f \in Files |-> f]

Neighbours(rank, seed) ==
  {imported \o importers :
     imported \in Ascending(Imports(rank, seed), ByPath),
     importers \in Ascending(Importers(rank, seed), rank)}

Expand_Prepends(c) ==    \* mutant: neighbours are put before the other seeds
  LET me == call[c]
  IN  /\ me.expand # <<>>
      /\ \E found \in Neighbours(me.rank, Head(me.expand)) :
           Becomes(c, [me EXCEPT !.expand = Tail(me.expand),
                                 !.candidates = found \o me.candidates])

Expand_NotWithheld(c) ==    \* mutant: a withheld seed is not expanded
  LET me == call[c]
  IN  /\ me.expand # <<>>
      /\ \E found \in Neighbours(me.rank, Head(me.expand)) :
           Becomes(c, [me EXCEPT !.expand = Tail(me.expand),
             !.candidates = IF Head(me.expand) \in checkout.excluded
                            THEN me.candidates ELSE me.candidates \o found])

Expand(c) ==
  LET me == call[c]
  IN  /\ me.expand # <<>>
      /\ \E found \in Neighbours(me.rank, Head(me.expand)) :
           Becomes(c, [me EXCEPT !.expand = Tail(me.expand),
                                 !.candidates = me.candidates \o found])

(* The loop over the candidates, once all are listed: f is the next.       *)
Considers(c, f) ==
  /\ call[c].expand = <<>>
  /\ call[c].candidates # <<>>
  /\ f = Head(call[c].candidates)

Fits_OneMore(c, f) ==    \* mutant: off by one
  /\ Len(call[c].selected) <= MaxFiles
  /\ call[c].total + checkout.size[f] <= MaxBytes

Fits(c, f) ==
  /\ Len(call[c].selected) < MaxFiles
  /\ call[c].total + checkout.size[f] <= MaxBytes

(* Seen before, or withheld from the repairer.                             *)
PassOver(c, f) ==
  LET me == call[c]
  IN  /\ Considers(c, f)
      /\ f \in me.seen \cup checkout.excluded
      /\ Becomes(c, [me EXCEPT !.candidates = Tail(me.candidates),
                               !.seen = me.seen \cup {f}])

LeaveOut_Stops(c, f) ==    \* mutant: the scan ends at the first file too large
  LET me == call[c]
  IN  /\ Considers(c, f)
      /\ f \notin me.seen \cup checkout.excluded
      /\ ~Fits(c, f)
      /\ Becomes(c, [me EXCEPT !.candidates = <<>>, !.truncated = TRUE])

LeaveOut(c, f) ==
  LET me == call[c]
  IN  /\ Considers(c, f)
      /\ f \notin me.seen \cup checkout.excluded
      /\ ~Fits(c, f)
      /\ Becomes(c, [me EXCEPT !.candidates = Tail(me.candidates),
                               !.seen = me.seen \cup {f}, !.truncated = TRUE])

Take(c, f) ==
  LET me == call[c]
  IN  /\ Considers(c, f)
      /\ f \notin me.seen \cup checkout.excluded
      /\ Fits(c, f)
      /\ Becomes(c, [me EXCEPT !.candidates = Tail(me.candidates),
                               !.seen = me.seen \cup {f},
                               !.selected = Append(me.selected, f),
                               !.total = me.total + checkout.size[f]])

Return(c) ==
  /\ call[c].at = "selecting"
  /\ call[c].expand = <<>> /\ call[c].candidates = <<>>
  /\ Becomes(c, [call[c] EXCEPT !.at = "returned"])

Init == checkout \in Checkouts /\ call = [c \in Calls |-> NoCall]

Next ==
  /\ \E c \in Calls :
       \/ Begin(c) \/ Expand(c) \/ Return(c)
       \/ \E f \in Files : PassOver(c, f) \/ LeaveOut(c, f) \/ Take(c, f)
  /\ UNCHANGED checkout

Spec == Init /\ [][Next]_vars

-----------------------------------------------------------------------------
(* Properties of what a call returns.                                      *)

Returned(c) == call[c].at = "returned"
Chosen(c) == ToSet(call[c].selected)
Bytes(S) == MapThenSumSet(LAMBDA f : checkout.size[f], S)

(* The files a repairer could use: those of the traceback, those they      *)
(* import, those that import them, but none that is withheld.              *)
Eligible(c) ==
  (Seeds \cup UNION {Imports(call[c].rank, s) \cup Importers(call[c].rank, s) : s \in Seeds})
    \ checkout.excluded

(* The context is bounded and withholds what it must: within both budgets  *)
(* at every moment, no file twice, no protected file (README.md:20, 109).  *)
ContextBounded ==
  \A c \in Calls :
    /\ Len(call[c].selected) <= MaxFiles
    /\ call[c].total <= MaxBytes
    /\ \A i \in DOMAIN call[c].selected : call[c].selected[i] \notin checkout.excluded
    /\ \A i, j \in DOMAIN call[c].selected :
         call[c].selected[i] = call[c].selected[j] => i = j

(* A manifest that does not say "truncated" holds every eligible file, and *)
(* one that does left something out: a withheld test still leads to the    *)
(* files around it (README.md:109-110), and a repeated candidate is no     *)
(* truncation (context.py:73-80).                                          *)
TruncatedMeansLeftOut ==
  \A c \in Calls : Returned(c) =>
    /\ Chosen(c) \subseteq Eligible(c)
    /\ call[c].truncated <=> Chosen(c) # Eligible(c)

(* Nothing is left out that would still fit, by the true sizes of the      *)
(* files listed: the scan goes on after a file that was too large          *)
(* (context.py:78-83).                                                     *)
LeftOutDoesNotFit ==
  \A c \in Calls : Returned(c) =>
    \A f \in Eligible(c) \ Chosen(c) :
      \/ Cardinality(Chosen(c)) >= MaxFiles
      \/ Bytes(Chosen(c)) + checkout.size[f] > MaxBytes

(* The failing files come first, in the order of the traceback, and no     *)
(* neighbour takes their place in the budget: one is left out only if it   *)
(* does not fit with the failing files before it.                          *)
FailingFilesFirst ==
  \A c \in Calls : Returned(c) =>
    LET first == FirstIn(checkout.trace)
        before(s) == {f \in Chosen(c) \cap Seeds : first[f] < first[s]}
    IN  /\ \A i, j \in DOMAIN call[c].selected :
             i < j /\ call[c].selected[j] \in Seeds =>
               call[c].selected[i] \in before(call[c].selected[j])
        /\ \A s \in (Seeds \cap Eligible(c)) \ Chosen(c) :
             \/ Cardinality(before(s)) >= MaxFiles
             \/ Bytes(before(s)) + checkout.size[s] > MaxBytes

(* The same failure of the same checkout has the same context, so that a   *)
(* second attempt at a run asks the repairer the same question (README.md  *)
(* :5-7).  It does not hold: the order of iteration decides which          *)
(* importers the budget admits, and which of two files with one module     *)
(* name an import leads to.                                                *)
Reproducible ==
  \A c, d \in Calls : Returned(c) /\ Returned(d) => Chosen(c) = Chosen(d)
===============================================================================
