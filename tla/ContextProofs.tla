---------------------------- MODULE ContextProofs ----------------------------
(* The theorems about ContextSelector and RepairRequest: what a repairer   *)
(* is shown is within the budgets, the manifest says truly whether it is   *)
(* all there is, and the request shows what the manifest lists; for every  *)
(* checkout, traceback and order of iteration.                             *)
EXTENDS RepairRequest, SequenceTheorems, FiniteSetTheorems, WellFoundedInduction, TLAPS

(* The inductive invariant: every file listed so far has been seen, so     *)
(* that it is not taken twice.                                             *)
Listed(c) ==
  LET list == call[c].selected
  IN  /\ Len(list) <= MaxFiles
      /\ call[c].total <= MaxBytes
      /\ \A i \in DOMAIN list : list[i] \in call[c].seen \ checkout.excluded
      /\ \A i, j \in DOMAIN list : list[i] = list[j] => i = j

ContextInv ==
  /\ checkout \in Checkouts
  /\ call \in [Calls -> Call]
  /\ \A c \in Calls : Listed(c)

-----------------------------------------------------------------------------
(* A listing of some of the files is a sequence of files.                  *)
LEMMA AscendingType ==
  ASSUME NEW S \in SUBSET Files, NEW rank, NEW q \in Ascending(S, rank)
  PROVE  q \in Seq(Files)
<1>1. Cardinality(S) \in Nat
  BY ContextAssumption, FS_Subset, FS_CardinalityType
<1>2. q \in [1..Cardinality(S) -> S]
  BY DEF Ascending, SetToSeqs
<1>3. q \in [1..Cardinality(S) -> Files]
  BY <1>2
<1> QED
  BY <1>1, <1>3

(* Imports and importers are files of the checkout.                        *)
LEMMA ImportsAreFiles ==
  ASSUME NEW rank, NEW f
  PROVE  Imports(rank, f) \in SUBSET Files /\ Importers(rank, f) \in SUBSET Files
  BY DEF Imports, Importers, Resolved

(* So what expanding a seed adds is a sequence of files.                   *)
LEMMA NeighboursType ==
  ASSUME NEW rank, NEW seed, NEW found \in Neighbours(rank, seed)
  PROVE  found \in Seq(Files)
<1> DEFINE Imported == Ascending(Imports(rank, seed), ByPath)
           Importing == Ascending(Importers(rank, seed), rank)
<1>1. Imported \subseteq Seq(Files) /\ Importing \subseteq Seq(Files)
  BY ImportsAreFiles, AscendingType
<1>2. found \in {p \o q : p \in Imported, q \in Importing}
  BY DEF Neighbours
<1> HIDE DEF Imported, Importing
<1>3. PICK p \in Imported, q \in Importing : found = p \o q
  BY <1>2
<1> QED
  BY <1>1, <1>3

LEMMA NoCallType == NoCall \in Call
<1>1. <<>> \in Seq(Files) /\ [f \in Files |-> 0] \in [Files -> Nat]
  OBVIOUS
<1> QED
  BY <1>1 DEF NoCall, Call

LEMMA ContextInvInit == Init => ContextInv
<1> SUFFICES ASSUME Init PROVE ContextInv
  OBVIOUS
<1>1. call \in [Calls -> Call] /\ checkout \in Checkouts
  BY NoCallType DEF Init
<1>2. ASSUME NEW c \in Calls PROVE Listed(c)
  <2>1. call[c] = NoCall
    BY DEF Init
  <2>2. NoCall.selected = <<>> /\ NoCall.total = 0 /\ Len(<<>>) = 0 /\ DOMAIN <<>> = {}
    BY DEF NoCall
  <2> QED
    BY <2>1, <2>2, ContextAssumption DEF Listed
<1> QED
  BY <1>1, <1>2 DEF ContextInv

(* A step of call c leaves the others alone.                               *)
LEMMA OneCallChanges ==
  ASSUME ContextInv, checkout' = checkout, NEW c \in Calls, NEW new \in Call,
         call' = [call EXCEPT ![c] = new], Listed(c)'
  PROVE  ContextInv'
<1>1. call' \in [Calls -> Call]
  BY DEF ContextInv
<1>2. ASSUME NEW d \in Calls \ {c} PROVE Listed(d)'
  <2>1. Listed(d) /\ call'[d] = call[d]
    BY DEF ContextInv
  <2> QED
    BY <2>1 DEF Listed
<1> QED
  BY <1>1, <1>2 DEF ContextInv

(* A step that changes neither the list nor its bytes keeps the invariant  *)
(* if it forgets nothing it has seen.                                      *)
LEMMA SameList ==
  ASSUME ContextInv, checkout' = checkout, NEW c \in Calls, NEW new \in Call,
         call' = [call EXCEPT ![c] = new],
         new.selected = call[c].selected, new.total = call[c].total,
         call[c].seen \subseteq new.seen
  PROVE  ContextInv'
<1>1. call'[c] = new /\ Listed(c)
  BY DEF ContextInv
<1>2. Listed(c)'
  BY <1>1 DEF Listed
<1> QED
  BY <1>2, OneCallChanges

-----------------------------------------------------------------------------
(* Begin and Expand only list candidates.                                  *)
LEMMA BeginKeeps ==
  ASSUME ContextInv, checkout' = checkout, NEW c \in Calls, Begin(c)
  PROVE  ContextInv'
<1>1. PICK rank \in Orders, seeds \in Ascending(Seeds, FirstIn(checkout.trace)) :
        Becomes(c, [call[c] EXCEPT !.at = "selecting", !.rank = rank,
                                   !.expand = seeds, !.candidates = seeds])
  BY DEF Begin
<1> DEFINE new == [call[c] EXCEPT !.at = "selecting", !.rank = rank,
                                  !.expand = seeds, !.candidates = seeds]
<1>2. seeds \in Seq(Files)
  BY AscendingType DEF Seeds
<1>3. rank \in [Files -> Nat]
  <2>1. Cardinality(Files) \in Nat
    BY ContextAssumption, FS_CardinalityType
  <2> QED
    BY <2>1 DEF Orders
<1>4. call[c] \in Call /\ call' = [call EXCEPT ![c] = new]
  BY <1>1 DEF ContextInv, Becomes
<1>5. /\ new \in Call /\ new.selected = call[c].selected
      /\ new.total = call[c].total /\ new.seen = call[c].seen
  BY <1>2, <1>3, <1>4 DEF Call
<1> HIDE DEF new
<1> QED
  BY <1>4, <1>5, SameList

LEMMA ExpandKeeps ==
  ASSUME ContextInv, checkout' = checkout, NEW c \in Calls, Expand(c)
  PROVE  ContextInv'
<1> DEFINE seed == Head(call[c].expand)
           rank == call[c].rank
<1>1. PICK found \in Neighbours(rank, seed) :
        Becomes(c, [call[c] EXCEPT !.expand = Tail(call[c].expand),
                                   !.candidates = call[c].candidates \o found])
  BY DEF Expand
<1>2. found \in Seq(Files)
  BY NeighboursType
<1> DEFINE rest == Tail(call[c].expand)
           more == call[c].candidates \o found
           new == [call[c] EXCEPT !.expand = rest, !.candidates = more]
<1>3. call[c] \in Call /\ call' = [call EXCEPT ![c] = new]
  BY <1>1 DEF ContextInv, Becomes
<1>4. call[c].expand \in Seq(Files) /\ call[c].expand # <<>>
      /\ call[c].candidates \in Seq(Files)
  BY <1>3 DEF Expand, Call
<1>5. rest \in Seq(Files)
  BY <1>4
<1>6. more \in Seq(Files)
  BY <1>2, <1>4
<1> HIDE DEF rest, more
<1>7. /\ new \in Call /\ new.selected = call[c].selected
      /\ new.total = call[c].total /\ new.seen = call[c].seen
  BY <1>3, <1>5, <1>6 DEF Call
<1> HIDE DEF new
<1> QED
  BY <1>3, <1>7, SameList

(* What considering candidate f means for the call's other fields.         *)
LEMMA Considered ==
  ASSUME ContextInv, NEW c \in Calls, NEW f \in Files, Considers(c, f)
  PROVE  /\ call[c] \in Call
         /\ Tail(call[c].candidates) \in Seq(Files)
         /\ call[c].seen \cup {f} \in SUBSET Files
<1>1. call[c] \in Call
  BY DEF ContextInv
<1>2. call[c].candidates \in Seq(Files) /\ call[c].candidates # <<>>
  BY <1>1 DEF Considers, Call
<1>3. call[c].seen \in SUBSET Files
  BY <1>1 DEF Call
<1> QED
  BY <1>1, <1>2, <1>3

LEMMA PassOverKeeps ==
  ASSUME ContextInv, checkout' = checkout, NEW c \in Calls, NEW f \in Files,
         PassOver(c, f)
  PROVE  ContextInv'
<1> DEFINE rest == Tail(call[c].candidates)
           seen == call[c].seen \cup {f}
           new == [call[c] EXCEPT !.candidates = rest, !.seen = seen]
<1>1. call[c] \in Call /\ rest \in Seq(Files) /\ seen \in SUBSET Files
  BY Considered DEF PassOver
<1>2. call' = [call EXCEPT ![c] = new] /\ call[c].seen \subseteq seen
  BY DEF PassOver, Becomes
<1> HIDE DEF rest, seen
<1>3. /\ new \in Call /\ new.selected = call[c].selected
      /\ new.total = call[c].total /\ new.seen = seen
  BY <1>1 DEF Call
<1> HIDE DEF new
<1> QED
  BY <1>2, <1>3, SameList

LEMMA LeaveOutKeeps ==
  ASSUME ContextInv, checkout' = checkout, NEW c \in Calls, NEW f \in Files,
         LeaveOut(c, f)
  PROVE  ContextInv'
<1> DEFINE rest == Tail(call[c].candidates)
           seen == call[c].seen \cup {f}
           new == [call[c] EXCEPT !.candidates = rest, !.seen = seen, !.truncated = TRUE]
<1>1. call[c] \in Call /\ rest \in Seq(Files) /\ seen \in SUBSET Files
  BY Considered DEF LeaveOut
<1>2. call' = [call EXCEPT ![c] = new] /\ call[c].seen \subseteq seen
  BY DEF LeaveOut, Becomes
<1> HIDE DEF rest, seen
<1>3. /\ new \in Call /\ new.selected = call[c].selected
      /\ new.total = call[c].total /\ new.seen = seen
  BY <1>1 DEF Call
<1> HIDE DEF new
<1> QED
  BY <1>2, <1>3, SameList

(* The one step that lengthens the list: its file fits, is not withheld,   *)
(* and is none of those listed, for they have all been seen.               *)
LEMMA TakeKeeps ==
  ASSUME ContextInv, checkout' = checkout, NEW c \in Calls, NEW f \in Files,
         Take(c, f)
  PROVE  ContextInv'
<1> DEFINE rest == Tail(call[c].candidates)
           seen == call[c].seen \cup {f}
           old == call[c].selected
           list == Append(old, f)
           total == call[c].total + checkout.size[f]
           new == [call[c] EXCEPT !.candidates = rest, !.seen = seen,
                                  !.selected = list, !.total = total]
<1>1. call[c] \in Call /\ rest \in Seq(Files) /\ seen \in SUBSET Files
  BY Considered DEF Take
<1>2. call' = [call EXCEPT ![c] = new]
  BY DEF Take, Becomes
<1>3. old \in Seq(Files) /\ call[c].total \in Nat /\ Listed(c)
  BY <1>1 DEF Call, ContextInv
<1>4. checkout.size[f] \in Nat /\ MaxFiles \in Nat /\ MaxBytes \in Nat
  BY ContextAssumption DEF ContextInv
<1>5. total \in Nat /\ total <= MaxBytes /\ Len(old) < MaxFiles
  BY <1>3, <1>4 DEF Take, Fits
<1>6. /\ list \in Seq(Files) /\ Len(list) = Len(old) + 1
      /\ DOMAIN list = 1..(Len(old) + 1) /\ DOMAIN old = 1..Len(old)
      /\ Len(old) \in Nat
      /\ \A i \in DOMAIN old : list[i] = old[i]
      /\ list[Len(old) + 1] = f
  BY <1>3
<1>7. f \notin call[c].seen /\ f \notin checkout.excluded
  BY DEF Take, Becomes
<1>8. \A i \in DOMAIN old : old[i] \in call[c].seen \ checkout.excluded
  BY <1>3 DEF Listed
<1>9. \A i, j \in DOMAIN old : old[i] = old[j] => i = j
  BY <1>3 DEF Listed
<1> HIDE DEF rest, old, list, total
<1>10. \A i \in DOMAIN list : list[i] \in seen \ checkout.excluded
  BY <1>6, <1>7, <1>8
<1>11. \A i, j \in DOMAIN list : list[i] = list[j] => i = j
  BY <1>6, <1>7, <1>8, <1>9
<1> HIDE DEF seen
<1>12. /\ new \in Call /\ new.selected = list /\ new.total = total /\ new.seen = seen
  BY <1>1, <1>5, <1>6 DEF Call
<1> HIDE DEF new
<1>13. call'[c] = new
  BY <1>2 DEF ContextInv
<1>14. Len(list) <= MaxFiles
  BY <1>4, <1>5, <1>6
<1>15. Listed(c)'
  BY <1>5, <1>10, <1>11, <1>12, <1>13, <1>14 DEF Listed
<1> QED
  BY <1>2, <1>12, <1>15, OneCallChanges

LEMMA ReturnKeeps ==
  ASSUME ContextInv, checkout' = checkout, NEW c \in Calls, Return(c)
  PROVE  ContextInv'
<1> DEFINE new == [call[c] EXCEPT !.at = "returned"]
<1>1. call[c] \in Call /\ call' = [call EXCEPT ![c] = new]
  BY DEF Return, Becomes, ContextInv
<1>2. /\ new \in Call /\ new.selected = call[c].selected
      /\ new.total = call[c].total /\ new.seen = call[c].seen
  BY <1>1 DEF Call
<1> HIDE DEF new
<1> QED
  BY <1>1, <1>2, SameList

LEMMA ContextInvNext == ContextInv /\ [Next]_vars => ContextInv'
<1> SUFFICES ASSUME ContextInv, [Next]_vars PROVE ContextInv'
  OBVIOUS
<1>1. CASE Next
  BY <1>1, BeginKeeps, ExpandKeeps, PassOverKeeps, LeaveOutKeeps, TakeKeeps,
     ReturnKeeps DEF Next
<1>2. CASE UNCHANGED vars
  BY <1>2 DEF vars, ContextInv, Listed
<1> QED
  BY <1>1, <1>2

(* The invariant holds of every call, whatever it has considered so far.   *)
THEOREM ContextInvariant == Spec => []ContextInv
BY ContextInvInit, ContextInvNext, PTL DEF Spec

(* A repairer is never shown more than the budgets, a protected file, or a *)
(* file twice (context.py:72-83), whatever the checkout and the order of   *)
(* iteration.                                                              *)
THEOREM ContextIsBounded == Spec => []ContextBounded
<1>1. ContextInv => ContextBounded
  BY DEF ContextInv, Listed, ContextBounded
<1> QED
  BY <1>1, ContextInvariant, PTL

-----------------------------------------------------------------------------
(* Whether a manifest is complete.                                         *)

(* The elements of longer and shorter sequences.                           *)
LEMMA ElementsAppended ==
  ASSUME NEW S, NEW q \in Seq(S), NEW x \in S
  PROVE  ToSet(Append(q, x)) = ToSet(q) \cup {x}
<1>1. /\ Append(q, x) \in Seq(S) /\ DOMAIN Append(q, x) = 1..(Len(q) + 1)
      /\ DOMAIN q = 1..Len(q) /\ Len(q) \in Nat
      /\ \A i \in 1..Len(q) : Append(q, x)[i] = q[i]
      /\ Append(q, x)[Len(q) + 1] = x
  OBVIOUS
<1>2. 1..(Len(q) + 1) = (1..Len(q)) \cup {Len(q) + 1}
  BY <1>1
<1> QED
  BY <1>1, <1>2 DEF ToSet

LEMMA ElementsJoined ==
  ASSUME NEW S, NEW p \in Seq(S), NEW q \in Seq(S)
  PROVE  ToSet(p \o q) = ToSet(p) \cup ToSet(q)
<1>1. /\ DOMAIN (p \o q) = 1..(Len(p) + Len(q))
      /\ DOMAIN p = 1..Len(p) /\ DOMAIN q = 1..Len(q)
      /\ Len(p) \in Nat /\ Len(q) \in Nat
      /\ \A i \in 1..(Len(p) + Len(q)) :
           (p \o q)[i] = IF i <= Len(p) THEN p[i] ELSE q[i - Len(p)]
  BY ConcatProperties
<1>2. ToSet(p \o q) \subseteq ToSet(p) \cup ToSet(q)
  <2>1. ASSUME NEW i \in 1..(Len(p) + Len(q))
        PROVE  (p \o q)[i] \in ToSet(p) \cup ToSet(q)
    <3>1. CASE i <= Len(p)
      <4>1. i \in 1..Len(p)
        BY <1>1, <3>1
      <4> QED
        BY <1>1, <3>1, <4>1 DEF ToSet
    <3>2. CASE ~(i <= Len(p))
      <4>1. i - Len(p) \in 1..Len(q)
        BY <1>1, <3>2
      <4> QED
        BY <1>1, <3>2, <4>1 DEF ToSet
    <3> QED
      BY <3>1, <3>2
  <2> QED
    BY <1>1, <2>1 DEF ToSet
<1>3. ToSet(p) \subseteq ToSet(p \o q)
  <2>1. \A i \in 1..Len(p) : i \in 1..(Len(p) + Len(q)) /\ (p \o q)[i] = p[i]
    BY <1>1
  <2> QED
    BY <1>1, <2>1 DEF ToSet
<1>4. ToSet(q) \subseteq ToSet(p \o q)
  <2>1. \A j \in 1..Len(q) :
          Len(p) + j \in 1..(Len(p) + Len(q)) /\ (p \o q)[Len(p) + j] = q[j]
    BY <1>1
  <2>2. \A x \in ToSet(q) : \E i \in 1..(Len(p) + Len(q)) : (p \o q)[i] = x
    BY <1>1, <2>1 DEF ToSet
  <2>3. ToSet(p \o q) = {(p \o q)[i] : i \in 1..(Len(p) + Len(q))}
    BY <1>1 DEF ToSet
  <2> QED
    BY <2>2, <2>3
<1> QED
  BY <1>2, <1>3, <1>4

LEMMA ElementsTaken ==
  ASSUME NEW S, NEW q \in Seq(S), q # <<>>
  PROVE  /\ ToSet(q) = {Head(q)} \cup ToSet(Tail(q))
         /\ Head(q) \in S /\ Tail(q) \in Seq(S)
<1>1. /\ DOMAIN q = 1..Len(q) /\ Len(q) \in Nat \ {0}
      /\ Tail(q) \in Seq(S) /\ DOMAIN Tail(q) = 1..(Len(q) - 1)
      /\ \A i \in 1..(Len(q) - 1) : Tail(q)[i] = q[i + 1]
      /\ Head(q) = q[1] /\ Head(q) \in S
  BY HeadTailProperties
<1>2. ToSet(q) \subseteq {Head(q)} \cup ToSet(Tail(q))
  <2>1. ASSUME NEW i \in 1..Len(q) PROVE q[i] \in {Head(q)} \cup ToSet(Tail(q))
    <3>1. CASE i = 1
      BY <1>1, <3>1
    <3>2. CASE i # 1
      <4>1. i - 1 \in 1..(Len(q) - 1) /\ Tail(q)[i - 1] = q[i]
        BY <1>1, <3>2
      <4> QED
        BY <1>1, <4>1 DEF ToSet
    <3> QED
      BY <3>1, <3>2
  <2> QED
    BY <1>1, <2>1 DEF ToSet
<1>3. {Head(q)} \cup ToSet(Tail(q)) \subseteq ToSet(q)
  <2>1. 1 \in 1..Len(q) /\ \A i \in 1..(Len(q) - 1) : i + 1 \in 1..Len(q)
    BY <1>1
  <2> QED
    BY <1>1, <2>1 DEF ToSet
<1> QED
  BY <1>1, <1>2, <1>3

(* A listing of a set of files lists them all: as many places as files,    *)
(* and no file at two of them.                                             *)
LEMMA AscendingElements ==
  ASSUME NEW S \in SUBSET Files, NEW rank, NEW q \in Ascending(S, rank)
  PROVE  ToSet(q) = S
<1> DEFINE D == 1..Cardinality(S)
<1>1. IsFiniteSet(S) /\ Cardinality(S) \in Nat
  BY ContextAssumption, FS_Subset, FS_CardinalityType
<1>2. q \in [D -> S] /\ \A i, j \in D : i # j => q[i] # q[j]
  BY DEF Ascending, SetToSeqs
<1>3. q \in Injection(D, S)
  BY <1>2 DEF Injection, IsInjective
<1>4. IsFiniteSet(D) /\ Cardinality(D) = Cardinality(S)
  BY <1>1, FS_Interval
<1> HIDE DEF D
<1>5. q \in Surjection(D, S)
  BY <1>1, <1>3, <1>4, FS_Injection
<1>6. \A x \in S : \E i \in D : q[i] = x
  BY <1>5 DEF Surjection
<1> QED
  BY <1>2, <1>6 DEF ToSet

-----------------------------------------------------------------------------
(* The files around a seed; all files that can come to be considered.      *)
Around(rank, seed) == Imports(rank, seed) \cup Importers(rank, seed)
AroundAll(rank, seeds) == UNION {Around(rank, s) : s \in seeds}
Sources(rank) == Seeds \cup AroundAll(rank, Seeds)

(* What a call has seen and what it still has to consider are together     *)
(* all that it has to; it says "truncated" if one of those it saw and may  *)
(* show is not listed.                                                     *)
Complete(me) ==
  /\ me.at = "idle" => me.expand = <<>> /\ me.candidates = <<>> /\ me.seen = {}
  /\ me.at # "idle" =>
       me.seen \cup ToSet(me.candidates) \cup AroundAll(me.rank, ToSet(me.expand))
         = Sources(me.rank)
  /\ me.at = "returned" => me.expand = <<>> /\ me.candidates = <<>>
  /\ ToSet(me.selected) \subseteq me.seen \ checkout.excluded
  /\ me.truncated <=> ToSet(me.selected) # me.seen \ checkout.excluded

CompleteInv == \A c \in Calls : Complete(call[c])

LEMMA NeighboursAround ==
  ASSUME NEW rank, NEW seed, NEW found \in Neighbours(rank, seed)
  PROVE  ToSet(found) = Around(rank, seed)
<1> DEFINE Imported == Ascending(Imports(rank, seed), ByPath)
           Importing == Ascending(Importers(rank, seed), rank)
<1>1. found \in {p \o q : p \in Imported, q \in Importing}
  BY DEF Neighbours
<1>2. Imported \subseteq Seq(Files) /\ Importing \subseteq Seq(Files)
  BY ImportsAreFiles, AscendingType
<1>3. /\ \A p \in Imported : ToSet(p) = Imports(rank, seed)
      /\ \A q \in Importing : ToSet(q) = Importers(rank, seed)
  BY ImportsAreFiles, AscendingElements
<1> HIDE DEF Imported, Importing
<1>4. PICK p \in Imported, q \in Importing : found = p \o q
  BY <1>1
<1>5. p \in Seq(Files) /\ q \in Seq(Files)
  BY <1>2
<1> QED
  BY <1>3, <1>4, <1>5, ElementsJoined DEF Around

(* In an unchanged checkout a call keeps its sources.                      *)
LEMMA SourcesLast ==
  ASSUME checkout' = checkout, NEW rank
  PROVE  /\ Seeds' = Seeds
         /\ \A f : Imports(rank, f)' = Imports(rank, f)
         /\ \A f : Importers(rank, f)' = Importers(rank, f)
         /\ Sources(rank)' = Sources(rank)
         /\ \A seeds : AroundAll(rank, seeds)' = AroundAll(rank, seeds)
<1>1. Seeds' = Seeds
  BY DEF Seeds
<1>2. \A f : Imports(rank, f)' = Imports(rank, f)
  BY DEF Imports, Resolved, Named
<1>3. \A f : Importers(rank, f)' = Importers(rank, f)
  BY DEF Importers, Imports, Resolved, Named
<1>4. \A seeds : AroundAll(rank, seeds)' = AroundAll(rank, seeds)
  BY <1>2, <1>3 DEF AroundAll, Around
<1>5. Sources(rank)' = Sources(rank)
  BY <1>1, <1>2, <1>3 DEF Sources, AroundAll, Around
<1> QED
  BY <1>1, <1>2, <1>3, <1>4, <1>5

LEMMA CompleteLasts ==
  ASSUME checkout' = checkout, NEW me, Complete(me)
  PROVE  Complete(me)'
BY SourcesLast DEF Complete

(* A step of call c leaves what the others have seen alone.                *)
LEMMA OneCompletes ==
  ASSUME ContextInv, CompleteInv, checkout' = checkout, NEW c \in Calls, NEW new,
         call' = [call EXCEPT ![c] = new], Complete(new)
  PROVE  CompleteInv'
<1>1. ASSUME NEW d \in Calls PROVE Complete(call[d])'
  <2>1. PICK me : me = IF d = c THEN new ELSE call[d]
    OBVIOUS
  <2>2. call'[d] = me
    BY <2>1 DEF ContextInv
  <2>3. Complete(me)
    BY <2>1 DEF CompleteInv
  <2>4. Complete(me)'
    BY <2>3, CompleteLasts
  <2> QED
    BY <2>2, <2>4 DEF Complete
<1> QED
  BY <1>1 DEF CompleteInv

LEMMA BeginCompletes ==
  ASSUME ContextInv, CompleteInv, checkout' = checkout, NEW c \in Calls, Begin(c)
  PROVE  CompleteInv'
<1>1. PICK rank \in Orders, seeds \in Ascending(Seeds, FirstIn(checkout.trace)) :
        Becomes(c, [call[c] EXCEPT !.at = "selecting", !.rank = rank,
                                   !.expand = seeds, !.candidates = seeds])
  BY DEF Begin
<1>2. PICK new : new = [call[c] EXCEPT !.at = "selecting", !.rank = rank,
                                       !.expand = seeds, !.candidates = seeds]
  OBVIOUS
<1>3. call[c] \in Call /\ call' = [call EXCEPT ![c] = new]
  BY <1>1, <1>2 DEF Becomes, ContextInv
<1>4. /\ new.at = "selecting" /\ new.rank = rank
      /\ new.expand = seeds /\ new.candidates = seeds
      /\ new.seen = call[c].seen /\ new.selected = call[c].selected
      /\ new.truncated = call[c].truncated
  BY <1>2, <1>3 DEF Call
<1>5. Complete(call[c]) /\ call[c].at = "idle"
  BY DEF CompleteInv, Begin
<1>6. ToSet(seeds) = Seeds
  BY AscendingElements DEF Seeds
<1>7. Complete(new)
  BY <1>4, <1>5, <1>6 DEF Complete, Sources
<1> QED
  BY <1>3, <1>7, OneCompletes

(* The neighbours of the seed that is expanded become candidates.          *)
LEMMA ExpandCompletes ==
  ASSUME ContextInv, CompleteInv, checkout' = checkout, NEW c \in Calls, Expand(c)
  PROVE  CompleteInv'
<1>1. PICK me : me = call[c]
  OBVIOUS
<1>2. PICK found \in Neighbours(me.rank, Head(me.expand)) :
        Becomes(c, [me EXCEPT !.expand = Tail(me.expand),
                              !.candidates = me.candidates \o found])
  BY <1>1 DEF Expand
<1>3. PICK new : new = [me EXCEPT !.expand = Tail(me.expand),
                                  !.candidates = me.candidates \o found]
  OBVIOUS
<1>4. me \in Call /\ call' = [call EXCEPT ![c] = new]
  BY <1>1, <1>2, <1>3 DEF Becomes, ContextInv
<1>5. /\ new.at = me.at /\ new.rank = me.rank
      /\ new.expand = Tail(me.expand) /\ new.candidates = me.candidates \o found
      /\ new.seen = me.seen /\ new.selected = me.selected
      /\ new.truncated = me.truncated
  BY <1>3, <1>4 DEF Call
<1>6. Complete(me) /\ me.expand # <<>>
  BY <1>1 DEF CompleteInv, Expand
<1>7. me.expand \in Seq(Files) /\ me.candidates \in Seq(Files)
  BY <1>4 DEF Call
<1>8. /\ ToSet(me.candidates \o found) = ToSet(me.candidates) \cup ToSet(found)
      /\ ToSet(found) = Around(me.rank, Head(me.expand))
  BY <1>7, NeighboursType, NeighboursAround, ElementsJoined
<1>9. ToSet(me.expand) = {Head(me.expand)} \cup ToSet(Tail(me.expand))
  BY <1>6, <1>7, ElementsTaken
<1>10. AroundAll(me.rank, ToSet(me.expand))
         = Around(me.rank, Head(me.expand)) \cup AroundAll(me.rank, ToSet(Tail(me.expand)))
  BY <1>9 DEF AroundAll
<1>11. me.at \notin {"idle", "returned"}
  BY <1>6 DEF Complete
<1>12. Complete(new)
  BY <1>5, <1>6, <1>8, <1>10, <1>11 DEF Complete
<1> QED
  BY <1>4, <1>12, OneCompletes

(* What considering candidate f leaves to be seen.                         *)
LEMMA OneSeen ==
  ASSUME ContextInv, CompleteInv, NEW c \in Calls, NEW f \in Files, Considers(c, f),
         NEW me, me = call[c]
  PROVE  /\ me \in Call /\ Complete(me) /\ me.at \notin {"idle", "returned"}
         /\ ToSet(me.candidates) = {f} \cup ToSet(Tail(me.candidates))
<1>1. me \in Call /\ Complete(me)
  BY DEF ContextInv, CompleteInv
<1>2. me.candidates \in Seq(Files) /\ me.candidates # <<>> /\ f = Head(me.candidates)
  BY <1>1 DEF Call, Considers
<1> QED
  BY <1>1, <1>2, ElementsTaken DEF Complete

LEMMA PassOverCompletes ==
  ASSUME ContextInv, CompleteInv, checkout' = checkout, NEW c \in Calls,
         NEW f \in Files, PassOver(c, f)
  PROVE  CompleteInv'
<1>1. PICK me : me = call[c]
  OBVIOUS
<1>2. PICK new : new = [me EXCEPT !.candidates = Tail(me.candidates),
                                  !.seen = me.seen \cup {f}]
  OBVIOUS
<1>3. /\ me \in Call /\ Complete(me) /\ me.at \notin {"idle", "returned"}
      /\ ToSet(me.candidates) = {f} \cup ToSet(Tail(me.candidates))
  BY <1>1, OneSeen DEF PassOver
<1>4. /\ call' = [call EXCEPT ![c] = new]
      /\ f \in me.seen \cup checkout.excluded
  BY <1>1, <1>2 DEF PassOver, Becomes
<1>5. /\ new.at = me.at /\ new.rank = me.rank /\ new.expand = me.expand
      /\ new.candidates = Tail(me.candidates)
      /\ new.seen = me.seen \cup {f} /\ new.selected = me.selected
      /\ new.truncated = me.truncated
  BY <1>2, <1>3 DEF Call
<1>6. new.seen \ checkout.excluded = me.seen \ checkout.excluded
  BY <1>4, <1>5
<1>7. Complete(new)
  BY <1>3, <1>5, <1>6 DEF Complete
<1> QED
  BY <1>4, <1>7, OneCompletes

(* A file left out is none of those listed.                                *)
LEMMA LeaveOutCompletes ==
  ASSUME ContextInv, CompleteInv, checkout' = checkout, NEW c \in Calls,
         NEW f \in Files, LeaveOut(c, f)
  PROVE  CompleteInv'
<1>1. PICK me : me = call[c]
  OBVIOUS
<1>2. PICK new : new = [me EXCEPT !.candidates = Tail(me.candidates),
                                  !.seen = me.seen \cup {f}, !.truncated = TRUE]
  OBVIOUS
<1>3. /\ me \in Call /\ Complete(me) /\ me.at \notin {"idle", "returned"}
      /\ ToSet(me.candidates) = {f} \cup ToSet(Tail(me.candidates))
  BY <1>1, OneSeen DEF LeaveOut
<1>4. /\ call' = [call EXCEPT ![c] = new]
      /\ f \notin me.seen \cup checkout.excluded
  BY <1>1, <1>2 DEF LeaveOut, Becomes
<1>5. /\ new.at = me.at /\ new.rank = me.rank /\ new.expand = me.expand
      /\ new.candidates = Tail(me.candidates)
      /\ new.seen = me.seen \cup {f} /\ new.selected = me.selected
      /\ new.truncated = TRUE
  BY <1>2, <1>3 DEF Call
<1>6. ToSet(new.selected) \subseteq me.seen \ checkout.excluded
  BY <1>3, <1>5 DEF Complete
<1>7. f \in (new.seen \ checkout.excluded) \ ToSet(new.selected)
  BY <1>4, <1>5, <1>6
<1>8. Complete(new)
  BY <1>3, <1>5, <1>6, <1>7 DEF Complete
<1> QED
  BY <1>4, <1>8, OneCompletes

LEMMA TakeCompletes ==
  ASSUME ContextInv, CompleteInv, checkout' = checkout, NEW c \in Calls,
         NEW f \in Files, Take(c, f)
  PROVE  CompleteInv'
<1>1. PICK me : me = call[c]
  OBVIOUS
<1>2. PICK new : new = [me EXCEPT !.candidates = Tail(me.candidates),
                                  !.seen = me.seen \cup {f},
                                  !.selected = Append(me.selected, f),
                                  !.total = me.total + checkout.size[f]]
  OBVIOUS
<1>3. /\ me \in Call /\ Complete(me) /\ me.at \notin {"idle", "returned"}
      /\ ToSet(me.candidates) = {f} \cup ToSet(Tail(me.candidates))
  BY <1>1, OneSeen DEF Take
<1>4. /\ call' = [call EXCEPT ![c] = new]
      /\ f \notin me.seen \cup checkout.excluded
  BY <1>1, <1>2 DEF Take, Becomes
<1>5. /\ new.at = me.at /\ new.rank = me.rank /\ new.expand = me.expand
      /\ new.candidates = Tail(me.candidates)
      /\ new.seen = me.seen \cup {f} /\ new.selected = Append(me.selected, f)
      /\ new.truncated = me.truncated
  BY <1>2, <1>3 DEF Call
<1>6. ToSet(new.selected) = ToSet(me.selected) \cup {f}
  <2>1. me.selected \in Seq(Files)
    BY <1>3 DEF Call
  <2> QED
    BY <1>5, <2>1, ElementsAppended
<1>7. new.seen \ checkout.excluded = (me.seen \ checkout.excluded) \cup {f}
  BY <1>4, <1>5
<1>8. f \notin me.seen /\ ToSet(me.selected) \subseteq me.seen \ checkout.excluded
  BY <1>3, <1>4 DEF Complete
<1>9. ToSet(new.selected) # new.seen \ checkout.excluded
        <=> ToSet(me.selected) # me.seen \ checkout.excluded
  BY <1>6, <1>7, <1>8
<1>10. ToSet(new.selected) \subseteq new.seen \ checkout.excluded
  BY <1>6, <1>7, <1>8
<1>11. new.truncated <=> ToSet(new.selected) # new.seen \ checkout.excluded
  BY <1>3, <1>5, <1>9 DEF Complete
<1>12. Complete(new)
  BY <1>3, <1>5, <1>10, <1>11 DEF Complete
<1> QED
  BY <1>4, <1>12, OneCompletes

LEMMA ReturnCompletes ==
  ASSUME ContextInv, CompleteInv, checkout' = checkout, NEW c \in Calls, Return(c)
  PROVE  CompleteInv'
<1>1. PICK me : me = call[c]
  OBVIOUS
<1>2. PICK new : new = [me EXCEPT !.at = "returned"]
  OBVIOUS
<1>3. /\ me \in Call /\ Complete(me) /\ me.at = "selecting"
      /\ me.expand = <<>> /\ me.candidates = <<>>
      /\ call' = [call EXCEPT ![c] = new]
  BY <1>1, <1>2 DEF Return, Becomes, ContextInv, CompleteInv
<1>4. /\ new.at = "returned" /\ new.rank = me.rank /\ new.expand = me.expand
      /\ new.candidates = me.candidates /\ new.seen = me.seen
      /\ new.selected = me.selected /\ new.truncated = me.truncated
  BY <1>2, <1>3 DEF Call
<1>5. Complete(new)
  BY <1>3, <1>4 DEF Complete
<1> QED
  BY <1>3, <1>5, OneCompletes

LEMMA CompleteInvInit == Init => CompleteInv
<1> SUFFICES ASSUME Init, NEW c \in Calls PROVE Complete(call[c])
  BY DEF CompleteInv
<1>1. call[c] = NoCall
  BY DEF Init
<1>2. ToSet(<<>>) = {}
  BY DEF ToSet
<1> QED
  BY <1>1, <1>2 DEF Complete, NoCall

LEMMA CompleteInvNext == ContextInv /\ CompleteInv /\ [Next]_vars => CompleteInv'
<1> SUFFICES ASSUME ContextInv, CompleteInv, [Next]_vars PROVE CompleteInv'
  OBVIOUS
<1>1. CASE Next
  <2>1. PICK c \in Calls :
          \/ Begin(c) \/ Expand(c) \/ Return(c)
          \/ \E f \in Files : PassOver(c, f) \/ LeaveOut(c, f) \/ Take(c, f)
    BY <1>1 DEF Next
  <2>2. checkout' = checkout
    BY <1>1 DEF Next
  <2> QED
    BY <2>1, <2>2, BeginCompletes, ExpandCompletes, ReturnCompletes,
       PassOverCompletes, LeaveOutCompletes, TakeCompletes
<1>2. CASE UNCHANGED vars
  <2>1. call' = call /\ checkout' = checkout
    BY <1>2 DEF vars
  <2>2. ASSUME NEW c \in Calls PROVE Complete(call[c])'
    <3>1. PICK me : me = call[c]
      OBVIOUS
    <3>2. Complete(me)'
      BY <2>1, <3>1, CompleteLasts DEF CompleteInv
    <3> QED
      BY <2>1, <3>1, <3>2 DEF Complete
  <2> QED
    BY <2>2 DEF CompleteInv
<1> QED
  BY <1>1, <1>2

(* Nothing that could be considered is forgotten: seed by seed, candidate  *)
(* by candidate, it is seen or still to come.                              *)
THEOREM NothingForgotten == Spec => []CompleteInv
BY ContextInvariant, CompleteInvInit, CompleteInvNext, PTL DEF Spec

LEMMA CompleteIsTruth == CompleteInv => TruncatedMeansLeftOut
<1> SUFFICES ASSUME CompleteInv, NEW c \in Calls, Returned(c)
             PROVE  /\ Chosen(c) \subseteq Eligible(c)
                    /\ call[c].truncated <=> Chosen(c) # Eligible(c)
  BY DEF TruncatedMeansLeftOut
<1>1. Complete(call[c]) /\ call[c].at = "returned"
  BY DEF CompleteInv, Returned
<1>2. ToSet(<<>>) = {}
  BY DEF ToSet
<1>3. call[c].seen = Sources(call[c].rank)
  <2>1. AroundAll(call[c].rank, {}) = {}
    BY DEF AroundAll
  <2> QED
    BY <1>1, <1>2, <2>1 DEF Complete
<1>4. Eligible(c) = Sources(call[c].rank) \ checkout.excluded
  BY DEF Eligible, Sources, AroundAll, Around
<1>5. /\ ToSet(call[c].selected) \subseteq Eligible(c)
      /\ call[c].truncated <=> ToSet(call[c].selected) # Eligible(c)
  BY <1>1, <1>3, <1>4 DEF Complete
<1> QED
  BY <1>5 DEF Chosen

(* A manifest says "truncated" exactly if an eligible file is not in it,   *)
(* whatever the checkout, the budgets and the order of iteration           *)
(* (context.py:62-83).                                                     *)
THEOREM ManifestSaysTruth == Spec => []TruncatedMeansLeftOut
BY NothingForgotten, CompleteIsTruth, PTL

-----------------------------------------------------------------------------
(* Sums of sizes.  A set of counterexamples of natural or finite size has  *)
(* a smallest member, and the smaller case it rests on is no               *)
(* counterexample: so the equation of a sum over a finite set, its type,   *)
(* and that any element may be taken first.                                *)

(* Every set of numbers has a least one.                                   *)
LEMMA Least ==
  ASSUME NEW T, T \subseteq Nat, T # {}
  PROVE  \E x \in T : \A y \in T : x <= y
<1>1. PICK x \in T : \A y \in T : ~(<<y, x>> \in OpToRel(<, Nat))
  BY NatLessThanWellFounded, WFMin
<1>2. \A y \in T : ~(y < x)
  BY <1>1 DEF OpToRel
<1> QED
  BY <1>2

(* Induction over finite sets: a set of finite sets without a least one    *)
(* is empty.                                                               *)
LEMMA Smallest ==
  ASSUME NEW F, F # {}, \A A \in F : IsFiniteSet(A)
  PROVE  \E A \in F : \A B \in F : Cardinality(A) <= Cardinality(B)
<1> DEFINE T == {Cardinality(A) : A \in F}
<1>1. T \subseteq Nat /\ T # {}
  BY FS_CardinalityType
<1>2. PICK n \in T : \A m \in T : n <= m
  <2> HIDE DEF T
  <2> QED
    BY <1>1, Least
<1> QED
  BY <1>2

SizeSum(size, S) == MapThenSumSet(LAMBDA f : size[f], S)
AnyOf(s) == CHOOSE x \in s : TRUE
SumsOver(size, S, g) == g = [s \in SUBSET S |->
  IF s = {} THEN 0 ELSE size[AnyOf(s)] + g[s \ {AnyOf(s)}]]
TheSums(size, S) == CHOOSE g : SumsOver(size, S, g)

LEMMA SumDef ==
  ASSUME NEW size, NEW S
  PROVE  SizeSum(size, S) = TheSums(size, S)[S]
BY DEF SizeSum, TheSums, SumsOver, AnyOf, MapThenSumSet, MapThenFoldSet

LEMMA Smaller ==
  ASSUME NEW A, IsFiniteSet(A), NEW x \in A
  PROVE  /\ IsFiniteSet(A \ {x}) /\ Cardinality(A \ {x}) < Cardinality(A)
         /\ Cardinality(A) \in Nat /\ Cardinality(A \ {x}) \in Nat
<1>1. Cardinality(A) \in Nat
  BY FS_CardinalityType
<1>2. IsFiniteSet(A \ {x}) /\ Cardinality(A \ {x}) = Cardinality(A) - 1
  BY FS_RemoveElement
<1> QED
  BY <1>1, <1>2, FS_CardinalityType

LEMMA Picked == ASSUME NEW s, s # {} PROVE AnyOf(s) \in s
BY DEF AnyOf

(* Two functions with the sums of some sets agree on the sets they share.  *)
LEMMA SumsAgree ==
  ASSUME NEW size, NEW S, NEW T, NEW g, NEW h, SumsOver(size, S, g), SumsOver(size, T, h),
         NEW A, A \subseteq S, A \subseteq T, IsFiniteSet(A)
  PROVE  g[A] = h[A]
<1> DEFINE F == {B \in SUBSET A : g[B] # h[B]}
<1>1. SUFFICES ASSUME F # {} PROVE FALSE
  OBVIOUS
<1>2. \A B \in F : IsFiniteSet(B)
  BY FS_Subset
<1>3. PICK B \in F : \A C \in F : Cardinality(B) <= Cardinality(C)
  <2> HIDE DEF F
  <2> QED
    BY <1>1, <1>2, Smallest
<1>4. B \in SUBSET S /\ B \in SUBSET T /\ g[B] # h[B]
  OBVIOUS
<1>5. /\ g[B] = IF B = {} THEN 0 ELSE size[AnyOf(B)] + g[B \ {AnyOf(B)}]
      /\ h[B] = IF B = {} THEN 0 ELSE size[AnyOf(B)] + h[B \ {AnyOf(B)}]
  BY <1>4 DEF SumsOver
<1>6. B # {}
  BY <1>4, <1>5
<1>7. B \ {AnyOf(B)} \in F
  BY <1>4, <1>5, <1>6
<1>8. /\ Cardinality(B \ {AnyOf(B)}) < Cardinality(B)
      /\ Cardinality(B) \in Nat /\ Cardinality(B \ {AnyOf(B)}) \in Nat
  BY <1>2, <1>6, Picked, Smaller
<1>9. Cardinality(B) <= Cardinality(B \ {AnyOf(B)})
  BY <1>3, <1>7
<1> QED
  BY <1>8, <1>9

(* There is such a function for every finite set.                          *)
LEMMA SumsExist ==
  ASSUME NEW size, NEW S, IsFiniteSet(S)
  PROVE  SumsOver(size, S, TheSums(size, S))
<1> DEFINE F == {A \in SUBSET S : ~SumsOver(size, A, TheSums(size, A))}
<1>1. SUFFICES ASSUME F # {} PROVE FALSE
  OBVIOUS
<1>2. \A A \in F : IsFiniteSet(A)
  BY FS_Subset
<1>3. PICK A \in F : \A C \in F : Cardinality(A) <= Cardinality(C)
  <2> HIDE DEF F
  <2> QED
    BY <1>1, <1>2, Smallest
<1>4. ASSUME NEW B \in SUBSET A, B # A PROVE SumsOver(size, B, TheSums(size, B))
  <2>1. IsFiniteSet(A)
    BY <1>2, <1>3
  <2>2. /\ IsFiniteSet(B) /\ Cardinality(B) <= Cardinality(A)
        /\ Cardinality(A) # Cardinality(B)
    BY <1>4, <2>1, FS_Subset
  <2>3. Cardinality(A) \in Nat /\ Cardinality(B) \in Nat
    BY <2>1, <2>2, FS_CardinalityType
  <2>4. B \notin F
    <3> HIDE DEF F
    <3> QED
      BY <1>3, <2>2, <2>3
  <2>5. B \in SUBSET S
    BY <1>3, <1>4
  <2> QED
    BY <2>4, <2>5
<1> DEFINE sum(B) == TheSums(size, B)[B]
           g == [s \in SUBSET A |->
                  IF s = {} THEN 0 ELSE size[AnyOf(s)] + sum(s \ {AnyOf(s)})]
<1>5. ASSUME NEW B \in SUBSET A, B # A PROVE g[B] = sum(B)
  <2>1. PICK h : h = TheSums(size, B)
    OBVIOUS
  <2>2. SumsOver(size, B, h)
    BY <1>4, <1>5, <2>1
  <2>3. h[B] = IF B = {} THEN 0 ELSE size[AnyOf(B)] + h[B \ {AnyOf(B)}]
    BY <2>2 DEF SumsOver
  <2>4. CASE B = {}
    BY <2>1, <2>3, <2>4
  <2>5. CASE B # {}
    <3>1. PICK C : C = B \ {AnyOf(B)}
      OBVIOUS
    <3>2. C \in SUBSET A /\ C # A /\ C \subseteq B
      BY <2>5, <3>1, Picked
    <3>3. IsFiniteSet(C)
      BY <1>2, <3>2, FS_Subset
    <3>4. PICK k : k = TheSums(size, C)
      OBVIOUS
    <3>5. SumsOver(size, C, k)
      BY <1>4, <3>2, <3>4
    <3>6. h[C] = k[C]
      BY <2>2, <3>2, <3>3, <3>5, SumsAgree
    <3>7. g[B] = size[AnyOf(B)] + k[C]
      BY <2>5, <3>1, <3>4
    <3> QED
      BY <2>1, <2>3, <2>5, <3>1, <3>6, <3>7
  <2> QED
    BY <2>4, <2>5
<1> HIDE DEF sum
<1>6. SumsOver(size, A, g)
  <2>1. ASSUME NEW s \in SUBSET A, s # {}
        PROVE  sum(s \ {AnyOf(s)}) = g[s \ {AnyOf(s)}]
    <3>1. s \ {AnyOf(s)} \in SUBSET A /\ s \ {AnyOf(s)} # A
      BY <2>1, Picked
    <3> QED
      BY <1>5, <3>1
  <2>2. \A s \in SUBSET A :
          g[s] = IF s = {} THEN 0 ELSE size[AnyOf(s)] + g[s \ {AnyOf(s)}]
    BY <2>1
  <2>3. g = [s \in SUBSET A |-> g[s]]
    OBVIOUS
  <2>4. [s \in SUBSET A |-> g[s]] = [s \in SUBSET A |->
           IF s = {} THEN 0 ELSE size[AnyOf(s)] + g[s \ {AnyOf(s)}]]
    <3> HIDE DEF g
    <3> QED
      BY <2>2
  <2> QED
    BY <2>3, <2>4 DEF SumsOver
<1>7. SumsOver(size, A, TheSums(size, A))
  <2> HIDE DEF g
  <2> QED
    BY <1>6 DEF TheSums
<1> QED
  BY <1>7

(* The sum of a finite set.                                                *)
LEMMA SumStep ==
  ASSUME NEW size, NEW S, IsFiniteSet(S)
  PROVE  SizeSum(size, S) = IF S = {} THEN 0 ELSE size[AnyOf(S)] + SizeSum(size, S \ {AnyOf(S)})
<1>1. PICK g : g = TheSums(size, S) /\ SumsOver(size, S, g)
  BY SumsExist
<1>2. g[S] = IF S = {} THEN 0 ELSE size[AnyOf(S)] + g[S \ {AnyOf(S)}]
  BY <1>1 DEF SumsOver
<1>3. PICK T : T = S \ {AnyOf(S)}
  OBVIOUS
<1>4. IsFiniteSet(T) /\ T \subseteq S
  BY <1>3, FS_Subset
<1>5. PICK h : h = TheSums(size, T) /\ SumsOver(size, T, h)
  BY <1>4, SumsExist
<1>6. g[T] = h[T]
  BY <1>1, <1>4, <1>5, SumsAgree
<1> QED
  BY <1>1, <1>2, <1>3, <1>5, <1>6, SumDef

LEMMA SumType ==
  ASSUME NEW size, NEW S, IsFiniteSet(S), \A x \in S : size[x] \in Nat
  PROVE  SizeSum(size, S) \in Nat
<1> DEFINE F == {A \in SUBSET S : SizeSum(size, A) \notin Nat}
<1>1. SUFFICES ASSUME F # {} PROVE FALSE
  OBVIOUS
<1>2. \A A \in F : IsFiniteSet(A)
  BY FS_Subset
<1>3. PICK A \in F : \A C \in F : Cardinality(A) <= Cardinality(C)
  <2> HIDE DEF F
  <2> QED
    BY <1>1, <1>2, Smallest
<1>4. SizeSum(size, A) = IF A = {} THEN 0 ELSE size[AnyOf(A)] + SizeSum(size, A \ {AnyOf(A)})
  BY <1>2, SumStep
<1>5. A # {} /\ AnyOf(A) \in A
  BY <1>4, Picked
<1>6. PICK B : B = A \ {AnyOf(A)}
  OBVIOUS
<1>7. /\ Cardinality(B) < Cardinality(A) /\ Cardinality(A) \in Nat /\ Cardinality(B) \in Nat
  BY <1>2, <1>5, <1>6, Smaller
<1>8. B \notin F
  BY <1>3, <1>7
<1>9. SizeSum(size, B) \in Nat /\ size[AnyOf(A)] \in Nat
  BY <1>5, <1>6, <1>8
<1> QED
  BY <1>4, <1>5, <1>6, <1>9

(* It does not matter which element is taken first.                        *)
LEMMA SumOfRest ==
  ASSUME NEW size, NEW S, IsFiniteSet(S), \A x \in S : size[x] \in Nat
  PROVE  \A x \in S : SizeSum(size, S) = size[x] + SizeSum(size, S \ {x})
<1> DEFINE F == {A \in SUBSET S : \E x \in A : SizeSum(size, A) # size[x] + SizeSum(size, A \ {x})}
<1>1. SUFFICES ASSUME F # {} PROVE FALSE
  OBVIOUS
<1>2. \A A \in F : IsFiniteSet(A)
  BY FS_Subset
<1>3. PICK A \in F : \A C \in F : Cardinality(A) <= Cardinality(C)
  <2> HIDE DEF F
  <2> QED
    BY <1>1, <1>2, Smallest
<1>4. PICK x \in A : SizeSum(size, A) # size[x] + SizeSum(size, A \ {x})
  OBVIOUS
<1>5. PICK y : y = AnyOf(A) /\ y \in A
  BY <1>4, Picked
<1>6. SizeSum(size, A) = size[y] + SizeSum(size, A \ {y})
  BY <1>2, <1>4, <1>5, SumStep
<1>7. x # y
  BY <1>4, <1>6
<1>8. ASSUME NEW z \in A, NEW B, B = A \ {z}
      PROVE  \A v \in B : SizeSum(size, B) = size[v] + SizeSum(size, B \ {v})
  <2>1. /\ Cardinality(B) < Cardinality(A) /\ Cardinality(A) \in Nat /\ Cardinality(B) \in Nat
    BY <1>2, <1>8, Smaller
  <2>2. B \notin F /\ B \in SUBSET S
    BY <1>3, <1>8, <2>1
  <2> QED
    BY <2>2
<1>9. PICK X, Y, Z : X = A \ {x} /\ Y = A \ {y} /\ Z = A \ {x, y}
  OBVIOUS
<1>10. X \ {y} = Z /\ Y \ {x} = Z /\ y \in X /\ x \in Y
  BY <1>5, <1>7, <1>9
<1>11. SizeSum(size, X) = size[y] + SizeSum(size, Z)
  BY <1>8, <1>9, <1>10
<1>12. SizeSum(size, Y) = size[x] + SizeSum(size, Z)
  BY <1>5, <1>8, <1>9, <1>10
<1>13. size[x] \in Nat /\ size[y] \in Nat /\ SizeSum(size, Z) \in Nat
  <2>1. x \in S /\ y \in S /\ IsFiniteSet(Z) /\ Z \subseteq S
    BY <1>5, <1>9, FS_Subset
  <2> QED
    BY <2>1, SumType
<1> QED
  BY <1>4, <1>6, <1>9, <1>11, <1>12, <1>13

-----------------------------------------------------------------------------
(* What the budget admits, while nobody else writes to the worktree.       *)

(* The seeds that the traceback names before s.                            *)
Earlier(s) ==
  {t \in Seeds : FirstIn(checkout.trace)[t] < FirstIn(checkout.trace)[s]}

LeftOut(me) == (me.seen \ checkout.excluded) \ ToSet(me.selected)

(* The number of files and bytes a call counts are those of the files it   *)
(* has listed.                                                             *)
SizesAddUp(me) ==
  /\ Len(me.selected) = Cardinality(ToSet(me.selected))
  /\ me.total = SizeSum(checkout.size, ToSet(me.selected))

TooMany(S, f) ==
  \/ Cardinality(S) >= MaxFiles
  \/ SizeSum(checkout.size, S) + checkout.size[f] > MaxBytes

LeftOutTooLarge(me) == \A f \in LeftOut(me) : TooMany(ToSet(me.selected), f)

(* Until a seed has been considered, all that is considered before it are  *)
(* the seeds before it.                                                    *)
SeedsLead(me) ==
  \A s \in Seeds \ me.seen :
    /\ me.seen \subseteq Earlier(s)
    /\ me.at # "idle" =>
         \E i \in DOMAIN me.candidates :
           /\ me.candidates[i] = s
           /\ \A j \in 1..(i - 1) : me.candidates[j] \in Earlier(s)

SeedsInOrder(me) ==
  \A i, j \in DOMAIN me.selected :
    i < j /\ me.selected[j] \in Seeds => me.selected[i] \in Earlier(me.selected[j])

SeedsFirst(me) ==
  \A s \in LeftOut(me) \cap Seeds : TooMany(ToSet(me.selected) \cap Earlier(s), s)

Chooses(me) ==
  /\ SizesAddUp(me)
  /\ LeftOutTooLarge(me)
  /\ SeedsLead(me)
  /\ SeedsInOrder(me)
  /\ SeedsFirst(me)

SelectionInv == \A c \in Calls : Chooses(call[c])

(* Of a traceback that names a file, the place where it does so first.     *)
LEMMA FirstInType ==
  ASSUME ContextInv, NEW s \in Seeds
  PROVE  FirstIn(checkout.trace)[s] \in Nat
<1>1. PICK trace : trace = checkout.trace /\ trace \in Seq(Files \cup {None})
  BY ContextAssumption DEF ContextInv
<1> DEFINE T == {i \in DOMAIN trace : trace[i] = s}
<1>2. T \subseteq Nat /\ T # {} /\ DOMAIN trace = 1..Len(trace) /\ Len(trace) \in Nat
  BY <1>1 DEF Seeds
<1>3. PICK first \in T : \A i \in T : first <= i
  <2> HIDE DEF T
  <2> QED
    BY <1>2, Least
<1>4. /\ first \in 0..Len(trace) /\ 0 < first /\ trace[first] = s
      /\ \A i \in DOMAIN trace : trace[i] = s => 0 < first /\ first <= i
  BY <1>2, <1>3
<1>5. FirstIn(trace)[s] \in 0..Len(trace)
  BY <1>4 DEF FirstIn, Seeds
<1> QED
  BY <1>1, <1>2, <1>5

LEMMA EarlierIsNotLater ==
  ASSUME ContextInv, NEW s \in Seeds, NEW t \in Earlier(s)
  PROVE  s \notin Earlier(t)
<1>1. /\ t \in Seeds
      /\ FirstIn(checkout.trace)[s] \in Nat /\ FirstIn(checkout.trace)[t] \in Nat
  BY FirstInType DEF Earlier
<1> QED
  BY <1>1 DEF Earlier

LEMMA ChoosesLasts ==
  ASSUME checkout' = checkout, NEW me, Chooses(me)
  PROVE  Chooses(me)'
<1>1. Seeds' = Seeds /\ \A s : Earlier(s)' = Earlier(s)
  BY SourcesLast DEF Earlier
<1>2. LeftOut(me)' = LeftOut(me)
  BY DEF LeftOut
<1>3. \A S, f : TooMany(S, f)' = TooMany(S, f)
  BY DEF TooMany
<1>4. SizesAddUp(me)'
  BY DEF Chooses, SizesAddUp
<1>5. LeftOutTooLarge(me)'
  BY <1>2, <1>3 DEF Chooses, LeftOutTooLarge
<1>6. SeedsLead(me)'
  BY <1>1 DEF Chooses, SeedsLead
<1>7. SeedsInOrder(me)'
  BY <1>1 DEF Chooses, SeedsInOrder
<1>8. SeedsFirst(me)'
  BY <1>1, <1>2, <1>3 DEF Chooses, SeedsFirst
<1> QED
  BY <1>4, <1>5, <1>6, <1>7, <1>8 DEF Chooses

LEMMA OneChooses ==
  ASSUME ContextInv, SelectionInv, checkout' = checkout, NEW c \in Calls, NEW new,
         call' = [call EXCEPT ![c] = new], Chooses(new)
  PROVE  SelectionInv'
<1>1. ASSUME NEW d \in Calls PROVE Chooses(call[d])'
  <2>1. PICK me : me = IF d = c THEN new ELSE call[d]
    OBVIOUS
  <2>2. call'[d] = me
    BY <2>1 DEF ContextInv
  <2>3. Chooses(me)
    BY <2>1 DEF SelectionInv
  <2>4. Chooses(me)'
    BY <2>3, ChoosesLasts
  <2> QED
    BY <2>2, <2>4 DEF Chooses, SizesAddUp, LeftOutTooLarge, LeftOut, SeedsLead,
       SeedsInOrder, SeedsFirst
<1> QED
  BY <1>1 DEF SelectionInv

(* The files listed, and with one more.                                    *)
LEMMA ListedFiles ==
  ASSUME ContextInv, NEW me \in Call
  PROVE  /\ ToSet(me.selected) \subseteq Files /\ IsFiniteSet(ToSet(me.selected))
         /\ Cardinality(ToSet(me.selected)) \in Nat
         /\ SizeSum(checkout.size, ToSet(me.selected)) \in Nat
<1>1. me.selected \in Seq(Files)
  BY DEF Call
<1>2. ToSet(me.selected) \subseteq Files
  BY <1>1 DEF ToSet
<1>3. IsFiniteSet(ToSet(me.selected))
  BY <1>2, ContextAssumption, FS_Subset
<1>4. \A f \in ToSet(me.selected) : checkout.size[f] \in Nat
  BY <1>2, ContextAssumption DEF ContextInv
<1>5. PICK S : S = ToSet(me.selected)
  OBVIOUS
<1>6. PICK size : size = checkout.size
  OBVIOUS
<1>7. SizeSum(size, S) \in Nat
  BY <1>3, <1>4, <1>5, <1>6, SumType
<1> QED
  BY <1>2, <1>3, <1>5, <1>6, <1>7, FS_CardinalityType

LEMMA OneFileMore ==
  ASSUME ContextInv, NEW S \in SUBSET Files, NEW f \in Files \ S
  PROVE  /\ Cardinality(S) \in Nat /\ SizeSum(checkout.size, S) \in Nat
         /\ checkout.size[f] \in Nat
         /\ Cardinality(S \cup {f}) = Cardinality(S) + 1
         /\ SizeSum(checkout.size, S \cup {f})
              = SizeSum(checkout.size, S) + checkout.size[f]
<1>1. PICK size, T : size = checkout.size /\ T = S \cup {f}
  OBVIOUS
<1>2. T \subseteq Files /\ f \in T /\ T \ {f} = S
  BY <1>1
<1>3. IsFiniteSet(S) /\ IsFiniteSet(T)
  BY <1>2, ContextAssumption, FS_Subset
<1>4. \A g \in Files : size[g] \in Nat
  BY <1>1, ContextAssumption DEF ContextInv
<1>5. SizeSum(size, S) \in Nat
  BY <1>3, <1>4, SumType
<1>6. \A g \in T : SizeSum(size, T) = size[g] + SizeSum(size, T \ {g})
  <2>1. \A g \in T : size[g] \in Nat
    BY <1>2, <1>4
  <2> QED
    BY <1>3, <2>1, SumOfRest
<1>7. SizeSum(size, T) = size[f] + SizeSum(size, S)
  BY <1>2, <1>6
<1>8. Cardinality(S) \in Nat /\ Cardinality(T) = Cardinality(S) + 1
  BY <1>1, <1>3, FS_CardinalityType, FS_AddElement
<1> QED
  BY <1>1, <1>4, <1>5, <1>7, <1>8

(* A file that does not fit does not fit with more files either.           *)
LEMMA TooManyStays ==
  ASSUME ContextInv, NEW S \in SUBSET Files, NEW f \in Files \ S, NEW g \in Files,
         TooMany(S, g)
  PROVE  TooMany(S \cup {f}, g)
<1>1. PICK n, m, b, d : /\ n = Cardinality(S) /\ m = Cardinality(S \cup {f})
                        /\ b = SizeSum(checkout.size, S)
                        /\ d = SizeSum(checkout.size, S \cup {f})
  OBVIOUS
<1>2. n \in Nat /\ b \in Nat /\ m = n + 1 /\ d = b + checkout.size[f]
  BY <1>1, OneFileMore
<1>3. /\ checkout.size[f] \in Nat /\ checkout.size[g] \in Nat
      /\ MaxFiles \in Nat /\ MaxBytes \in Nat
  BY ContextAssumption DEF ContextInv
<1>4. n >= MaxFiles \/ b + checkout.size[g] > MaxBytes
  BY <1>1 DEF TooMany
<1>5. m >= MaxFiles \/ d + checkout.size[g] > MaxBytes
  BY <1>2, <1>3, <1>4
<1> QED
  BY <1>1, <1>5 DEF TooMany

(* A step that takes and leaves out nothing.                               *)
LEMMA SameChoice ==
  ASSUME NEW me, NEW new, Chooses(me), SeedsLead(new),
         new.selected = me.selected, new.total = me.total,
         new.seen \ checkout.excluded = me.seen \ checkout.excluded
  PROVE  Chooses(new)
<1>1. LeftOut(new) = LeftOut(me)
  BY DEF LeftOut
<1>2. SizesAddUp(new)
  BY DEF Chooses, SizesAddUp
<1>3. LeftOutTooLarge(new)
  BY <1>1 DEF Chooses, LeftOutTooLarge
<1>4. SeedsInOrder(new)
  BY DEF Chooses, SeedsInOrder
<1>5. SeedsFirst(new)
  BY <1>1 DEF Chooses, SeedsFirst
<1> QED
  BY <1>2, <1>3, <1>4, <1>5 DEF Chooses

(* Considering the next candidate keeps the seeds ahead.                   *)
LEMMA SeedsStillLead ==
  ASSUME NEW me \in Call, NEW new, me.at # "idle", SeedsLead(me),
         me.candidates # <<>>, NEW f, f = Head(me.candidates),
         new.candidates = Tail(me.candidates), new.seen = me.seen \cup {f}
  PROVE  SeedsLead(new)
<1>1. PICK list, rest : list = me.candidates /\ rest = Tail(list)
  OBVIOUS
<1>2. list \in Seq(Files) /\ list # <<>>
  BY <1>1 DEF Call
<1>3. /\ DOMAIN list = 1..Len(list) /\ Len(list) \in Nat
      /\ DOMAIN rest = 1..(Len(list) - 1) /\ f = list[1]
      /\ \A i \in 1..(Len(list) - 1) : rest[i] = list[i + 1]
  BY <1>1, <1>2, HeadTailProperties
<1>4. ASSUME NEW s \in Seeds \ new.seen
      PROVE  /\ new.seen \subseteq Earlier(s)
             /\ \E i \in DOMAIN rest :
                  /\ rest[i] = s
                  /\ \A j \in 1..(i - 1) : rest[j] \in Earlier(s)
  <2>1. /\ me.seen \subseteq Earlier(s)
        /\ \E i \in DOMAIN list :
             list[i] = s /\ \A j \in 1..(i - 1) : list[j] \in Earlier(s)
    BY <1>1, <1>4 DEF SeedsLead
  <2>2. PICK i \in DOMAIN list :
          list[i] = s /\ \A j \in 1..(i - 1) : list[j] \in Earlier(s)
    BY <2>1
  <2>3. i \in 2..Len(list)
    <3>1. i # 1
      BY <1>3, <1>4, <2>2
    <3> QED
      BY <1>3, <2>2, <3>1
  <2>4. f \in Earlier(s)
    BY <1>3, <2>2, <2>3
  <2>5. i - 1 \in DOMAIN rest /\ rest[i - 1] = s
    BY <1>3, <2>2, <2>3
  <2>6. ASSUME NEW j \in 1..(i - 2) PROVE rest[j] \in Earlier(s)
    <3>1. j \in 1..(Len(list) - 1) /\ j + 1 \in 1..(i - 1)
      BY <1>3, <2>3, <2>6
    <3> QED
      BY <1>3, <2>2, <3>1
  <2>7. (i - 1) - 1 = i - 2
    BY <2>3
  <2> QED
    BY <2>1, <2>4, <2>5, <2>6, <2>7
<1>5. new.candidates = rest
  BY <1>1
<1>6. \A s \in Seeds \ new.seen :
        /\ new.seen \subseteq Earlier(s)
        /\ \E i \in DOMAIN new.candidates :
             /\ new.candidates[i] = s
             /\ \A j \in 1..(i - 1) : new.candidates[j] \in Earlier(s)
  BY <1>4, <1>5
<1> QED
  BY <1>6 DEF SeedsLead

LEMMA BeginChooses ==
  ASSUME ContextInv, CompleteInv, SelectionInv, checkout' = checkout,
         NEW c \in Calls, Begin(c)
  PROVE  SelectionInv'
<1>1. PICK rank \in Orders, seeds \in Ascending(Seeds, FirstIn(checkout.trace)) :
        Becomes(c, [call[c] EXCEPT !.at = "selecting", !.rank = rank,
                                   !.expand = seeds, !.candidates = seeds])
  BY DEF Begin
<1>2. PICK new : new = [call[c] EXCEPT !.at = "selecting", !.rank = rank,
                                       !.expand = seeds, !.candidates = seeds]
  OBVIOUS
<1>3. call[c] \in Call /\ call' = [call EXCEPT ![c] = new]
  BY <1>1, <1>2 DEF Becomes, ContextInv
<1>4. /\ new.candidates = seeds /\ new.seen = call[c].seen
      /\ new.selected = call[c].selected /\ new.total = call[c].total
  BY <1>2, <1>3 DEF Call
<1>5. Chooses(call[c]) /\ call[c].seen = {}
  BY DEF SelectionInv, CompleteInv, Complete, Begin
<1>6. ToSet(seeds) = Seeds
  BY AscendingElements DEF Seeds
<1>7. \A i, j \in DOMAIN seeds : i < j =>
        FirstIn(checkout.trace)[seeds[i]] < FirstIn(checkout.trace)[seeds[j]]
  BY DEF Ascending
<1>8. seeds \in Seq(Files)
  BY AscendingType DEF Seeds
<1>9. ASSUME NEW s \in Seeds
      PROVE  \E i \in DOMAIN seeds :
               seeds[i] = s /\ \A j \in 1..(i - 1) : seeds[j] \in Earlier(s)
  <2>1. PICK i \in DOMAIN seeds : seeds[i] = s
    BY <1>6 DEF ToSet
  <2>2. DOMAIN seeds = 1..Len(seeds) /\ Len(seeds) \in Nat
    BY <1>8
  <2>3. ASSUME NEW j \in 1..(i - 1) PROVE seeds[j] \in Earlier(s)
    <3>1. j \in DOMAIN seeds /\ j < i
      BY <2>2, <2>3
    <3>2. seeds[j] \in Seeds
      BY <1>6, <3>1 DEF ToSet
    <3> QED
      BY <1>7, <2>1, <3>1, <3>2 DEF Earlier
  <2> QED
    BY <2>1, <2>3
<1>10. SeedsLead(new)
  BY <1>4, <1>5, <1>9 DEF SeedsLead
<1>11. Chooses(new)
  BY <1>4, <1>5, <1>10, SameChoice
<1> QED
  BY <1>3, <1>11, OneChooses

(* Neighbours are put behind the seeds.                                    *)
LEMMA ExpandChooses ==
  ASSUME ContextInv, CompleteInv, SelectionInv, checkout' = checkout,
         NEW c \in Calls, Expand(c)
  PROVE  SelectionInv'
<1>1. PICK me : me = call[c]
  OBVIOUS
<1>2. PICK found \in Neighbours(me.rank, Head(me.expand)) :
        Becomes(c, [me EXCEPT !.expand = Tail(me.expand),
                              !.candidates = me.candidates \o found])
  BY <1>1 DEF Expand
<1>3. PICK new : new = [me EXCEPT !.expand = Tail(me.expand),
                                  !.candidates = me.candidates \o found]
  OBVIOUS
<1>4. me \in Call /\ call' = [call EXCEPT ![c] = new] /\ Chooses(me)
  BY <1>1, <1>2, <1>3 DEF Becomes, ContextInv, SelectionInv
<1>5. /\ new.at = me.at /\ new.candidates = me.candidates \o found
      /\ new.seen = me.seen /\ new.selected = me.selected /\ new.total = me.total
  BY <1>3, <1>4 DEF Call
<1>6. PICK list : list = me.candidates
  OBVIOUS
<1>7. list \in Seq(Files) /\ found \in Seq(Files)
  BY <1>4, <1>6, NeighboursType DEF Call
<1>8. /\ DOMAIN list = 1..Len(list) /\ Len(list) \in Nat
      /\ DOMAIN (list \o found) = 1..(Len(list) + Len(found)) /\ Len(found) \in Nat
      /\ \A i \in 1..Len(list) : (list \o found)[i] = list[i]
  BY <1>7
<1>9. ASSUME NEW s \in Seeds \ me.seen, me.at # "idle"
      PROVE  \E i \in DOMAIN (list \o found) :
               /\ (list \o found)[i] = s
               /\ \A j \in 1..(i - 1) : (list \o found)[j] \in Earlier(s)
  <2>1. PICK i \in DOMAIN list :
          list[i] = s /\ \A j \in 1..(i - 1) : list[j] \in Earlier(s)
    BY <1>4, <1>6, <1>9 DEF Chooses, SeedsLead
  <2>2. i \in DOMAIN (list \o found) /\ (list \o found)[i] = s
    BY <1>8, <2>1
  <2>3. \A j \in 1..(i - 1) : j \in 1..Len(list)
    BY <1>8, <2>1
  <2> QED
    BY <1>8, <2>1, <2>2, <2>3
<1>10. SeedsLead(new)
  BY <1>4, <1>5, <1>6, <1>9 DEF Chooses, SeedsLead
<1>11. Chooses(new)
  BY <1>4, <1>5, <1>10, SameChoice
<1> QED
  BY <1>4, <1>11, OneChooses

LEMMA ReturnChooses ==
  ASSUME ContextInv, CompleteInv, SelectionInv, checkout' = checkout,
         NEW c \in Calls, Return(c)
  PROVE  SelectionInv'
<1>1. PICK me : me = call[c]
  OBVIOUS
<1>2. PICK new : new = [me EXCEPT !.at = "returned"]
  OBVIOUS
<1>3. /\ me \in Call /\ Chooses(me) /\ me.at = "selecting"
      /\ call' = [call EXCEPT ![c] = new]
  BY <1>1, <1>2 DEF Return, Becomes, ContextInv, SelectionInv
<1>4. /\ new.candidates = me.candidates /\ new.seen = me.seen
      /\ new.selected = me.selected /\ new.total = me.total
  BY <1>2, <1>3 DEF Call
<1>5. SeedsLead(new)
  BY <1>3, <1>4 DEF Chooses, SeedsLead
<1>6. Chooses(new)
  BY <1>3, <1>4, <1>5, SameChoice
<1> QED
  BY <1>3, <1>6, OneChooses

LEMMA PassOverChooses ==
  ASSUME ContextInv, CompleteInv, SelectionInv, checkout' = checkout,
         NEW c \in Calls, NEW f \in Files, PassOver(c, f)
  PROVE  SelectionInv'
<1>1. PICK me : me = call[c]
  OBVIOUS
<1>2. PICK new : new = [me EXCEPT !.candidates = Tail(me.candidates),
                                  !.seen = me.seen \cup {f}]
  OBVIOUS
<1>3. me \in Call /\ Chooses(me) /\ me.at # "idle"
  BY <1>1, OneSeen DEF PassOver, SelectionInv
<1>4. /\ call' = [call EXCEPT ![c] = new]
      /\ f \in me.seen \cup checkout.excluded
      /\ me.candidates # <<>> /\ f = Head(me.candidates)
  BY <1>1, <1>2 DEF PassOver, Considers, Becomes
<1>5. /\ new.candidates = Tail(me.candidates) /\ new.seen = me.seen \cup {f}
      /\ new.selected = me.selected /\ new.total = me.total
  BY <1>2, <1>3 DEF Call
<1>6. new.seen \ checkout.excluded = me.seen \ checkout.excluded
  BY <1>4, <1>5
<1>7. SeedsLead(new)
  BY <1>3, <1>4, <1>5, SeedsStillLead DEF Chooses
<1>8. Chooses(new)
  BY <1>3, <1>5, <1>6, <1>7, SameChoice
<1> QED
  BY <1>4, <1>8, OneChooses

(* A file is left out because it does not fit with those listed, and if it *)
(* is a seed, these are all seeds before it.                               *)
LEMMA LeaveOutChooses ==
  ASSUME ContextInv, CompleteInv, SelectionInv, checkout' = checkout,
         NEW c \in Calls, NEW f \in Files, LeaveOut(c, f)
  PROVE  SelectionInv'
<1>1. PICK me : me = call[c]
  OBVIOUS
<1>2. PICK new : new = [me EXCEPT !.candidates = Tail(me.candidates),
                                  !.seen = me.seen \cup {f}, !.truncated = TRUE]
  OBVIOUS
<1>3. me \in Call /\ Chooses(me) /\ Complete(me) /\ me.at # "idle"
  BY <1>1, OneSeen DEF LeaveOut, SelectionInv
<1>4. /\ call' = [call EXCEPT ![c] = new]
      /\ f \notin me.seen \cup checkout.excluded /\ ~Fits(c, f)
      /\ me.candidates # <<>> /\ f = Head(me.candidates)
  BY <1>1, <1>2 DEF LeaveOut, Considers, Becomes
<1>5. /\ new.candidates = Tail(me.candidates) /\ new.seen = me.seen \cup {f}
      /\ new.selected = me.selected /\ new.total = me.total
  BY <1>2, <1>3 DEF Call
<1>6. PICK S : S = ToSet(me.selected)
  OBVIOUS
<1>7. TooMany(S, f)
  <2>1. /\ Len(me.selected) \in Nat /\ me.total \in Nat /\ checkout.size[f] \in Nat
        /\ MaxFiles \in Nat /\ MaxBytes \in Nat
    BY <1>3, ContextAssumption DEF ContextInv, Call
  <2>2. Len(me.selected) >= MaxFiles \/ me.total + checkout.size[f] > MaxBytes
    BY <1>1, <1>4, <2>1 DEF Fits
  <2>3. Len(me.selected) = Cardinality(S) /\ me.total = SizeSum(checkout.size, S)
    BY <1>3, <1>6 DEF Chooses, SizesAddUp
  <2> QED
    BY <2>2, <2>3 DEF TooMany
<1>8. LeftOut(new) \subseteq LeftOut(me) \cup {f}
  BY <1>5 DEF LeftOut
<1>9. SizesAddUp(new)
  BY <1>3, <1>5 DEF Chooses, SizesAddUp
<1>10. LeftOutTooLarge(new)
  BY <1>3, <1>5, <1>6, <1>7, <1>8 DEF Chooses, LeftOutTooLarge
<1>11. SeedsLead(new)
  BY <1>3, <1>4, <1>5, SeedsStillLead DEF Chooses
<1>12. SeedsInOrder(new)
  BY <1>3, <1>5 DEF Chooses, SeedsInOrder
<1>13. f \in Seeds => S \cap Earlier(f) = S
  <2>1. S \subseteq me.seen
    BY <1>3, <1>6 DEF Complete
  <2>2. f \in Seeds => me.seen \subseteq Earlier(f)
    BY <1>3, <1>4 DEF Chooses, SeedsLead
  <2> QED
    BY <2>1, <2>2
<1>14. SeedsFirst(new)
  <2>1. \A s \in LeftOut(me) \cap Seeds : TooMany(S \cap Earlier(s), s)
    BY <1>3, <1>6 DEF Chooses, SeedsFirst
  <2>2. \A s \in LeftOut(new) \cap Seeds : TooMany(S \cap Earlier(s), s)
    BY <1>7, <1>8, <1>13, <2>1
  <2> QED
    BY <1>5, <1>6, <2>2 DEF SeedsFirst
<1>15. Chooses(new)
  BY <1>9, <1>10, <1>11, <1>12, <1>14 DEF Chooses
<1> QED
  BY <1>4, <1>15, OneChooses

(* A file taken is counted; if it is a seed, all files listed are seeds    *)
(* before it, and no seed left out comes after it.                         *)
LEMMA TakeChooses ==
  ASSUME ContextInv, CompleteInv, SelectionInv, checkout' = checkout,
         NEW c \in Calls, NEW f \in Files, Take(c, f)
  PROVE  SelectionInv'
<1>1. PICK me : me = call[c]
  OBVIOUS
<1>2. PICK new : new = [me EXCEPT !.candidates = Tail(me.candidates),
                                  !.seen = me.seen \cup {f},
                                  !.selected = Append(me.selected, f),
                                  !.total = me.total + checkout.size[f]]
  OBVIOUS
<1>3. me \in Call /\ Chooses(me) /\ Complete(me) /\ me.at # "idle"
  BY <1>1, OneSeen DEF Take, SelectionInv
<1>4. /\ call' = [call EXCEPT ![c] = new]
      /\ f \notin me.seen \cup checkout.excluded
      /\ me.candidates # <<>> /\ f = Head(me.candidates)
  BY <1>1, <1>2 DEF Take, Considers, Becomes
<1>5. /\ new.candidates = Tail(me.candidates) /\ new.seen = me.seen \cup {f}
      /\ new.selected = Append(me.selected, f)
      /\ new.total = me.total + checkout.size[f]
  BY <1>2, <1>3 DEF Call
<1>6. PICK list, S : list = me.selected /\ S = ToSet(list)
  OBVIOUS
<1>7. list \in Seq(Files) /\ S \subseteq Files /\ S \subseteq me.seen
  BY <1>3, <1>6, ListedFiles DEF Call, Complete
<1>8. /\ new.selected = Append(list, f) /\ ToSet(new.selected) = S \cup {f}
  BY <1>5, <1>6, <1>7, ElementsAppended
<1>9. f \in Files \ S /\ f \notin me.seen
  BY <1>4, <1>7
<1>10. SizesAddUp(new)
  <2>1. Len(list) = Cardinality(S) /\ me.total = SizeSum(checkout.size, S)
    BY <1>3, <1>6 DEF Chooses, SizesAddUp
  <2>2. /\ Cardinality(S \cup {f}) = Cardinality(S) + 1
        /\ SizeSum(checkout.size, S \cup {f}) = SizeSum(checkout.size, S) + checkout.size[f]
    BY <1>7, <1>9, OneFileMore
  <2>3. Len(Append(list, f)) = Len(list) + 1
    BY <1>7
  <2> QED
    BY <1>5, <1>8, <2>1, <2>2, <2>3 DEF SizesAddUp
<1>11. LeftOut(new) \subseteq LeftOut(me)
  BY <1>5, <1>6, <1>8 DEF LeftOut
<1>12. LeftOutTooLarge(new)
  <2>1. ASSUME NEW g \in LeftOut(new) PROVE TooMany(S \cup {f}, g)
    <3>1. g \in LeftOut(me) /\ g \in Files
      BY <1>3, <1>11 DEF LeftOut, Call
    <3>2. TooMany(S, g)
      BY <1>3, <1>6, <3>1 DEF Chooses, LeftOutTooLarge
    <3> QED
      BY <1>7, <1>9, <3>1, <3>2, TooManyStays
  <2> QED
    BY <1>8, <2>1 DEF LeftOutTooLarge
<1>13. SeedsLead(new)
  BY <1>3, <1>4, <1>5, SeedsStillLead DEF Chooses
<1>14. SeedsInOrder(new)
  <2>1. /\ DOMAIN new.selected = 1..(Len(list) + 1) /\ Len(list) \in Nat
        /\ DOMAIN list = 1..Len(list)
        /\ \A i \in 1..Len(list) : new.selected[i] = list[i]
        /\ new.selected[Len(list) + 1] = f
    BY <1>7, <1>8
  <2>2. ASSUME NEW i \in DOMAIN new.selected, NEW j \in DOMAIN new.selected,
               i < j, new.selected[j] \in Seeds
        PROVE  new.selected[i] \in Earlier(new.selected[j])
    <3>1. i \in 1..Len(list) /\ new.selected[i] = list[i]
      BY <2>1, <2>2
    <3>2. CASE j \in 1..Len(list)
      <4>1. new.selected[j] = list[j] /\ i \in DOMAIN list /\ j \in DOMAIN list
        BY <2>1, <3>1, <3>2
      <4>2. list[j] \in Seeds => list[i] \in Earlier(list[j])
        BY <1>3, <1>6, <2>2, <4>1 DEF Chooses, SeedsInOrder
      <4> QED
        BY <2>2, <3>1, <4>1, <4>2
    <3>3. CASE j \notin 1..Len(list)
      <4>1. new.selected[j] = f
        BY <2>1, <3>3
      <4>2. me.seen \subseteq Earlier(f)
        BY <1>3, <1>9, <2>2, <4>1 DEF Chooses, SeedsLead
      <4>3. list[i] \in S
        BY <1>6, <2>1, <3>1 DEF ToSet
      <4> QED
        BY <1>7, <3>1, <4>1, <4>2, <4>3
    <3> QED
      BY <3>2, <3>3
  <2> QED
    BY <2>2 DEF SeedsInOrder
<1>15. SeedsFirst(new)
  <2>1. ASSUME NEW s \in LeftOut(new) \cap Seeds
        PROVE  TooMany((S \cup {f}) \cap Earlier(s), s)
    <3>1. s \in LeftOut(me) /\ s \in me.seen
      BY <1>11, <2>1 DEF LeftOut
    <3>2. f \notin Earlier(s)
      <4>1. CASE f \in Seeds
        <5>1. s \in Earlier(f)
          BY <1>3, <1>9, <3>1, <4>1 DEF Chooses, SeedsLead
        <5> QED
          BY <4>1, <5>1, EarlierIsNotLater
      <4>2. CASE f \notin Seeds
        BY <4>2 DEF Earlier
      <4> QED
        BY <4>1, <4>2
    <3>3. (S \cup {f}) \cap Earlier(s) = S \cap Earlier(s)
      BY <3>2
    <3>4. TooMany(S \cap Earlier(s), s)
      BY <1>3, <1>6, <2>1, <3>1 DEF Chooses, SeedsFirst
    <3> QED
      BY <3>3, <3>4
  <2> QED
    BY <1>8, <2>1 DEF SeedsFirst
<1>16. Chooses(new)
  BY <1>10, <1>12, <1>13, <1>14, <1>15 DEF Chooses
<1> QED
  BY <1>4, <1>16, OneChooses

LEMMA SelectionInvInit == Init => SelectionInv
<1> SUFFICES ASSUME Init, NEW c \in Calls PROVE Chooses(call[c])
  BY DEF SelectionInv
<1>1. PICK me : me = call[c]
  OBVIOUS
<1>2. me.at = "idle" /\ me.seen = {} /\ me.selected = <<>> /\ me.total = 0
  BY <1>1 DEF Init, NoCall
<1>3. ToSet(<<>>) = {} /\ Len(<<>>) = 0 /\ DOMAIN <<>> = {}
  BY DEF ToSet
<1>4. SizesAddUp(me)
  <2>1. IsFiniteSet({}) /\ Cardinality({}) = 0
    BY FS_EmptySet
  <2>2. SizeSum(checkout.size, {}) = 0
    BY <2>1, SumStep
  <2> QED
    BY <1>2, <1>3, <2>1, <2>2 DEF SizesAddUp
<1>5. LeftOutTooLarge(me) /\ SeedsFirst(me)
  BY <1>2 DEF LeftOut, LeftOutTooLarge, SeedsFirst
<1>6. SeedsLead(me)
  BY <1>2 DEF SeedsLead
<1>7. SeedsInOrder(me)
  BY <1>2, <1>3 DEF SeedsInOrder
<1> QED
  BY <1>1, <1>4, <1>5, <1>6, <1>7 DEF Chooses

LEMMA SelectionInvNext ==
  ContextInv /\ CompleteInv /\ SelectionInv /\ [Next]_vars => SelectionInv'
<1> SUFFICES ASSUME ContextInv, CompleteInv, SelectionInv, [Next]_vars
             PROVE  SelectionInv'
  OBVIOUS
<1>1. CASE Next
  <2>1. PICK c \in Calls :
          \/ Begin(c) \/ Expand(c) \/ Return(c)
          \/ \E f \in Files : PassOver(c, f) \/ LeaveOut(c, f) \/ Take(c, f)
    BY <1>1 DEF Next
  <2>2. checkout' = checkout
    BY <1>1 DEF Next
  <2> QED
    BY <2>1, <2>2, BeginChooses, ExpandChooses, ReturnChooses,
       PassOverChooses, LeaveOutChooses, TakeChooses
<1>2. CASE UNCHANGED vars
  <2>1. call' = call /\ checkout' = checkout
    BY <1>2 DEF vars
  <2>2. ASSUME NEW c \in Calls PROVE Chooses(call[c])'
    <3>1. PICK me : me = call[c]
      OBVIOUS
    <3>2. Chooses(me)'
      BY <2>1, <3>1, ChoosesLasts DEF SelectionInv
    <3> QED
      BY <2>1, <3>1, <3>2 DEF Chooses, SizesAddUp, LeftOutTooLarge, LeftOut,
         SeedsLead, SeedsInOrder, SeedsFirst
  <2> QED
    BY <2>2 DEF SelectionInv
<1> QED
  BY <1>1, <1>2

(* Whatever the checkout, the order of iteration and the budgets: what is  *)
(* counted is what is listed, what is left out does not fit, and the seeds *)
(* are considered before all else.                                         *)
THEOREM SelectionInvariant == Spec => []SelectionInv
BY ContextInvariant, NothingForgotten, SelectionInvInit, SelectionInvNext, PTL DEF Spec

-----------------------------------------------------------------------------
(* What this says of a call that has returned.                             *)
LEMMA EligibleIsSeen ==
  ASSUME CompleteInv, NEW c \in Calls, Returned(c)
  PROVE  Eligible(c) \ Chosen(c) = LeftOut(call[c])
<1>1. Complete(call[c]) /\ call[c].at = "returned"
  BY DEF CompleteInv, Returned
<1>2. ToSet(<<>>) = {} /\ AroundAll(call[c].rank, {}) = {}
  BY DEF ToSet, AroundAll
<1>3. call[c].seen = Sources(call[c].rank)
  BY <1>1, <1>2 DEF Complete
<1>4. Eligible(c) = Sources(call[c].rank) \ checkout.excluded
  BY DEF Eligible, Sources, AroundAll, Around
<1> QED
  BY <1>3, <1>4 DEF LeftOut, Chosen

LEMMA BytesAreSum == ASSUME NEW S PROVE Bytes(S) = SizeSum(checkout.size, S)
BY DEF Bytes, SizeSum

LEMMA SelectionIsFull == CompleteInv /\ SelectionInv => LeftOutDoesNotFit
<1> SUFFICES ASSUME CompleteInv, SelectionInv, NEW c \in Calls, Returned(c),
                    NEW f \in Eligible(c) \ Chosen(c)
             PROVE  \/ Cardinality(Chosen(c)) >= MaxFiles
                    \/ Bytes(Chosen(c)) + checkout.size[f] > MaxBytes
  BY DEF LeftOutDoesNotFit
<1>1. f \in LeftOut(call[c])
  BY EligibleIsSeen
<1>2. TooMany(Chosen(c), f)
  BY <1>1 DEF SelectionInv, Chooses, LeftOutTooLarge, Chosen
<1> QED
  BY <1>2, BytesAreSum DEF TooMany

LEMMA SelectionLeads == CompleteInv /\ SelectionInv => FailingFilesFirst
<1> SUFFICES ASSUME CompleteInv, SelectionInv, NEW c \in Calls, Returned(c)
             PROVE  LET first == FirstIn(checkout.trace)
                        before(s) == {f \in Chosen(c) \cap Seeds : first[f] < first[s]}
                    IN  /\ \A i, j \in DOMAIN call[c].selected :
                             i < j /\ call[c].selected[j] \in Seeds =>
                               call[c].selected[i] \in before(call[c].selected[j])
                        /\ \A s \in (Seeds \cap Eligible(c)) \ Chosen(c) :
                             \/ Cardinality(before(s)) >= MaxFiles
                             \/ Bytes(before(s)) + checkout.size[s] > MaxBytes
  BY DEF FailingFilesFirst
<1> DEFINE first == FirstIn(checkout.trace)
           before(s) == {f \in Chosen(c) \cap Seeds : first[f] < first[s]}
<1>1. ASSUME NEW s PROVE before(s) = Chosen(c) \cap Earlier(s)
  BY DEF Earlier
<1>2. Chooses(call[c]) /\ Chosen(c) = ToSet(call[c].selected)
  BY DEF SelectionInv, Chosen
<1> HIDE DEF before
<1>3. ASSUME NEW i \in DOMAIN call[c].selected, NEW j \in DOMAIN call[c].selected,
             i < j, call[c].selected[j] \in Seeds
      PROVE  call[c].selected[i] \in before(call[c].selected[j])
  <2>1. call[c].selected[i] \in Earlier(call[c].selected[j])
    BY <1>2, <1>3 DEF Chooses, SeedsInOrder
  <2>2. call[c].selected[i] \in Chosen(c)
    BY <1>2 DEF ToSet
  <2> QED
    BY <1>1, <2>1, <2>2
<1>4. ASSUME NEW s \in (Seeds \cap Eligible(c)) \ Chosen(c)
      PROVE  \/ Cardinality(before(s)) >= MaxFiles
             \/ Bytes(before(s)) + checkout.size[s] > MaxBytes
  <2>1. s \in LeftOut(call[c]) \cap Seeds
    BY <1>4, EligibleIsSeen
  <2>2. TooMany(before(s), s)
    BY <1>1, <1>2, <2>1 DEF Chooses, SeedsFirst
  <2> QED
    BY <2>2, BytesAreSum DEF TooMany
<1> QED
  BY <1>3, <1>4 DEF before

(* Nothing is left out of a selection that would still fit (context.py:    *)
(* 78-83).                                                                 *)
THEOREM SelectionFull == Spec => []LeftOutDoesNotFit
BY NothingForgotten, SelectionInvariant, SelectionIsFull, PTL

(* The failing files come first, and no other file takes their place in    *)
(* the budget (context.py:48).                                             *)
THEOREM FailingFilesLead == Spec => []FailingFilesFirst
BY NothingForgotten, SelectionInvariant, SelectionLeads, PTL

-----------------------------------------------------------------------------
(* A request while another worker may still write to the worktree.         *)

(* A call makes its request once it has returned, and changes no more: the *)
(* files read so far are the first ones listed, and all of them once the   *)
(* repairer is asked.                                                      *)
Requested(me, req) ==
  /\ req \in [at : {"reading", "asking", "answered", "raised"},
               next : Nat, files : Seq(Files), bytes : Nat]
  /\ me.at # "selecting" => me.expand = <<>> /\ me.candidates = <<>>
  /\ me.at # "returned" => req = NoRequest
  /\ req.at = "reading" =>
       /\ req.next \in 1..(Len(me.selected) + 1)
       /\ Len(req.files) = req.next - 1
       /\ \A i \in 1..(req.next - 1) : req.files[i] = me.selected[i]
  /\ req.at \in {"asking", "answered"} => req.files = me.selected

RequestInv ==
  /\ ContextInv
  /\ DOMAIN request = Calls
  /\ \A c \in Calls : Requested(call[c], request[c])

LEMMA RequestInvInit == RequestInit => RequestInv
<1> SUFFICES ASSUME RequestInit PROVE RequestInv
  OBVIOUS
<1>1. ContextInv
  BY ContextInvInit DEF RequestInit
<1>2. DOMAIN request = Calls
  BY DEF RequestInit
<1>3. ASSUME NEW c \in Calls PROVE Requested(call[c], request[c])
  <2>1. call[c] = NoCall /\ request[c] = NoRequest
    BY DEF RequestInit, Init
  <2>2. <<>> \in Seq(Files) /\ Len(<<>>) = 0
    OBVIOUS
  <2> QED
    BY <2>1, <2>2 DEF Requested, NoCall, NoRequest
<1> QED
  BY <1>1, <1>2, <1>3 DEF RequestInv

(* As long as nobody else has written to the worktree, the sizes that a    *)
(* selection counted are those of its files.                               *)
QuietInv == stalled => CompleteInv /\ SelectionInv

(* A step of a selection: the call has made no request yet.                *)
LEMMA SelectionKeepsRequest ==
  ASSUME RequestInv, Next, UNCHANGED <<request, stalled>>
  PROVE  RequestInv'
<1>1. ContextInv'
  BY ContextInvNext DEF RequestInv
<1>2. PICK c \in Calls :
        \/ Begin(c) \/ Expand(c) \/ Return(c)
        \/ \E f \in Files : PassOver(c, f) \/ LeaveOut(c, f) \/ Take(c, f)
  BY DEF Next
<1>3. /\ call \in [Calls -> Call] /\ call[c] \in Call
      /\ Requested(call[c], request[c])
  BY DEF RequestInv, ContextInv
<1>4. /\ call[c].at # "returned"
      /\ \E new : /\ call' = [call EXCEPT ![c] = new]
                  /\ new.at # "selecting" => new.expand = <<>> /\ new.candidates = <<>>
  <2>1. CASE Begin(c)
    <3>1. PICK rank \in Orders, seeds \in Ascending(Seeds, FirstIn(checkout.trace)) :
            Becomes(c, [call[c] EXCEPT !.at = "selecting", !.rank = rank,
                                       !.expand = seeds, !.candidates = seeds])
      BY <2>1 DEF Begin
    <3>2. PICK new : new = [call[c] EXCEPT !.at = "selecting", !.rank = rank,
                                           !.expand = seeds, !.candidates = seeds]
      OBVIOUS
    <3>3. call' = [call EXCEPT ![c] = new]
      BY <3>1, <3>2 DEF Becomes
    <3>4. new.at = "selecting"
      BY <1>3, <3>2 DEF Call
    <3>5. call[c].at # "returned" /\ ~(new.at # "selecting")
      BY <2>1, <3>4 DEF Begin
    <3> QED
      BY <3>3, <3>5
  <2>2. CASE Expand(c)
    <3>1. call[c].at = "selecting"
      BY <1>3, <2>2 DEF Expand, Requested, Call
    <3>2. PICK found \in Neighbours(call[c].rank, Head(call[c].expand)) :
            Becomes(c, [call[c] EXCEPT !.expand = Tail(call[c].expand),
                                       !.candidates = call[c].candidates \o found])
      BY <2>2 DEF Expand
    <3>3. PICK new : new = [call[c] EXCEPT !.expand = Tail(call[c].expand),
                                           !.candidates = call[c].candidates \o found]
      OBVIOUS
    <3>4. call' = [call EXCEPT ![c] = new]
      BY <3>2, <3>3 DEF Becomes
    <3>5. new.at = "selecting"
      BY <1>3, <3>1, <3>3 DEF Call
    <3>6. call[c].at # "returned" /\ ~(new.at # "selecting")
      BY <3>1, <3>5
    <3> QED
      BY <3>4, <3>6
  <2>3. CASE Return(c)
    <3>1. PICK new : new = [call[c] EXCEPT !.at = "returned"]
      OBVIOUS
    <3>2. call' = [call EXCEPT ![c] = new] /\ call[c].at = "selecting"
      BY <2>3, <3>1 DEF Return, Becomes
    <3>3. new.expand = <<>> /\ new.candidates = <<>>
      BY <1>3, <2>3, <3>1 DEF Return, Call
    <3> QED
      BY <3>2, <3>3
  <2>4. ASSUME NEW f \in Files, PassOver(c, f) \/ LeaveOut(c, f) \/ Take(c, f)
        PROVE  /\ call[c].at # "returned"
               /\ \E new : /\ call' = [call EXCEPT ![c] = new]
                           /\ new.at # "selecting" => new.expand = <<>> /\ new.candidates = <<>>
    <3>1. call[c].at = "selecting"
      BY <1>3, <2>4 DEF PassOver, LeaveOut, Take, Considers, Requested, Call
    <3>2. CASE PassOver(c, f)
      <4>1. PICK new : new = [call[c] EXCEPT !.candidates = Tail(call[c].candidates),
                                             !.seen = call[c].seen \cup {f}]
        OBVIOUS
      <4>2. call' = [call EXCEPT ![c] = new]
        BY <3>2, <4>1 DEF PassOver, Becomes
      <4>3. new.expand = call[c].expand /\ new.at = "selecting"
        BY <1>3, <3>1, <4>1 DEF Call
      <4>4. call[c].at # "returned" /\ ~(new.at # "selecting")
        BY <3>1, <4>3
      <4> QED
        BY <4>2, <4>4
    <3>3. CASE LeaveOut(c, f)
      <4>1. PICK new : new = [call[c] EXCEPT !.candidates = Tail(call[c].candidates),
                                             !.seen = call[c].seen \cup {f}, !.truncated = TRUE]
        OBVIOUS
      <4>2. call' = [call EXCEPT ![c] = new]
        BY <3>3, <4>1 DEF LeaveOut, Becomes
      <4>3. new.expand = call[c].expand /\ new.at = "selecting"
        BY <1>3, <3>1, <4>1 DEF Call
      <4>4. call[c].at # "returned" /\ ~(new.at # "selecting")
        BY <3>1, <4>3
      <4> QED
        BY <4>2, <4>4
    <3>4. CASE Take(c, f)
      <4>1. PICK new : new = [call[c] EXCEPT !.candidates = Tail(call[c].candidates),
                                             !.seen = call[c].seen \cup {f},
                                             !.selected = Append(call[c].selected, f),
                                             !.total = call[c].total + checkout.size[f]]
        OBVIOUS
      <4>2. call' = [call EXCEPT ![c] = new]
        BY <3>4, <4>1 DEF Take, Becomes
      <4>3. new.expand = call[c].expand /\ new.at = "selecting"
        BY <1>3, <3>1, <4>1 DEF Call
      <4>4. call[c].at # "returned" /\ ~(new.at # "selecting")
        BY <3>1, <4>3
      <4> QED
        BY <4>2, <4>4
    <3> QED
      BY <2>4, <3>2, <3>3, <3>4
  <2> QED
    BY <1>2, <2>1, <2>2, <2>3, <2>4
<1>5. PICK new : /\ call' = [call EXCEPT ![c] = new]
                 /\ new.at # "selecting" => new.expand = <<>> /\ new.candidates = <<>>
  BY <1>4
<1>6. request[c] = NoRequest
  BY <1>3, <1>4 DEF Requested
<1>7. ASSUME NEW d \in Calls PROVE Requested(call[d], request[d])'
  <2>1. CASE d = c
    <3>1. call'[d] = new /\ new \in Call
      BY <1>1, <1>3, <1>5, <2>1 DEF ContextInv
    <3>2. <<>> \in Seq(Files) /\ Len(<<>>) = 0 /\ Len(new.selected) \in Nat
      BY <3>1 DEF Call
    <3>3. request'[d] = NoRequest
      BY <1>6, <2>1
    <3>4. Requested(new, NoRequest)
      BY <1>5, <3>2 DEF Requested, NoRequest
    <3> QED
      BY <3>1, <3>3, <3>4
  <2>2. CASE d # c
    <3>1. call'[d] = call[d] /\ request'[d] = request[d]
      BY <1>3, <1>5, <2>2
    <3> QED
      BY <3>1 DEF RequestInv
  <2> QED
    BY <2>1, <2>2
<1> QED
  BY <1>1, <1>7 DEF RequestInv

(* A step of a request: the selection it reads from has returned.          *)
LEMMA ProposeKeepsRequest ==
  ASSUME RequestInv, NEW c \in Calls, Propose(c), UNCHANGED <<checkout, call, stalled>>
  PROVE  RequestInv'
<1>1. PICK me, req : me = call[c] /\ req = request[c]
  OBVIOUS
<1>2. Requested(me, req) /\ me \in Call
  BY <1>1 DEF RequestInv, ContextInv
<1>3. Len(me.selected) \in Nat /\ me.selected \in Seq(Files)
  BY <1>2 DEF Call
<1>4. \E new : request' = [request EXCEPT ![c] = new] /\ Requested(me, new)
  <2>1. CASE ReadContextFile(c)
    <3>1. /\ me.at = "returned" /\ req.at = "reading" /\ req.next <= Len(me.selected)
          /\ Sets(c, WithContent(c))
      BY <1>1, <2>1 DEF ReadContextFile, Reads, Returned
    <3>2. PICK f : f = me.selected[req.next]
      OBVIOUS
    <3>3. PICK new : new = [req EXCEPT !.next = @ + 1, !.files = Append(@, f),
                                       !.bytes = @ + checkout.size[f]]
      OBVIOUS
    <3>4. request' = [request EXCEPT ![c] = new]
      BY <1>1, <3>1, <3>2, <3>3 DEF Sets, WithContent
    <3>5. /\ req.next \in 1..Len(me.selected) /\ req.files \in Seq(Files)
          /\ Len(req.files) = req.next - 1 /\ req.next \in Nat /\ req.bytes \in Nat
          /\ \A i \in 1..(req.next - 1) : req.files[i] = me.selected[i]
      BY <1>2, <1>3, <3>1 DEF Requested
    <3>6. f \in Files /\ checkout.size[f] \in Nat
      BY <1>3, <3>2, <3>5, ContextAssumption DEF RequestInv, ContextInv
    <3>7. PICK files : files = Append(req.files, f)
      OBVIOUS
    <3>8. /\ files \in Seq(Files) /\ Len(files) = req.next
          /\ \A i \in 1..(req.next - 1) : files[i] = req.files[i]
          /\ files[req.next] = f
      BY <3>5, <3>6, <3>7
    <3>9. /\ new.at = "reading" /\ new.next = req.next + 1 /\ new.files = files
          /\ new \in [at : {"reading", "asking", "answered", "raised"},
                      next : Nat, files : Seq(Files), bytes : Nat]
      <4>1. PICK bytes : bytes = req.bytes + checkout.size[f]
        OBVIOUS
      <4>2. bytes \in Nat /\ req.next + 1 \in Nat
        BY <3>5, <3>6, <4>1
      <4>3. new = [req EXCEPT !.next = req.next + 1, !.files = files, !.bytes = bytes]
        BY <3>3, <3>7, <4>1
      <4>4. req \in [at : {"reading", "asking", "answered", "raised"},
                    next : Nat, files : Seq(Files), bytes : Nat]
        BY <1>2 DEF Requested
      <4> QED
        BY <3>1, <3>8, <4>2, <4>3, <4>4
    <3>10. \A i \in 1..req.next : files[i] = me.selected[i]
      BY <3>2, <3>5, <3>8
    <3>11. new.next - 1 = req.next /\ new.next \in 1..(Len(me.selected) + 1)
      BY <1>3, <3>5, <3>9
    <3>12. Requested(me, new)
      BY <1>2, <3>1, <3>8, <3>9, <3>10, <3>11 DEF Requested
    <3> QED
      BY <3>4, <3>12
  <2>2. CASE Ask(c)
    <3>1. /\ me.at = "returned" /\ req.at = "reading"
          /\ req.next = Len(me.selected) + 1
          /\ request' = [request EXCEPT ![c] = [req EXCEPT !.at = "asking"]]
      BY <1>1, <2>2 DEF Ask, Returned, Sets
    <3>2. /\ req.files \in Seq(Files) /\ Len(req.files) = Len(me.selected)
          /\ \A i \in 1..Len(me.selected) : req.files[i] = me.selected[i]
      BY <1>2, <1>3, <3>1 DEF Requested
    <3>3. req.files = me.selected
      BY <1>3, <3>2, SeqEqual
    <3>4. Requested(me, [req EXCEPT !.at = "asking"])
      BY <1>2, <3>1, <3>3 DEF Requested
    <3> QED
      BY <3>1, <3>4
  <2>3. CASE TakeAnswer(c)
    <3>1. req.at = "asking" /\ me.at = "returned"
      BY <1>1, <1>2, <2>3 DEF TakeAnswer, Requested, NoRequest
    <3>2. PICK to \in {"answered", "raised"} :
            request' = [request EXCEPT ![c] = [req EXCEPT !.at = to]]
      BY <1>1, <2>3 DEF TakeAnswer, Sets
    <3>3. Requested(me, [req EXCEPT !.at = to])
      BY <1>2, <3>1 DEF Requested
    <3> QED
      BY <3>2, <3>3
  <2>4. CASE Raises(c)
    <3>1. /\ me.at = "returned"
          /\ request' = [request EXCEPT ![c] = [req EXCEPT !.at = "raised"]]
      BY <1>1, <2>4 DEF Raises, Returned, Sets
    <3>2. Requested(me, [req EXCEPT !.at = "raised"])
      BY <1>2, <3>1 DEF Requested
    <3> QED
      BY <3>1, <3>2
  <2> QED
    BY <2>1, <2>2, <2>3, <2>4 DEF Propose
<1>5. ContextInv'
  BY DEF RequestInv, ContextInv, Listed
<1>6. ASSUME NEW d \in Calls PROVE Requested(call[d], request[d])'
  <2>1. PICK new : request' = [request EXCEPT ![c] = new] /\ Requested(me, new)
    BY <1>4
  <2>2. request'[d] = IF d = c THEN new ELSE request[d]
    BY <2>1 DEF RequestInv
  <2> QED
    BY <1>1, <2>1, <2>2 DEF RequestInv
<1> QED
  BY <1>4, <1>5, <1>6 DEF RequestInv

(* A patch that reaches the worktree touches no protected file: what was   *)
(* not withheld when it was listed is not withheld now.                    *)
LEMMA DisturbKeepsRequest ==
  ASSUME RequestInv, Disturb, UNCHANGED <<call, request>>
  PROVE  RequestInv'
<1>1. checkout \in Checkouts /\ checkout' \in Patched[checkout]
  BY DEF RequestInv, ContextInv, Disturb
<1>2. checkout' \in Checkouts /\ checkout'.excluded = checkout.excluded
  BY <1>1, RequestAssumption
<1>3. ContextInv'
  BY <1>2 DEF RequestInv, ContextInv, Listed
<1> QED
  BY <1>3 DEF RequestInv

LEMMA RequestInvNext == RequestInv /\ [RequestNext]_requestVars => RequestInv'
<1> SUFFICES ASSUME RequestInv, [RequestNext]_requestVars PROVE RequestInv'
  OBVIOUS
<1>1. CASE Next /\ UNCHANGED <<request, stalled>>
  BY <1>1, SelectionKeepsRequest
<1>2. CASE \E c \in Calls : Propose(c) /\ UNCHANGED <<checkout, call, stalled>>
  BY <1>2, ProposeKeepsRequest
<1>3. CASE Disturb /\ UNCHANGED <<call, request>>
  BY <1>3, DisturbKeepsRequest
<1>4. CASE UNCHANGED requestVars
  BY <1>4 DEF requestVars, RequestInv, ContextInv, Listed
<1> QED
  BY <1>1, <1>2, <1>3, <1>4 DEF RequestNext

(* The invariant holds of every request, whatever happens to the files     *)
(* between their selection and their reading.                              *)
THEOREM RequestInvariant == RequestSpec => []RequestInv
BY RequestInvInit, RequestInvNext, PTL DEF RequestSpec

(* The budgets of the selection hold, and no protected file is in it, even *)
(* if another worker's patch changes the worktree at any moment            *)
(* (context.py:72-83).                                                     *)
THEOREM RequestContextBounded == RequestSpec => []ContextBounded
<1>1. RequestInv => ContextBounded
  BY DEF RequestInv, ContextInv, Listed, ContextBounded
<1> QED
  BY <1>1, RequestInvariant, PTL

(* The repairer is sent the content of exactly the files that the audit    *)
(* event lists as its context, in their order, and of no file withheld     *)
(* from it (repairers.py:28-46, pipeline.py:91).                           *)
THEOREM EvidenceIsRequest == RequestSpec => []EvidenceNamesRequest
<1>1. RequestInv => EvidenceNamesRequest
  <2> SUFFICES ASSUME RequestInv, NEW c \in Calls,
                      request[c].at \in {"asking", "answered"}
               PROVE  /\ request[c].files = call[c].selected
                      /\ ToSet(request[c].files) \cap checkout.excluded = {}
    BY DEF EvidenceNamesRequest
  <2>1. request[c].files = call[c].selected
    BY DEF RequestInv, Requested
  <2>2. \A i \in DOMAIN call[c].selected : call[c].selected[i] \notin checkout.excluded
    BY DEF RequestInv, ContextInv, Listed
  <2> QED
    BY <2>1, <2>2 DEF ToSet
<1> QED
  BY <1>1, RequestInvariant, PTL

(* Until a stalled worker's patch reaches the worktree, a selection is as  *)
(* complete and as full as one that is alone with it.                      *)
LEMMA QuietInvariant == RequestSpec => []QuietInv
<1>1. RequestInit => QuietInv
  BY CompleteInvInit, SelectionInvInit DEF RequestInit, QuietInv
<1>2. ASSUME RequestInv, QuietInv, [RequestNext]_requestVars PROVE QuietInv'
  <2>1. CASE Disturb
    BY <2>1 DEF Disturb, QuietInv
  <2>2. CASE ~Disturb
    <3>1. [Next]_vars /\ stalled' = stalled
      BY <1>2, <2>2 DEF RequestNext, requestVars, vars
    <3> QED
      BY <1>2, <3>1, CompleteInvNext, SelectionInvNext DEF RequestInv, QuietInv
  <2> QED
    BY <2>1, <2>2
<1> QED
  BY <1>1, <1>2, RequestInvariant, PTL DEF RequestSpec

(* As long as nobody else writes to the worktree, the manifest of a        *)
(* request says truly whether it is all there is (context.py:62-83).       *)
THEOREM QuietManifestSaysTruth == RequestSpec => [](stalled => TruncatedMeansLeftOut)
<1>1. QuietInv => (stalled => TruncatedMeansLeftOut)
  BY CompleteIsTruth DEF QuietInv
<1> QED
  BY <1>1, QuietInvariant, PTL

(* As long as nobody else writes to the worktree, nothing is left out of   *)
(* the context that would still fit (context.py:78-83), by the true sizes  *)
(* of the files listed.                                                    *)
THEOREM QuietSelectionIsFull == RequestSpec => []QuietSelectionFull
<1>1. QuietInv => QuietSelectionFull
  BY SelectionIsFull DEF QuietInv, QuietSelectionFull
<1> QED
  BY <1>1, QuietInvariant, PTL

(* As long as nobody else writes to the worktree, the failing files come   *)
(* first, in the order of the traceback, and lose their place in the       *)
(* budget to no other file (context.py:48).                                *)
THEOREM QuietFailingFilesLead == RequestSpec => []QuietFailingFirst
<1>1. QuietInv => QuietFailingFirst
  BY SelectionLeads DEF QuietInv, QuietFailingFirst
<1> QED
  BY <1>1, QuietInvariant, PTL
===============================================================================
