----------------------------- MODULE PatchProofs ------------------------------
(* The theorems about what becomes of one patch before and after it is     *)
(* applied.  PatchPolicy: whatever its changes look like, one that is      *)
(* accepted touches declared, unprotected files only, and not too many, if *)
(* its headers name to the scan what they name to git.                     *)
(* BytecodeCache: whatever the interleaving of workers, test commands and  *)
(* the clock, its verification executes the source it is about.            *)
EXTENDS PatchPolicy, BytecodeCache, SequenceTheorems, FiniteSetTheorems, TLAPS

-----------------------------------------------------------------------------
(* PatchPolicy.                                                            *)

(* What the scan has passed it could read, and whatever is named there has *)
(* been collected.                                                         *)
Collected ==
  \A i \in DOMAIN candidate.patch :
    i < scan.next =>
      /\ Invalid \notin NamedBy(candidate.patch[i])
      /\ NamedBy(candidate.patch[i]) \ {DevNull} \subseteq scan.actual_paths

(* The inductive invariant: an accepted patch was scanned to its end and   *)
(* what was collected is permitted.                                        *)
PolicyInv ==
  /\ candidate \in Candidates
  /\ scan \in Scan
  /\ Collected
  /\ scan.at = "accepted" => /\ scan.next = Len(candidate.patch) + 1
                             /\ Permitted(scan.actual_paths)

-----------------------------------------------------------------------------
(* The fields that a readable line is read for are names.                  *)
LEMMA FieldNames ==
  ASSUME NEW q \in Seq(Names), q # <<>>
  PROVE  q[1] \in Names /\ (Len(q) = 2 => q[2] \in Names)
<1>1. Len(q) \in Nat /\ Len(q) # 0
  BY EmptySeq
<1>2. 1 \in 1..Len(q) /\ (Len(q) = 2 => 2 \in 1..Len(q))
  BY <1>1
<1> QED
  BY <1>2

(* A line names nothing but names.                                         *)
LEMMA NamedByType ==
  ASSUME NEW line \in Line
  PROVE  NamedBy(line) \subseteq Names
<1>1. CASE ~HasPaths(line)
  BY <1>1 DEF NamedBy
<1>2. CASE HasPaths(line) /\ ~Readable(line)
  BY <1>2 DEF NamedBy, Names
<1>3. CASE HasPaths(line) /\ Readable(line)
  <2>a. line.names \in Seq(Names) \cup {Invalid}
    BY DEF Line
  <2>b. /\ line.names # Invalid /\ line.names # <<>>
        /\ line.starts = "diff --git " => Len(line.names) = 2
    BY <1>3 DEF Readable
  <2>1. line.names \in Seq(Names)
    BY <2>a, <2>b
  <2>2. /\ line.names[1] \in Names
        /\ line.starts = "diff --git " => line.names[2] \in Names
    BY <2>b, <2>1, FieldNames
  <2>3. \A i \in PathFields(line) : line.names[i] \in Names
    BY <2>2 DEF PathFields
  <2> QED
    BY <1>3, <2>3 DEF NamedBy
<1> QED
  BY <1>1, <1>2, <1>3

(* The line the scan is at is a line of the patch.                         *)
LEMMA ThisLineType ==
  ASSUME PolicyInv, Scanning, scan.next # 0
  PROVE  /\ scan.next \in DOMAIN candidate.patch
         /\ ThisLine = candidate.patch[scan.next]
         /\ ThisLine \in Line
<1>1. candidate.patch \in Seq(Lines) /\ Lines \subseteq Line
  BY PolicyAssumption DEF PolicyInv
<1>2. scan.next \in 1..Len(candidate.patch)
  BY <1>1 DEF PolicyInv, Scan, Scanning
<1> QED
  BY <1>1, <1>2 DEF ThisLine

LEMMA PolicyInit == Init => PolicyInv
<1> SUFFICES ASSUME Init PROVE PolicyInv
  OBVIOUS
<1>1. candidate.patch \in Seq(Lines)
  BY PolicyAssumption DEF Init
<1>2. scan \in Scan
  BY DEF Init, Scan
<1>3. Collected
  BY <1>1 DEF Init, Collected
<1> QED
  BY <1>2, <1>3 DEF Init, PolicyInv

LEMMA PolicyStep == PolicyInv /\ scan.next # 0 /\ [Next]_vars
                      => PolicyInv' /\ (scan.next # 0)'
<1> SUFFICES ASSUME PolicyInv, scan.next # 0, [Next]_vars
             PROVE  PolicyInv' /\ (scan.next # 0)'
  OBVIOUS
<1>t. candidate \in Candidates /\ scan \in Scan /\ Collected
  BY DEF PolicyInv
<1>p. candidate.patch \in Seq(Lines)
  BY <1>t, PolicyAssumption
<1>1. CASE UNCHANGED vars
  BY <1>1 DEF vars, PolicyInv, Collected, Permitted
<1> SUFFICES ASSUME Next PROVE PolicyInv' /\ (scan.next # 0)'
  BY <1>1
<1>c. candidate' = candidate
  BY DEF Next
<1>2. CASE Measure \/ Judge
  <2>1. \E where \in {"refused", "scan", "accepted"} :
          /\ scan' = [scan EXCEPT !.at = where]
          /\ where = "accepted" => /\ scan.next = Len(candidate.patch) + 1
                                   /\ Permitted(scan.actual_paths)
    BY <1>2 DEF Measure, Judge, Refused
  <2> QED
    BY <1>t, <1>c, <2>1 DEF PolicyInv, Scan, Collected, Permitted
<1>3. CASE ScanPaths
  <2>1. Scanning /\ scan.at = "scan"
    BY <1>3 DEF ScanPaths, Scanning
  <2>2. /\ scan.next \in DOMAIN candidate.patch
        /\ ThisLine = candidate.patch[scan.next] /\ ThisLine \in Line
    BY <2>1, ThisLineType
  <2>3. CASE Refused
    BY <1>t, <1>c, <2>3 DEF Refused, PolicyInv, Scan, Collected
  <2>4. CASE Invalid \notin NamedBy(ThisLine)
    <3> DEFINE found == scan.actual_paths \cup (NamedBy(ThisLine) \ {DevNull})
    <3>1. scan' = [scan EXCEPT !.next = scan.next + 1, !.actual_paths = found]
      BY <1>3, <2>4 DEF ScanPaths
    <3>2. found \in SUBSET Paths
      BY <1>t, <2>2, <2>4, NamedByType DEF Scan, Names
    <3>4. \A i \in DOMAIN candidate.patch : i < scan.next + 1 =>
            /\ Invalid \notin NamedBy(candidate.patch[i])
            /\ NamedBy(candidate.patch[i]) \ {DevNull} \subseteq found
      <4> SUFFICES ASSUME NEW i \in DOMAIN candidate.patch, i < scan.next + 1
                   PROVE  /\ Invalid \notin NamedBy(candidate.patch[i])
                          /\ NamedBy(candidate.patch[i]) \ {DevNull} \subseteq found
        OBVIOUS
      <4>1. i < scan.next \/ i = scan.next
        BY <1>t, <1>p DEF Scan
      <4> QED
        BY <1>t, <2>2, <2>4, <4>1 DEF Collected
    <3> HIDE DEF found
    <3>n. scan.next \in Nat /\ scan.next + 1 \in Nat
      BY <1>t DEF Scan
    <3>5. /\ scan'.next = scan.next + 1 /\ scan'.actual_paths = found
          /\ scan'.at = "scan" /\ scan' \in Scan
      BY <1>t, <2>1, <3>n, <3>1, <3>2 DEF Scan
    <3> QED
      BY <1>t, <1>c, <3>4, <3>5 DEF PolicyInv, Collected, Scan
  <2> QED
    BY <1>3, <2>3, <2>4 DEF ScanPaths
<1>4. CASE ScanChange
  <2>1. Scanning /\ scan.at = "scan"
    BY <1>4 DEF ScanChange, Scanning
  <2>2. /\ scan.next \in DOMAIN candidate.patch
        /\ ThisLine = candidate.patch[scan.next]
    BY <2>1, ThisLineType
  <2>3. NamedBy(ThisLine) = {}
    BY <1>4 DEF ScanChange, NamedBy
  <2>n. PICK plus \in {0, 1}, minus \in {0, 1} :
          scan' = [scan EXCEPT !.next = scan.next + 1,
                               !.additions = scan.additions + plus,
                               !.deletions = scan.deletions + minus]
    BY <1>4 DEF ScanChange
  <2>m. /\ scan.next + 1 \in Nat /\ scan.additions + plus \in Nat
        /\ scan.deletions + minus \in Nat
    BY <1>t, <2>n DEF Scan
  <2>4. /\ scan'.next = scan.next + 1 /\ scan'.actual_paths = scan.actual_paths
        /\ scan'.at = "scan" /\ scan' \in Scan
    BY <1>t, <2>n, <2>m, <2>1 DEF Scan
  <2>5. \A i \in DOMAIN candidate.patch : i < scan.next + 1 =>
          /\ Invalid \notin NamedBy(candidate.patch[i])
          /\ NamedBy(candidate.patch[i]) \ {DevNull} \subseteq scan.actual_paths
    <3> SUFFICES ASSUME NEW i \in DOMAIN candidate.patch, i < scan.next + 1
                 PROVE  /\ Invalid \notin NamedBy(candidate.patch[i])
                        /\ NamedBy(candidate.patch[i]) \ {DevNull}
                             \subseteq scan.actual_paths
      OBVIOUS
    <3>1. i < scan.next \/ i = scan.next
      BY <1>t, <1>p DEF Scan
    <3> QED
      BY <1>t, <2>2, <2>3, <3>1 DEF Collected
  <2> QED
    BY <1>t, <1>c, <2>4, <2>5 DEF PolicyInv, Collected, Scan
<1> QED
  BY <1>2, <1>3, <1>4 DEF Next

(* Every inspection stays within the inductive invariant.                  *)
THEOREM PolicyInvariant == Spec => [](PolicyInv /\ scan.next # 0)
<1>1. Init => PolicyInv /\ scan.next # 0
  BY PolicyInit DEF Init
<1> QED
  BY <1>1, PolicyStep, PTL DEF Spec

(* An accepted patch touches only files that it declares, no protected     *)
(* file, and no more files than the limit (PatchPolicy.inspect,            *)
(* policy.py:104-119), whatever its lines are, as long as its headers name *)
(* to the scan what git takes from them.                                   *)
THEOREM AcceptedPathsAreDeclared == Spec => []AcceptedPathsDeclared
<1>1. PolicyInv => AcceptedPathsDeclared
  <2> SUFFICES ASSUME PolicyInv, scan.at = "accepted", ReadForGit
               PROVE  /\ GitPaths \subseteq candidate.touched_files
                      /\ GitPaths \cap Protected = {}
                      /\ Cardinality(GitPaths) <= MaxFiles
    BY DEF AcceptedPathsDeclared
  <2>1. /\ scan \in Scan /\ Collected /\ Permitted(scan.actual_paths)
        /\ scan.next = Len(candidate.patch) + 1
        /\ candidate.patch \in Seq(Lines)
    BY PolicyAssumption DEF PolicyInv
  <2>2. GitPaths \in SUBSET scan.actual_paths
    <3>1. ASSUME NEW i \in Headers PROVE candidate.patch[i].git \subseteq scan.actual_paths
      <4>1. i \in DOMAIN candidate.patch /\ i < scan.next /\ candidate.patch[i] \in Line
        BY <2>1, PolicyAssumption DEF Headers
      <4>2. candidate.patch[i].git \subseteq Paths /\ DevNull \notin Paths
        BY <4>1, PolicyAssumption DEF Line
      <4> QED
        BY <2>1, <3>1, <4>1, <4>2 DEF Collected, ReadForGit
    <3> QED
      BY <3>1 DEF GitPaths
  <2>3. IsFiniteSet(scan.actual_paths)
    BY <2>1, PolicyAssumption, FS_Subset DEF Scan
  <2>4. /\ Cardinality(GitPaths) <= Cardinality(scan.actual_paths)
        /\ Cardinality(GitPaths) \in Nat /\ Cardinality(scan.actual_paths) \in Nat
    BY <2>2, <2>3, FS_Subset, FS_CardinalityType
  <2> QED
    BY <2>1, <2>2, <2>4, PolicyAssumption DEF Permitted
<1> QED
  BY <1>1, PolicyInvariant, PTL

-----------------------------------------------------------------------------
(* What the scan says of a patch whose lines cannot be mistaken.           *)

Passed(role) ==
  {i \in DOMAIN candidate.patch : i < scan.next /\ candidate.patch[i].role = role}

NamedSoFar == UNION {NamedBy(candidate.patch[i]) : i \in Passed("header")}

(* Of the lines passed, the headers have named what was collected, and the *)
(* changes have been counted; a refusal has its reason.                    *)
Inspected ==
  /\ scan.actual_paths = NamedSoFar \ {DevNull}
  /\ scan.additions = Cardinality(Passed("added"))
  /\ scan.deletions = Cardinality(Passed("removed"))
  /\ scan.at = "refused" => \/ Oversized \/ Forbidden
                            \/ Invalid \in HeaderNames
                            \/ ~Permitted(HeaderPaths)

PlainInv == Plain => Inspected

(* In a plain patch the start of a line tells what it is to git.           *)
LEMMA PlainLines ==
  ASSUME Plain, candidate.patch \in Seq(Line), NEW i \in DOMAIN candidate.patch
  PROVE  LET line == candidate.patch[i]
         IN  /\ HasPaths(line) => line.role = "header"
             /\ line.starts = "+" <=> line.role = "added"
             /\ line.starts = "-" <=> line.role = "removed"
<1> DEFINE line == candidate.patch[i]
<1>1. line \in Line
  OBVIOUS
<1>2. /\ line.role = "added" => line.starts = "+"
      /\ line.role = "removed" => line.starts = "-"
      /\ line.role = "context" => line.starts = "other"
      /\ line.role = "header" => line.starts \notin {"+", "-"}
  BY DEF Plain
<1> HIDE DEF line
<1>3. line.role \in {"header", "added", "removed", "context"}
  BY <1>1 DEF Line
<1> QED
  BY <1>2, <1>3 DEF HasPaths, line

(* The lines of a role that have been passed, one line later.              *)
LEMMA OneMorePassed ==
  ASSUME candidate.patch \in Seq(Line), candidate' = candidate,
         scan.next \in DOMAIN candidate.patch, scan'.next = scan.next + 1, NEW role
  PROVE  /\ Passed(role)' = IF candidate.patch[scan.next].role = role
                            THEN Passed(role) \cup {scan.next} ELSE Passed(role)
         /\ scan.next \notin Passed(role)
         /\ IsFiniteSet(Passed(role)) /\ Cardinality(Passed(role)) \in Nat
<1> DEFINE patch == candidate.patch
           n == scan.next
<1>1. /\ DOMAIN patch = 1..Len(patch) /\ Len(patch) \in Nat /\ n \in 1..Len(patch)
  OBVIOUS
<1> HIDE DEF patch, n
<1>2. \A i \in 1..Len(patch) : i < n + 1 <=> (i < n \/ i = n)
  BY <1>1
<1>3. /\ Passed(role) = {i \in 1..Len(patch) : i < n /\ patch[i].role = role}
      /\ Passed(role)' = {i \in 1..Len(patch) : i < n + 1 /\ patch[i].role = role}
  BY <1>1 DEF Passed, patch, n
<1>4. Passed(role)' = IF patch[n].role = role THEN Passed(role) \cup {n} ELSE Passed(role)
  BY <1>1, <1>2, <1>3
<1>5. n \notin Passed(role)
  BY <1>1, <1>3
<1>6. IsFiniteSet(1..Len(patch)) /\ Passed(role) \subseteq 1..Len(patch)
  BY <1>1, <1>3, FS_Interval
<1>7. IsFiniteSet(Passed(role)) /\ Cardinality(Passed(role)) \in Nat
  BY <1>6, FS_Subset, FS_CardinalityType
<1> QED
  BY <1>4, <1>5, <1>7 DEF patch, n

LEMMA PatchTyped == PolicyInv => candidate.patch \in Seq(Line) /\ scan \in Scan
<1> SUFFICES ASSUME PolicyInv PROVE candidate.patch \in Seq(Line)
  BY DEF PolicyInv
<1>1. candidate.patch \in Seq(Lines) /\ Lines \subseteq Line
  BY PolicyAssumption DEF PolicyInv
<1> QED
  BY <1>1

(* When the scan is at the end, it has passed all.                         *)
LEMMA AllPassed ==
  ASSUME PolicyInv, scan.next = Len(candidate.patch) + 1, NEW role
  PROVE  /\ Passed(role) = Role(role)
         /\ NamedSoFar = HeaderNames
<1>1. candidate.patch \in Seq(Line)
  BY PatchTyped
<1>2. \A i \in DOMAIN candidate.patch : i < scan.next
  BY <1>1
<1>3. Passed(role) = Role(role) /\ Passed("header") = Headers
  BY <1>2 DEF Passed, Role, Headers
<1> QED
  BY <1>3 DEF NamedSoFar, HeaderNames

LEMMA PlainInit == Init => PlainInv
<1> SUFFICES ASSUME Init PROVE Inspected
  BY DEF PlainInv
<1>1. candidate.patch \in Seq(Lines)
  BY PolicyAssumption DEF Init
<1>2. scan.next = 1 /\ scan.at = "measure" /\ scan.actual_paths = {}
      /\ scan.additions = 0 /\ scan.deletions = 0
  BY DEF Init
<1>3. \A role : Passed(role) = {}
  BY <1>1, <1>2 DEF Passed
<1>4. NamedSoFar = {}
  BY <1>3 DEF NamedSoFar
<1> QED
  BY <1>2, <1>3, <1>4, FS_EmptySet DEF Inspected

LEMMA PlainNext == PolicyInv /\ scan.next # 0 /\ PlainInv /\ [Next]_vars => PlainInv'
<1> SUFFICES ASSUME PolicyInv, scan.next # 0, PlainInv, [Next]_vars, Plain'
             PROVE  Inspected'
  BY DEF PlainInv
<1>1. CASE UNCHANGED vars
  BY <1>1 DEF vars, PlainInv, Plain, Inspected, Passed, NamedSoFar, Oversized, Forbidden,
     HeaderNames, HeaderPaths, Headers, Permitted
<1> SUFFICES ASSUME Next PROVE Inspected'
  BY <1>1
<1>2. candidate' = candidate /\ Plain /\ Inspected
  BY DEF Next, Plain, PlainInv
<1>3. candidate.patch \in Seq(Line) /\ scan \in Scan
  BY PatchTyped
<1>4. /\ (Oversized' <=> Oversized) /\ (Forbidden' <=> Forbidden)
      /\ HeaderNames' = HeaderNames /\ HeaderPaths' = HeaderPaths
      /\ Permitted(HeaderPaths)' <=> Permitted(HeaderPaths)
  BY <1>2 DEF Oversized, Forbidden, HeaderNames, HeaderPaths, Headers, Permitted
<1>5. ASSUME NEW place, scan' = [scan EXCEPT !.at = place],
             place = "refused" => \/ Oversized \/ Forbidden
                                  \/ Invalid \in HeaderNames
                                  \/ ~Permitted(HeaderPaths)
      PROVE  Inspected'
  <2>1. /\ scan'.next = scan.next /\ scan'.at = place
        /\ scan'.actual_paths = scan.actual_paths
        /\ scan'.additions = scan.additions /\ scan'.deletions = scan.deletions
    BY <1>3, <1>5 DEF Scan
  <2>2. \A role : Passed(role)' = Passed(role)
    BY <1>2, <2>1 DEF Passed
  <2>3. NamedSoFar' = NamedSoFar
    BY <1>2, <2>2 DEF NamedSoFar
  <2> QED
    BY <1>2, <1>4, <1>5, <2>1, <2>2, <2>3 DEF Inspected
<1>6. CASE Measure
  BY <1>5, <1>6 DEF Measure, Refused
<1>7. CASE Judge
  <2>1. scan.next = Len(candidate.patch) + 1
    BY <1>7 DEF Judge
  <2>2. scan.actual_paths = HeaderPaths
    BY <1>2, <2>1, AllPassed DEF Inspected, HeaderPaths
  <2> QED
    BY <1>5, <1>7, <2>2 DEF Judge, Refused
<1>8. ASSUME Scanning PROVE scan.next \in DOMAIN candidate.patch
                            /\ ThisLine = candidate.patch[scan.next]
  BY <1>8, ThisLineType
<1>9. CASE ScanPaths
  <2>1. /\ scan.next \in DOMAIN candidate.patch /\ HasPaths(ThisLine)
        /\ ThisLine = candidate.patch[scan.next] /\ scan.at = "scan"
    BY <1>8, <1>9 DEF ScanPaths, Scanning
  <2>2. ThisLine.role = "header" /\ scan.next \in Headers
    BY <1>2, <1>3, <2>1, PlainLines DEF Headers
  <2>3. CASE Invalid \in NamedBy(ThisLine)
    <3>1. Invalid \in HeaderNames
      BY <2>1, <2>2, <2>3 DEF HeaderNames
    <3> QED
      BY <1>5, <1>9, <2>3, <3>1 DEF ScanPaths, Refused
  <2>4. CASE Invalid \notin NamedBy(ThisLine)
    <3> DEFINE found == scan.actual_paths \cup (NamedBy(ThisLine) \ {DevNull})
    <3>1. scan' = [scan EXCEPT !.next = scan.next + 1, !.actual_paths = found]
      BY <1>9, <2>4 DEF ScanPaths
    <3> HIDE DEF found
    <3>2. /\ scan'.next = scan.next + 1 /\ scan'.actual_paths = found
          /\ scan'.at = "scan"
          /\ scan'.additions = scan.additions /\ scan'.deletions = scan.deletions
      BY <1>3, <2>1, <3>1 DEF Scan
    <3>3. /\ Passed("header")' = Passed("header") \cup {scan.next}
          /\ Passed("added")' = Passed("added") /\ Passed("removed")' = Passed("removed")
      BY <1>2, <1>3, <2>1, <2>2, <3>2, OneMorePassed
    <3>4. NamedSoFar' = NamedSoFar \cup NamedBy(ThisLine)
      BY <1>2, <2>1, <3>3 DEF NamedSoFar
    <3>5. found = NamedSoFar' \ {DevNull}
      BY <1>2, <3>4 DEF Inspected, found
    <3> QED
      BY <1>2, <3>2, <3>3, <3>5 DEF Inspected
  <2> QED
    BY <2>3, <2>4
<1>10. CASE ScanChange
  <2> DEFINE plus == IF ThisLine.starts = "+" THEN 1 ELSE 0
             minus == IF ThisLine.starts = "-" THEN 1 ELSE 0
  <2>1. /\ scan.next \in DOMAIN candidate.patch /\ ~HasPaths(ThisLine)
        /\ ThisLine = candidate.patch[scan.next] /\ scan.at = "scan"
    BY <1>8, <1>10 DEF ScanChange, Scanning
  <2>2. /\ ThisLine.starts = "+" <=> ThisLine.role = "added"
        /\ ThisLine.starts = "-" <=> ThisLine.role = "removed"
    BY <1>2, <1>3, <2>1, PlainLines
  <2>3. scan' = [scan EXCEPT !.next = scan.next + 1,
                             !.additions = scan.additions + plus,
                             !.deletions = scan.deletions + minus]
    BY <1>10 DEF ScanChange
  <2>4. /\ plus = IF ThisLine.role = "added" THEN 1 ELSE 0
        /\ minus = IF ThisLine.role = "removed" THEN 1 ELSE 0
    BY <2>2
  <2> HIDE DEF plus, minus
  <2>5. /\ scan'.next = scan.next + 1 /\ scan'.actual_paths = scan.actual_paths
        /\ scan'.at = "scan"
        /\ scan'.additions = scan.additions + plus
        /\ scan'.deletions = scan.deletions + minus
    BY <1>3, <2>1, <2>3 DEF Scan
  <2>6. \A role \in {"header", "added", "removed"} :
          /\ Passed(role)' = IF ThisLine.role = role
                             THEN Passed(role) \cup {scan.next} ELSE Passed(role)
          /\ scan.next \notin Passed(role)
          /\ IsFiniteSet(Passed(role)) /\ Cardinality(Passed(role)) \in Nat
    BY <1>2, <1>3, <2>1, <2>5, OneMorePassed
  <2>7. \A role \in {"added", "removed"} :
          Cardinality(Passed(role))' =
            Cardinality(Passed(role)) + IF ThisLine.role = role THEN 1 ELSE 0
    <3>1. ASSUME NEW role \in {"added", "removed"}
          PROVE  Cardinality(Passed(role)') =
                   Cardinality(Passed(role)) + IF ThisLine.role = role THEN 1 ELSE 0
      <4> DEFINE S == Passed(role)
      <4>1. /\ S' = IF ThisLine.role = role THEN S \cup {scan.next} ELSE S
            /\ scan.next \notin S /\ IsFiniteSet(S) /\ Cardinality(S) \in Nat
        BY <2>6
      <4> HIDE DEF S
      <4>2. Cardinality(S \cup {scan.next}) = Cardinality(S) + 1
        BY <4>1, FS_AddElement
      <4>3. Cardinality(S') =
              Cardinality(S) + IF ThisLine.role = role THEN 1 ELSE 0
        BY <4>1, <4>2
      <4> QED
        BY <4>3 DEF S
    <3> QED
      BY <3>1
  <2>8. NamedSoFar' = NamedSoFar
    <3>1. NamedBy(ThisLine) = {}
      BY <2>1 DEF NamedBy
    <3> QED
      BY <1>2, <2>1, <2>6, <3>1 DEF NamedSoFar
  <2> QED
    BY <1>2, <2>4, <2>5, <2>7, <2>8 DEF Inspected
<1> QED
  BY <1>6, <1>7, <1>9, <1>10 DEF Next

(* A patch whose lines cannot be mistaken is judged by its headers alone,  *)
(* and the evidence of an accepted one counts its added and its removed    *)
(* lines, however many lines it has.                                       *)
THEOREM PlainPatchIsInspected == Spec => []PlainPatchInspected
<1>1. PolicyInv /\ PlainInv => PlainPatchInspected
  <2> SUFFICES ASSUME PolicyInv, Inspected, Plain PROVE PlainPatchInspected
    BY DEF PlainInv, PlainPatchInspected
  <2>1. ASSUME scan.at = "accepted"
        PROVE  /\ Permitted(HeaderPaths)
               /\ scan.additions = Cardinality(Role("added"))
               /\ scan.deletions = Cardinality(Role("removed"))
    <3>1. scan.next = Len(candidate.patch) + 1 /\ Permitted(scan.actual_paths)
      BY <2>1 DEF PolicyInv
    <3> QED
      BY <3>1, AllPassed DEF Inspected, HeaderPaths
  <2> QED
    BY <2>1 DEF PlainPatchInspected, Inspected
<1>2. Init => PolicyInv /\ scan.next # 0
  BY PolicyInit DEF Init
<1> QED
  BY <1>1, <1>2, PolicyStep, PlainInit, PlainNext, PTL DEF Spec

-----------------------------------------------------------------------------
(* BytecodeCache.  The inductive invariant is BytecodeInv; the initial     *)
(* states.                                                                 *)
LEMMA BytecodeInvInit == BytecodeInit => BytecodeInv
<1> SUFFICES ASSUME BytecodeInit PROVE BytecodeInv
  OBVIOUS
<1>1. BytecodeTypeOK
  BY BytecodeAssumption DEF BytecodeInit, BytecodeTypeOK, Codes, Compiled, Run, Worker, Test
<1>2. /\ \A w \in Workers : worker[w].at = "idle"
      /\ \A t \in Tests : test[t].at = "ended" /\ test[t].code = "base"
      /\ source.code = "base" /\ source.mtime = 0
      /\ cache # None => cache.code = "base"
      /\ run.effect = "ABSENT" /\ run.holder = None
  BY BytecodeAssumption DEF BytecodeInit
<1> QED
  BY <1>1, <1>2 DEF BytecodeInv, BeforePatch, AfterPatch, Known, Verifications,
                    FirstSecond, Quiet, At

-----------------------------------------------------------------------------
(* The steps of a test command.                                            *)
LEMMA LookKeeps ==
  ASSUME BytecodeInv, NEW t \in Tests, Look(t)
  PROVE  BytecodeInv'
<1>1. PICK new : new = IF CacheIsValid THEN [at |-> "ended", stamp |-> 0, code |-> cache.code]
                       ELSE [at |-> "read", stamp |-> source.mtime, code |-> "base"]
  OBVIOUS
<1>2. /\ test' = [test EXCEPT ![t] = new] /\ test[t].at = "look"
      /\ UNCHANGED <<second, source, cache, run, worker>>
  BY <1>1 DEF Look
<1>3. /\ BytecodeTypeOK
      /\ cache # None => cache \in [code : Codes, mtime : Nat]
  BY DEF BytecodeInv, BytecodeTypeOK, Compiled
<1>4. /\ new \in Test /\ new.at \in {"ended", "read"}
      /\ new.at = "ended" => CacheIsValid /\ new.code = cache.code
      /\ new.at = "read" => new.stamp = source.mtime
  BY <1>1, <1>3 DEF CacheIsValid, Test, Codes, BytecodeTypeOK
<1>5. test' \in [Tests -> Test] /\ \A u \in Tests : test'[u] = IF u = t THEN new ELSE test[u]
  BY <1>2, <1>3, <1>4 DEF BytecodeTypeOK
<1>6. BytecodeTypeOK'
  BY <1>2, <1>3, <1>5 DEF BytecodeTypeOK
<1>7. BeforePatch'
  BY <1>2, <1>4, <1>5 DEF BytecodeInv, BeforePatch, CacheIsValid
<1>8. AfterPatch'
  BY <1>2, <1>4, <1>5 DEF BytecodeInv, AfterPatch
<1>9. Known'
  BY <1>2 DEF BytecodeInv, Known, At, Safe, Stale
<1>10. Verifications'
  <2>1. SUFFICES ASSUME NEW w \in Workers, worker[w].at \in {"verifying", "judge"},
                        NEW u, u = worker[w].test
                 PROVE  /\ u \in Tests
                        /\ test'[u].at \in {"write", "ended"} => test'[u].code = "patched"
                        /\ worker[w].at = "judge" => test'[u].at = "ended"
    BY <1>2 DEF Verifications, At
  <2>2. /\ u \in Tests
        /\ test[u].at \in {"write", "ended"} => test[u].code = "patched"
        /\ worker[w].at = "judge" => test[u].at = "ended"
        /\ Safe
    BY <2>1 DEF BytecodeInv, Verifications, Known, At
  <2>3. CASE u # t
    BY <1>5, <2>2, <2>3
  <2>4. CASE u = t
    <3>1. CacheIsValid => cache.code = "patched"
      BY <2>2 DEF Safe, Stale, CacheIsValid
    <3>2. worker[w].at # "judge"
      BY <1>2, <2>2, <2>4
    <3> QED
      BY <1>4, <1>5, <2>2, <2>4, <3>1, <3>2
  <2> QED
    BY <2>3, <2>4
<1>11. FirstSecond'
  <2>1. FirstSecond /\ test[t].at # "ended"
    BY <1>2 DEF BytecodeInv
  <2>2. \A T : T \subseteq Tests /\ Quiet(T) => Quiet(T)'
    BY <1>5, <2>1 DEF Quiet
  <2> QED
    BY <1>2, <2>1, <2>2 DEF FirstSecond, At
<1> QED
  BY <1>6, <1>7, <1>8, <1>9, <1>10, <1>11 DEF BytecodeInv

LEMMA ReadKeeps ==
  ASSUME BytecodeInv, NEW t \in Tests, Read(t)
  PROVE  BytecodeInv'
<1>1. PICK new : new = [at |-> "write", stamp |-> test[t].stamp, code |-> source.code]
  OBVIOUS
<1>2. /\ test' = [test EXCEPT ![t] = new] /\ test[t].at = "read"
      /\ UNCHANGED <<second, source, cache, run, worker>>
  BY <1>1 DEF Read
<1>3. BytecodeTypeOK
  BY DEF BytecodeInv
<1>4. /\ new \in Test /\ new.at = "write" /\ new.code = source.code
      /\ new.stamp = test[t].stamp
  BY <1>1, <1>3 DEF Test, BytecodeTypeOK
<1>5. test' \in [Tests -> Test] /\ \A u \in Tests : test'[u] = IF u = t THEN new ELSE test[u]
  BY <1>2, <1>3, <1>4 DEF BytecodeTypeOK
<1>6. BytecodeTypeOK'
  BY <1>2, <1>3, <1>5 DEF BytecodeTypeOK
<1>7. BeforePatch'
  BY <1>2, <1>4, <1>5 DEF BytecodeInv, BeforePatch
<1>8. AfterPatch'
  BY <1>2, <1>4, <1>5 DEF BytecodeInv, AfterPatch
<1>9. Known'
  BY <1>2 DEF BytecodeInv, Known, At, Safe, Stale
<1>10. Verifications'
  BY <1>2, <1>4, <1>5 DEF BytecodeInv, Verifications, Known, Safe, At
<1>11. FirstSecond'
  <2>1. FirstSecond /\ test[t].at # "ended"
    BY <1>2 DEF BytecodeInv
  <2>2. \A T : T \subseteq Tests /\ Quiet(T) => Quiet(T)'
    BY <1>5, <2>1 DEF Quiet
  <2> QED
    BY <1>2, <2>1, <2>2 DEF FirstSecond, At
<1> QED
  BY <1>6, <1>7, <1>8, <1>9, <1>10, <1>11 DEF BytecodeInv

(* Bytecode of the base that is written late is of another second.         *)
LEMMA WriteKeeps ==
  ASSUME BytecodeInv, NEW t \in Tests, Write(t)
  PROVE  BytecodeInv'
<1>1. PICK new, made : /\ new = [at |-> "ended", stamp |-> 0, code |-> test[t].code]
                       /\ made = [code |-> test[t].code, mtime |-> test[t].stamp]
  OBVIOUS
<1>2. /\ test' = [test EXCEPT ![t] = new] /\ cache' = made /\ test[t].at = "write"
      /\ UNCHANGED <<second, source, run, worker>>
  BY <1>1 DEF Write
<1>3. BytecodeTypeOK /\ test[t] \in Test
  BY DEF BytecodeInv, BytecodeTypeOK
<1>4. /\ new \in Test /\ new.at = "ended" /\ new.code = test[t].code
      /\ made \in Compiled /\ made.code = test[t].code /\ made.mtime = test[t].stamp
  BY <1>1, <1>3 DEF Test, Compiled
<1>5. test' \in [Tests -> Test] /\ \A u \in Tests : test'[u] = IF u = t THEN new ELSE test[u]
  BY <1>2, <1>3, <1>4 DEF BytecodeTypeOK
<1>6. BytecodeTypeOK'
  BY <1>2, <1>3, <1>4, <1>5 DEF BytecodeTypeOK
<1>7. BeforePatch'
  BY <1>2, <1>4, <1>5 DEF BytecodeInv, BeforePatch
<1>8. AfterPatch'
  BY <1>2, <1>4, <1>5 DEF BytecodeInv, AfterPatch
<1>9. Safe => Safe'
  BY <1>2, <1>3, <1>4 DEF BytecodeInv, AfterPatch, Safe, Stale, Test, Codes
<1>10. Known'
  BY <1>2, <1>9 DEF BytecodeInv, Known, At
<1>11. Verifications'
  BY <1>2, <1>4, <1>5 DEF BytecodeInv, Verifications, At
<1>12. FirstSecond'
  BY <1>2, <1>5, <1>4 DEF BytecodeInv, FirstSecond, Quiet, At
<1> QED
  BY <1>6, <1>7, <1>8, <1>10, <1>11, <1>12 DEF BytecodeInv

-----------------------------------------------------------------------------
(* The steps of a worker.                                                  *)
Places == {"idle", "reproduce", "reproducing", "begin", "git apply", "reverse check",
           "invalidate", "confirm", "disconfirm", "verify", "verifying", "judge", "raised"}

(* The worker that takes a step and where it comes to.                     *)
LEMMA OneWorkerMoves ==
  ASSUME BytecodeTypeOK, NEW w \in Workers, NEW at \in Places, NEW t \in Tests \cup {None},
         Becomes(w, at, t)
  PROVE  /\ worker' \in [Workers -> Worker]
         /\ worker'[w].at = at /\ worker'[w].test = t
         /\ \A v \in Workers \ {w} : worker'[v] = worker[v]
<1>1. PICK new : new = [at |-> at, test |-> t]
  OBVIOUS
<1>2. new \in Worker /\ new.at = at /\ new.test = t
  BY <1>1 DEF Worker, Places
<1>3. worker' = [worker EXCEPT ![w] = new]
  BY <1>1 DEF Becomes
<1> QED
  BY <1>2, <1>3 DEF BytecodeTypeOK

(* What a place asks of the worktree, and of the test commands in the      *)
(* first second.                                                           *)
Permits(at, t) ==
  /\ at = "invalidate" => source.code = "patched"
  /\ at \in {"confirm", "verify", "verifying", "judge"} => Safe
  /\ at \in {"verifying", "judge"} =>
       /\ t \in Tests
       /\ test[t].at \in {"write", "ended"} => test[t].code = "patched"
       /\ at = "judge" => test[t].at = "ended"
  /\ second = 0 /\ source.code = "base" =>
       /\ at \in {"reproduce", "begin", "git apply"} => Quiet(Tests)
       /\ at = "reproducing" => Quiet(Tests \ {t})

LEMMA PermitsAll ==
  ASSUME BytecodeInv, NEW w \in Workers
  PROVE  Permits(worker[w].at, worker[w].test)
BY DEF BytecodeInv, Known, Verifications, FirstSecond, Permits, At

(* A worker in the middle of its attempt comes to a place that what it did *)
(* or saw permits.                                                         *)
LEMMA MoveKeeps ==
  ASSUME BytecodeInv, NEW w \in Workers, NEW at \in Places, NEW t \in Tests \cup {None},
         Becomes(w, at, t), ~At(w, "idle"), Permits(at, t),
         UNCHANGED <<second, source, cache, test>>, run' \in Run,
         UNCHANGED <<run.holder, run.expires, run.ended>>,
         run'.effect = "SUCCEEDED" => run.effect = "SUCCEEDED" \/ Safe
  PROVE  BytecodeInv'
<1>1. /\ worker' \in [Workers -> Worker]
      /\ worker'[w].at = at /\ worker'[w].test = t
      /\ \A v \in Workers \ {w} : worker'[v] = worker[v]
  BY OneWorkerMoves DEF BytecodeInv
<1>2. BytecodeTypeOK'
  BY <1>1 DEF BytecodeInv, BytecodeTypeOK
<1>3. BeforePatch' /\ AfterPatch'
  BY DEF BytecodeInv, BeforePatch, AfterPatch
<1>4. Safe' = Safe
  BY DEF Safe, Stale
<1>5. Known'
  BY <1>1, <1>4 DEF BytecodeInv, Known, At, Permits
<1>6. Verifications'
  BY <1>1 DEF BytecodeInv, Verifications, At, Permits
<1>7. FirstSecond'
  BY <1>1 DEF BytecodeInv, FirstSecond, Quiet, At, Permits
<1> QED
  BY <1>2, <1>3, <1>5, <1>6, <1>7 DEF BytecodeInv

(* A new claim in the first second is the first one.                       *)
LEMMA ClaimKeeps ==
  ASSUME BytecodeInv, NEW w \in Workers, Claim(w)
  PROVE  BytecodeInv'
<1>1. /\ worker' \in [Workers -> Worker] /\ worker'[w].at = "reproduce"
      /\ \A v \in Workers \ {w} : worker'[v] = worker[v]
  BY OneWorkerMoves DEF BytecodeInv, Claim, Goto, Places
<1>2. UNCHANGED <<second, source, cache, test>> /\ ~run.ended
  BY DEF Claim
<1>3. PICK now \in ClockReads :
       /\ run.holder = None \/ run.expires <= now
       /\ run' = [run EXCEPT !.holder = w, !.expires = now + LeaseSeconds]
  BY DEF Claim
<1>4. /\ run \in Run /\ now \in Nat /\ now <= second
      /\ now + LeaseSeconds \in Nat /\ now + LeaseSeconds > 0
  BY BytecodeAssumption DEF BytecodeInv, BytecodeTypeOK, ClockReads
<1>5. /\ run' \in Run /\ run'.holder = w /\ run'.expires > 0 /\ run'.effect = run.effect
      /\ run'.ended = run.ended
  BY <1>2, <1>3, <1>4 DEF Run
<1>6. BytecodeTypeOK'
  BY <1>1, <1>2, <1>5 DEF BytecodeInv, BytecodeTypeOK
<1>7. BeforePatch' /\ AfterPatch'
  BY <1>2 DEF BytecodeInv, BeforePatch, AfterPatch
<1>8. Known'
  BY <1>1, <1>2, <1>5 DEF BytecodeInv, Known, At, Safe, Stale
<1>9. Verifications'
  BY <1>1, <1>2 DEF BytecodeInv, Verifications, At
<1>10. FirstSecond'
  <2>1. SUFFICES ASSUME second = 0 PROVE FirstSecond'
    BY <1>2 DEF FirstSecond
  <2>2. run.holder = None
    <3>1. run.expires \in Nat
      BY <1>4 DEF Run
    <3>2. run.holder # None => run.expires > 0
      BY <2>1 DEF BytecodeInv, FirstSecond
    <3> QED
      BY <1>3, <1>4, <2>1, <3>1, <3>2
  <2>3. Quiet(Tests)
    BY <1>2, <2>1, <2>2 DEF BytecodeInv, FirstSecond
  <2>4. \A v \in Workers : At(v, "idle")
    BY <2>1, <2>2, BytecodeAssumption DEF BytecodeInv, FirstSecond
  <2> QED
    <3>1. Quiet(Tests)' /\ Quiet(Tests \ {worker[w].test})'
      BY <1>2, <2>3 DEF Quiet
    <3>2. \A v \in Workers : worker'[v].at # "idle" => v = w
      BY <1>1, <2>4 DEF At
    <3>3. run'.holder = w /\ ~run'.ended /\ run'.expires > 0 /\ w # None
      BY <1>2, <1>5, BytecodeAssumption
    <3>4. /\ worker'[w].at = "reproduce"
          /\ \A v \in Workers : worker'[v].at \in {"reproduce", "begin", "git apply", "reproducing"} => v = w
      BY <1>1, <3>2
    <3> QED
      BY <3>1, <3>2, <3>3, <3>4 DEF FirstSecond, At
<1> QED
  BY <1>6, <1>7, <1>8, <1>9, <1>10 DEF BytecodeInv

(* A test command that nobody waits for begins anew.                       *)
LEMMA RunTestKeeps ==
  ASSUME BytecodeInv, NEW w \in Workers, NEW here, NEW next,
         <<here, next>> \in {<<"reproduce", "reproducing">>, <<"verify", "verifying">>},
         RunTest(w, here, next)
  PROVE  BytecodeInv'
<1>0. \/ here = "reproduce" /\ next = "reproducing"
      \/ here = "verify" /\ next = "verifying"
  OBVIOUS
<1>1. PICK new : new = [at |-> "look", stamp |-> 0, code |-> "base"]
  OBVIOUS
<1>2. PICK t \in Tests :
        /\ test[t].at = "ended" /\ \A v \in Workers : worker[v].test # t
        /\ test' = [test EXCEPT ![t] = new] /\ Becomes(w, next, t)
  BY <1>1 DEF RunTest
<1>3. At(w, here) /\ UNCHANGED <<second, source, cache, run>>
  BY DEF RunTest
<1>4. new \in Test /\ new.at = "look"
  BY <1>1 DEF Test, Codes
<1>5. test' \in [Tests -> Test] /\ \A u \in Tests : test'[u] = IF u = t THEN new ELSE test[u]
  BY <1>2, <1>4 DEF BytecodeInv, BytecodeTypeOK
<1>6. /\ worker' \in [Workers -> Worker]
      /\ worker'[w].at = next /\ worker'[w].test = t
      /\ \A v \in Workers \ {w} : worker'[v] = worker[v]
  <2>1. BytecodeTypeOK /\ next \in Places /\ t \in Tests \cup {None} /\ Becomes(w, next, t)
    BY <1>0, <1>2 DEF BytecodeInv, Places
  <2> QED
    BY <2>1, OneWorkerMoves
<1>7. BytecodeTypeOK'
  BY <1>3, <1>5, <1>6 DEF BytecodeInv, BytecodeTypeOK
<1>8. BeforePatch' /\ AfterPatch'
  BY <1>3, <1>4, <1>5 DEF BytecodeInv, BeforePatch, AfterPatch
<1>9. Known'
  BY <1>0, <1>3, <1>6 DEF BytecodeInv, Known, At, Safe, Stale
<1>10. Verifications'
  BY <1>0, <1>2, <1>3, <1>4, <1>5, <1>6 DEF BytecodeInv, Verifications, At
<1>11. FirstSecond'
  <2>1. SUFFICES ASSUME second = 0 PROVE FirstSecond'
    BY <1>3 DEF FirstSecond
  <2>2. /\ run.holder = w /\ run.holder # None /\ run.expires > 0 /\ ~run.ended
        /\ \A v \in Workers \ {w} : At(v, "idle")
    BY <1>0, <1>3, <2>1, BytecodeAssumption DEF BytecodeInv, FirstSecond, At
  <2>3. source.code = "base" => here = "reproduce" /\ Quiet(Tests)
    BY <1>0, <1>3, <2>1 DEF BytecodeInv, FirstSecond, Known, Safe, At
  <2>4. Quiet(Tests) => Quiet(Tests \ {t})'
    BY <1>5 DEF Quiet
  <2>5. /\ run'.holder = w /\ run'.holder # None /\ run'.expires > 0 /\ ~run'.ended
        /\ \A v \in Workers : v # w => worker'[v].at = "idle"
    BY <1>3, <1>6, <2>2 DEF At
  <2>6. source'.code = "base" =>
          worker'[w].at = "reproducing" /\ Quiet(Tests \ {worker[w].test})'
    BY <1>0, <1>3, <1>6, <2>3, <2>4 DEF Quiet
  <2> QED
    BY <2>5, <2>6 DEF FirstSecond, At
<1> QED
  BY <1>7, <1>8, <1>9, <1>10, <1>11 DEF BytecodeInv

LEMMA ReproducedKeeps ==
  ASSUME BytecodeInv, NEW w \in Workers, Reproduced(w)
  PROVE  BytecodeInv'
<1>1. PICK t \in Tests :
        /\ t = worker[w].test /\ test[t].at = "ended"
        /\ Goto(w, IF test[t].code = "base" THEN "begin" ELSE "raised")
  BY DEF Reproduced
<1>2. At(w, "reproducing") /\ UNCHANGED <<second, source, cache, run, test>>
  BY DEF Reproduced
<1>3. PICK at \in {"begin", "raised"} : Becomes(w, at, None)
  BY <1>1 DEF Goto
<1>4. Permits(at, None)
  BY <1>1, <1>2, <1>3 DEF BytecodeInv, FirstSecond, Quiet, Permits, At
<1>5. run' \in Run /\ run' = run
  BY <1>2 DEF BytecodeInv, BytecodeTypeOK
<1> QED
  BY <1>2, <1>3, <1>4, <1>5, MoveKeeps DEF Places, At

LEMMA BeginApplyKeeps ==
  ASSUME BytecodeInv, NEW w \in Workers, BeginApply(w)
  PROVE  BytecodeInv'
<1>1. At(w, "begin") /\ UNCHANGED <<second, source, cache, test>>
  BY DEF BeginApply
<1>2. run \in Run
  BY DEF BytecodeInv, BytecodeTypeOK
<1>3. CASE run' = [run EXCEPT !.effect = "STARTED"] /\ Goto(w, "git apply")
  <2>1. /\ run' \in Run /\ run'.effect = "STARTED"
        /\ UNCHANGED <<run.holder, run.expires, run.ended>>
    BY <1>2, <1>3 DEF Run
  <2>2. Permits("git apply", None)
    BY <1>1 DEF BytecodeInv, FirstSecond, Permits, At
  <2> QED
    BY <1>1, <1>3, <2>1, <2>2, MoveKeeps DEF Goto, Places, At
<1>4. CASE Goto(w, "reverse check") /\ run' = run
  BY <1>1, <1>2, <1>4, MoveKeeps DEF Goto, Places, At, Permits
<1>5. CASE run.effect = "SUCCEEDED" /\ Goto(w, "verify") /\ run' = run
  <2>1. Permits("verify", None)
    BY <1>5 DEF BytecodeInv, Known, Permits
  <2> QED
    BY <1>1, <1>2, <1>5, <2>1, MoveKeeps DEF Goto, Places, At
<1> QED
  BY <1>3, <1>4, <1>5 DEF BeginApply

(* The patch gets a new second, or one in which nothing is being compiled. *)
LEMMA GitApplyKeeps ==
  ASSUME BytecodeInv, NEW w \in Workers, GitApply(w)
  PROVE  BytecodeInv'
<1>1. At(w, "git apply") /\ UNCHANGED <<second, cache, run, test>>
  BY DEF GitApply
<1>2. BytecodeTypeOK
  BY DEF BytecodeInv
<1>3. CASE source.code # "base"
  <2>1. Goto(w, "disconfirm") /\ source' = source
    BY <1>3 DEF GitApply
  <2> QED
    BY <1>1, <1>2, <2>1, MoveKeeps DEF Goto, Places, At, Permits, BytecodeTypeOK
<1>4. CASE source.code = "base"
  <2>1. PICK new : new = [code |-> "patched", mtime |-> second]
    OBVIOUS
  <2>2. source' = new /\ Goto(w, "invalidate")
    BY <1>4, <2>1 DEF GitApply, Following
  <2>3. source' \in [code : Codes, mtime : Nat] /\ new.code = "patched" /\ new.mtime = second
    BY <1>2, <2>1, <2>2 DEF BytecodeTypeOK, Codes
  <2>4. /\ worker' \in [Workers -> Worker] /\ worker'[w].at = "invalidate"
        /\ \A v \in Workers \ {w} : worker'[v] = worker[v]
    BY <1>2, <2>2, OneWorkerMoves DEF Goto, Places
  <2>5. BytecodeTypeOK' /\ BeforePatch'
    BY <1>1, <1>2, <2>2, <2>3, <2>4 DEF BytecodeTypeOK, BeforePatch
  <2>6. \A t \in Tests : test[t].at = "write" => test[t].stamp # second
    <3>1. CASE second = 0
      BY <1>1, <1>4, <3>1 DEF BytecodeInv, FirstSecond, Quiet, At
    <3>2. CASE second # 0
      BY <1>4, <3>2 DEF BytecodeInv, BeforePatch
    <3> QED
      BY <3>1, <3>2
  <2>7. AfterPatch'
    BY <1>1, <2>2, <2>3, <2>6 DEF AfterPatch
  <2>8. ~Safe
    BY <1>4 DEF Safe
  <2>9. Known'
    BY <1>1, <2>2, <2>3, <2>4, <2>8 DEF BytecodeInv, Known, At
  <2>10. Verifications'
    BY <1>1, <2>4 DEF BytecodeInv, Verifications, At
  <2>11. FirstSecond'
    BY <1>1, <2>2, <2>3, <2>4 DEF BytecodeInv, FirstSecond, Quiet, At
  <2> QED
    BY <2>5, <2>7, <2>9, <2>10, <2>11 DEF BytecodeInv
<1> QED
  BY <1>3, <1>4

LEMMA ReverseCheckKeeps ==
  ASSUME BytecodeInv, NEW w \in Workers, ReverseCheck(w)
  PROVE  BytecodeInv'
<1>1. PICK at \in {"invalidate", "disconfirm"} :
        Becomes(w, at, None) /\ (at = "invalidate" => source.code = "patched")
  BY DEF ReverseCheck, Goto, Following
<1>2. At(w, "reverse check") /\ UNCHANGED <<second, source, cache, run, test>>
  BY DEF ReverseCheck
<1>3. Permits(at, None)
  BY <1>1 DEF Permits
<1>4. run' \in Run /\ run' = run
  BY <1>2 DEF BytecodeInv, BytecodeTypeOK
<1> QED
  BY <1>1, <1>2, <1>3, <1>4, MoveKeeps DEF Places, At

LEMMA InvalidateKeeps ==
  ASSUME BytecodeInv, NEW w \in Workers, Invalidate(w)
  PROVE  BytecodeInv'
<1>1. /\ At(w, "invalidate") /\ cache' = None /\ Goto(w, "confirm")
      /\ UNCHANGED <<second, source, run, test>>
  BY DEF Invalidate, Following
<1>2. BytecodeTypeOK /\ source.code = "patched"
  BY <1>1 DEF BytecodeInv, Known
<1>3. /\ worker' \in [Workers -> Worker] /\ worker'[w].at = "confirm"
      /\ \A v \in Workers \ {w} : worker'[v] = worker[v]
  BY <1>1, <1>2, OneWorkerMoves DEF Goto, Places
<1>4. BytecodeTypeOK' /\ BeforePatch' /\ AfterPatch'
  BY <1>1, <1>2, <1>3 DEF BytecodeInv, BytecodeTypeOK, BeforePatch, AfterPatch
<1>5. Safe'
  BY <1>1, <1>2 DEF Safe, Stale
<1>6. Known'
  BY <1>1, <1>2, <1>5 DEF Known, Safe
<1>7. Verifications'
  BY <1>1, <1>3 DEF BytecodeInv, Verifications, At
<1>8. FirstSecond'
  BY <1>1, <1>3 DEF BytecodeInv, FirstSecond, Quiet, At
<1> QED
  BY <1>4, <1>6, <1>7, <1>8 DEF BytecodeInv

LEMMA ConfirmKeeps ==
  ASSUME BytecodeInv, NEW w \in Workers, Confirm(w) \/ Disconfirm(w)
  PROVE  BytecodeInv'
<1>1. PICK at \in {"verify", "raised"}, to \in {"SUCCEEDED", "FAILED"} :
        /\ Becomes(w, at, None) /\ run' = [run EXCEPT !.effect = to]
        /\ at = "verify" \/ to = "SUCCEEDED" => At(w, "confirm")
  BY DEF Confirm, Disconfirm, Goto, Following
<1>2. ~At(w, "idle") /\ UNCHANGED <<second, source, cache, test>>
  BY DEF Confirm, Disconfirm, At
<1>3. run \in Run
  BY DEF BytecodeInv, BytecodeTypeOK
<1>4. /\ run' \in Run /\ run'.effect = to
      /\ UNCHANGED <<run.holder, run.expires, run.ended>>
  BY <1>1, <1>3 DEF Run
<1>5. At(w, "confirm") => Safe
  BY DEF BytecodeInv, Known, At
<1>6. Permits(at, None)
  BY <1>1, <1>5 DEF Permits
<1> QED
  BY <1>1, <1>2, <1>4, <1>5, <1>6, MoveKeeps DEF Places

LEMMA VerifiedKeeps ==
  ASSUME BytecodeInv, NEW w \in Workers, Verified(w)
  PROVE  BytecodeInv'
<1>1. PICK t \in Tests :
        t = worker[w].test /\ test[t].at = "ended" /\ Becomes(w, "judge", t)
  BY DEF Verified
<1>2. At(w, "verifying") /\ UNCHANGED <<second, source, cache, run, test>>
  BY DEF Verified
<1>3. Permits("judge", t)
  BY <1>1, <1>2, PermitsAll DEF Permits, At
<1>4. run' \in Run /\ run' = run
  BY <1>2 DEF BytecodeInv, BytecodeTypeOK
<1> QED
  BY <1>1, <1>2, <1>3, <1>4, MoveKeeps DEF Places, At

LEMMA EndKeeps ==
  ASSUME BytecodeInv, NEW w \in Workers, End(w)
  PROVE  BytecodeInv'
<1>1. /\ worker' \in [Workers -> Worker] /\ worker'[w].at = "idle"
      /\ \A v \in Workers \ {w} : worker'[v] = worker[v]
  BY OneWorkerMoves DEF BytecodeInv, End, Goto, Places
<1>2. UNCHANGED <<second, source, cache, test>> /\ ~At(w, "idle")
  BY DEF End, At
<1>3. run \in Run
  BY DEF BytecodeInv, BytecodeTypeOK
<1>4. /\ run' \in Run /\ run'.effect = run.effect
      /\ \/ run' = run
         \/ run'.holder = None /\ run'.ended
  BY <1>3 DEF End, Run
<1>5. BytecodeTypeOK' /\ BeforePatch' /\ AfterPatch'
  BY <1>1, <1>2, <1>4 DEF BytecodeInv, BytecodeTypeOK, BeforePatch, AfterPatch
<1>6. Known'
  BY <1>1, <1>2, <1>4 DEF BytecodeInv, Known, At, Safe, Stale
<1>7. Verifications'
  BY <1>1, <1>2 DEF BytecodeInv, Verifications, At
<1>8. second = 0 => \A v \in Workers \ {w} : At(v, "idle")
  BY <1>2 DEF BytecodeInv, FirstSecond
<1>9. FirstSecond'
  <2>1. FirstSecond /\ UNCHANGED <<second, source, test>> /\ Quiet(Tests) = Quiet(Tests)'
    BY <1>1, <1>2 DEF BytecodeInv, Quiet
  <2> QED
    BY <1>1, <1>2, <1>4, <1>8, <2>1 DEF FirstSecond, At
<1> QED
  BY <1>5, <1>6, <1>7, <1>9 DEF BytecodeInv

LEMMA RaisesKeeps ==
  ASSUME BytecodeInv, NEW w \in Workers, Raises(w) \/ Leave(w)
  PROVE  BytecodeInv'
<1>1. PICK at \in {"raised", "idle"} : Becomes(w, at, None)
  BY DEF Raises, Leave, Goto
<1>2. ~At(w, "idle") /\ UNCHANGED <<second, source, cache, run, test>>
  BY DEF Raises, Leave, At
<1>3. Permits(at, None)
  BY <1>1 DEF Permits
<1>4. run' \in Run /\ run' = run
  BY <1>2 DEF BytecodeInv, BytecodeTypeOK
<1> QED
  BY <1>1, <1>2, <1>3, <1>4, MoveKeeps DEF Places

LEMMA PassKeeps ==
  ASSUME BytecodeInv, Pass
  PROVE  BytecodeInv'
<1>1. second' = second + 1 /\ UNCHANGED <<source, cache, run, worker, test>>
  BY DEF Pass
<1>2. second \in Nat
  BY DEF BytecodeInv, BytecodeTypeOK
<1>3. second' \in Nat /\ second' # 0
  BY <1>1, <1>2
<1>4. BytecodeTypeOK' /\ BeforePatch' /\ AfterPatch' /\ Verifications'
  BY <1>1, <1>3 DEF BytecodeInv, BytecodeTypeOK, BeforePatch, AfterPatch, Verifications, At
<1>5. Known' /\ FirstSecond'
  BY <1>1, <1>3 DEF BytecodeInv, Known, FirstSecond, Safe, Stale, At
<1> QED
  BY <1>4, <1>5 DEF BytecodeInv

LEMMA BytecodeInvNext == BytecodeInv /\ [BytecodeNext]_bytecodeVars => BytecodeInv'
<1> SUFFICES ASSUME BytecodeInv, [BytecodeNext]_bytecodeVars PROVE BytecodeInv'
  OBVIOUS
<1>1. ASSUME NEW w \in Workers, WorkerStep(w) PROVE BytecodeInv'
  <2>1. CASE RunTest(w, "reproduce", "reproducing") \/ RunTest(w, "verify", "verifying")
    BY <2>1, RunTestKeeps
  <2> QED
    BY <1>1, <2>1, ClaimKeeps, ReproducedKeeps, BeginApplyKeeps, GitApplyKeeps,
       ReverseCheckKeeps, InvalidateKeeps, ConfirmKeeps, VerifiedKeeps, EndKeeps,
       RaisesKeeps DEF WorkerStep
<1>2. CASE \E t \in Tests : Look(t) \/ Read(t) \/ Write(t)
  BY <1>2, LookKeeps, ReadKeeps, WriteKeeps
<1>3. CASE UNCHANGED bytecodeVars
  <2> USE <1>3 DEF bytecodeVars
  <2>1. BytecodeTypeOK' /\ BeforePatch' /\ AfterPatch'
    BY DEF BytecodeInv, BytecodeTypeOK, BeforePatch, AfterPatch
  <2>2. Known' /\ Verifications'
    BY DEF BytecodeInv, Known, Verifications, Safe, Stale, At
  <2>3. FirstSecond'
    BY DEF BytecodeInv, FirstSecond, Quiet, At
  <2> QED
    BY <2>1, <2>2, <2>3 DEF BytecodeInv
<1> QED
  BY <1>1, <1>2, <1>3, PassKeeps DEF BytecodeNext

(* The invariant holds for every interleaving of workers, test commands    *)
(* and the clock, at any distance in time.                                 *)
THEOREM BytecodeInvariant == BytecodeSpec => []BytecodeInv
BY BytecodeInvInit, BytecodeInvNext, PTL DEF BytecodeSpec

(* A worker that judges a verification judges one that executed the source *)
(* of the worktree, however the patch came to be confirmed                 *)
(* (workspace.py:144, 168, 178).                                           *)
THEOREM VerificationRunsSource == BytecodeSpec => []VerifiesPatchedSource
<1>1. BytecodeInv => VerifiesPatchedSource
  BY DEF BytecodeInv, Known, Verifications, Safe, VerifiesPatchedSource, At
<1> QED
  BY <1>1, BytecodeInvariant, PTL

(* Once the ledger has the patch as applied, no bytecode of the base is in *)
(* use any more, so that a replay need not delete any                      *)
(* (workspace.py:165-166).                                                 *)
THEOREM ConfirmedStaysFresh == BytecodeSpec => []ConfirmedMeansFresh
<1>1. BytecodeInv => ConfirmedMeansFresh
  BY DEF BytecodeInv, Known, Safe, Stale, CacheIsValid, ConfirmedMeansFresh
<1> QED
  BY <1>1, BytecodeInvariant, PTL
===============================================================================
