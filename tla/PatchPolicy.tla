------------------------------ MODULE PatchPolicy ------------------------------
(***************************************************************************)
(* PatchPolicy.inspect (policy.py): one scan over the lines of a proposed  *)
(* patch that collects the paths it touches and counts its changes, then   *)
(* the judgement.  The scan goes by how a line starts; what the line is to *)
(* git (a header of the diff, or a line of a file) it does not know, nor   *)
(* which paths git takes from it.  A removed line "-- x" reads "--- x", an *)
(* added "++ x" reads "+++ x"; the scan skips the headers "rename to" and  *)
(* "copy to", takes off no prefix but a/ and b/, and splits a name at its  *)
(* blanks.                                                                 *)
(***************************************************************************)
EXTENDS Integers, Sequences, FiniteSets

CONSTANTS
  Paths,      \* normalized repository paths
  Protected,  \* the paths that match a protected pattern
  Lines,      \* lines a patch may have
  Candidates, \* patches a repairer may propose, with the paths it declares
  DevNull,    \* /dev/null, which is no path
  Invalid,    \* a name that _normalize_relative refuses
  MaxFiles,   \* max_files
  MaxSize     \* max_patch_bytes; a line counts as one

Names == Paths \cup {DevNull, Invalid}

Line ==
  [starts : {"diff --git ", "--- or +++ ", "+", "-", "other"},  \* "+++x" is "other"
   names : Seq(Names) \cup {Invalid},   \* what shlex makes of the rest, or Invalid
   marker : BOOLEAN,                    \* holds a marker of a forbidden kind of file
   role : {"header", "added", "removed", "context"},   \* what it is to git
   git : SUBSET Paths]                  \* the paths git takes from a header

ASSUME PolicyAssumption ==
  /\ Protected \subseteq Paths /\ IsFiniteSet(Paths)
  /\ DevNull \notin Paths /\ Invalid \notin Paths /\ DevNull # Invalid
  /\ MaxFiles \in Nat /\ MaxSize \in Nat
  /\ Lines \subseteq Line
  /\ \A cand \in Candidates :
       /\ cand.patch \in Seq(Lines)
       /\ cand.touched_files \subseteq Paths \cup {Invalid}

VARIABLES
  candidate,  \* the proposal under inspection
  scan        \* how far the inspection is, and what it found

vars == <<candidate, scan>>

Scan ==
  [at : {"measure", "scan", "refused", "accepted"},
   next : Nat,                  \* the line to look at
   actual_paths : SUBSET Paths,
   additions : Nat,
   deletions : Nat]

-----------------------------------------------------------------------------
Refused == scan' = [scan EXCEPT !.at = "refused"]

Oversized == Len(candidate.patch) > MaxSize
Forbidden == \E i \in DOMAIN candidate.patch : candidate.patch[i].marker

Measure ==
  /\ scan.at = "measure"
  /\ IF Oversized \/ Forbidden THEN Refused
                               ELSE scan' = [scan EXCEPT !.at = "scan"]

Scanning == scan.at = "scan" /\ scan.next <= Len(candidate.patch)
ThisLine == candidate.patch[scan.next]

HasPaths(line) == line.starts \in {"diff --git ", "--- or +++ "}

Readable(line) ==
  /\ line.names \notin {Invalid, <<>>}
  /\ line.starts = "diff --git " => Len(line.names) = 2

PathFields(line) == IF line.starts = "diff --git " THEN {1, 2} ELSE {1}

(* What a line names as the scan reads it; Invalid stands for a line that  *)
(* cannot be read.                                                         *)
NamedBy(line) ==
  CASE ~HasPaths(line) -> {}
    [] HasPaths(line) /\ ~Readable(line) -> {Invalid}
    [] HasPaths(line) /\ Readable(line) -> {line.names[i] : i \in PathFields(line)}

ScanPaths ==
  /\ Scanning
  /\ HasPaths(ThisLine)
  /\ IF Invalid \in NamedBy(ThisLine) THEN Refused
     ELSE scan' = [scan EXCEPT
            !.next = scan.next + 1,
            !.actual_paths = scan.actual_paths \cup (NamedBy(ThisLine) \ {DevNull})]

ScanChange_Both ==    \* mutant: a removed line counts as an addition as well
  /\ Scanning
  /\ ~HasPaths(ThisLine)
  /\ scan' = [scan EXCEPT
       !.next = scan.next + 1,
       !.additions = scan.additions + IF ThisLine.starts \in {"+", "-"} THEN 1 ELSE 0,
       !.deletions = scan.deletions + IF ThisLine.starts = "-" THEN 1 ELSE 0]

ScanChange ==
  /\ Scanning
  /\ ~HasPaths(ThisLine)
  /\ scan' = [scan EXCEPT
       !.next = scan.next + 1,
       !.additions = scan.additions + IF ThisLine.starts = "+" THEN 1 ELSE 0,
       !.deletions = scan.deletions + IF ThisLine.starts = "-" THEN 1 ELSE 0]

Permitted_Undeclared(paths) ==    \* mutant: paths need not be declared
  /\ paths # {}
  /\ Cardinality(paths) <= MaxFiles
  /\ Invalid \notin candidate.touched_files
  /\ candidate.touched_files \subseteq paths
  /\ paths \cap Protected = {}

Permitted(paths) ==
  /\ paths # {}
  /\ Cardinality(paths) <= MaxFiles
  /\ Invalid \notin candidate.touched_files
  /\ candidate.touched_files = paths
  /\ paths \cap Protected = {}

Judge ==
  /\ scan.at = "scan"
  /\ scan.next = Len(candidate.patch) + 1
  /\ IF Permitted(scan.actual_paths) THEN scan' = [scan EXCEPT !.at = "accepted"]
                                     ELSE Refused

Init ==
  /\ candidate \in Candidates
  /\ scan = [at |-> "measure", next |-> 1, actual_paths |-> {},
             additions |-> 0, deletions |-> 0]

Next == (Measure \/ ScanPaths \/ ScanChange \/ Judge) /\ UNCHANGED candidate

Spec == Init /\ [][Next]_vars

-----------------------------------------------------------------------------
(* Properties of the verdict.                                              *)

Headers == {i \in DOMAIN candidate.patch : candidate.patch[i].role = "header"}
HeaderNames == UNION {NamedBy(candidate.patch[i]) : i \in Headers}
HeaderPaths == HeaderNames \ {DevNull}

Role(role) == {i \in DOMAIN candidate.patch : candidate.patch[i].role = role}

(* No changed or unchanged line of a file starts the way a header does.    *)
Plain ==
  \A i \in DOMAIN candidate.patch :
    LET line == candidate.patch[i]
    IN  CASE line.role = "added" -> line.starts = "+"
          [] line.role = "removed" -> line.starts = "-"
          [] line.role = "context" -> line.starts = "other"
          [] OTHER -> line.starts \notin {"+", "-"}

(* The files that git apply touches, and the patches whose headers the scan*)
(* reads for all of them.  Nothing in the code ensures that: a header that *)
(* the scan skips or reads differently may name another file to git.       *)
GitPaths == UNION {candidate.patch[i].git : i \in Headers}
ReadForGit ==
  \A i \in Headers : candidate.patch[i].git \subseteq NamedBy(candidate.patch[i])

(* An accepted patch whose headers the scan reads for the files git takes  *)
(* from them touches only files that it declares, no protected file, and no*)
(* more files than the limit (README.md:107-109), whatever its other lines *)
(* look like, in whatever order they come.                                 *)
AcceptedPathsDeclared ==
  scan.at = "accepted" /\ ReadForGit =>
    /\ GitPaths \subseteq candidate.touched_files
    /\ GitPaths \cap Protected = {}
    /\ Cardinality(GitPaths) <= MaxFiles

(* A patch whose lines cannot be mistaken is judged by what its headers    *)
(* name to the scan alone, and its evidence counts the added and the       *)
(* removed lines (policy.py:104-120, recorded by pipeline.py:87-88).       *)
PlainPatchInspected ==
  Plain =>
    /\ scan.at = "refused" => \/ Oversized \/ Forbidden
                              \/ Invalid \in HeaderNames
                              \/ ~Permitted(HeaderPaths)
    /\ scan.at = "accepted" => /\ Permitted(HeaderPaths)
                               /\ scan.additions = Cardinality(Role("added"))
                               /\ scan.deletions = Cardinality(Role("removed"))

(* The diff of one file: its three headers, which agree, then lines of the *)
(* file.                                                                   *)
OneFileDiff ==
  LET patch == candidate.patch
  IN  /\ Len(patch) >= 3
      /\ Headers = 1..3
      /\ patch[1].starts = "diff --git "
      /\ patch[2].starts = "--- or +++ " /\ patch[3].starts = "--- or +++ "
      /\ patch[1].names = patch[2].names \o patch[3].names

(* The policy parses the diff and compares its actual file paths with the  *)
(* declaration (README.md:107-108): the diff of a file whose paths are in  *)
(* order is not refused.  It does not hold: a removed line "-- x" or an    *)
(* added "++ x" is taken for the header of a file x (policy.py:89).        *)
ActualPathsDecide ==
  OneFileDiff /\ Permitted(HeaderPaths) /\ ~Oversized /\ ~Forbidden
    => scan.at # "refused"
===============================================================================
