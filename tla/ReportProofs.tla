---------------------------- MODULE ReportProofs ----------------------------
(* Theorems about ReportReader: what a page shows of a run that has ended, *)
(* for any number of report processes and any store.                       *)
EXTENDS ReportReader, RunStoreProofs

(* The inductive invariant: what process p has read so far.  An ended run  *)
(* cannot change between two readings, so it is still what was read.       *)
Ended(p) == report[p].row.status \in Terminal

ReportOf(p) ==
  LET r == report[p].run
      at == report[p].at
  IN  /\ at # "idle" => r \in Runs
      /\ at \in {"log", "checkpoint", "written"} /\ Ended(p) => report[p].row = runs[r]
      /\ at \in {"checkpoint", "written"} /\ Ended(p) => report[p].log = events[r]
      /\ at = "written" /\ Ended(p) => report[p].last = Len(checkpoints[r])

ReportInv == Inv /\ ReportTypeOK /\ \A p \in Reports : ReportOf(p)

-----------------------------------------------------------------------------
(* A process that has read nothing is of its type.                         *)
LEMMA BlankType == Blank \in Report /\ Blank.at = "idle"
<1>1. <<>> \in Seq(Event)
  OBVIOUS
<1> QED
  BY <1>1 DEF Blank, Report

LEMMA ReportInvInit == ReportInit => ReportInv
BY InvInit, BlankType DEF ReportInit, ReportInv, ReportTypeOK, ReportOf

(* A step of the store leaves the pages alone, and what they show of ended *)
(* runs remains true.                                                      *)
LEMMA StoreStepKeeps ==
  ASSUME ReportInv, [StoreNext]_storeVars, report' = report
  PROVE  ReportInv'
<1>1. Inv'
  BY InvNext DEF ReportInv
<1>2. ReportTypeOK'
  BY DEF ReportInv, ReportTypeOK
<1>3. ASSUME NEW p \in Reports PROVE ReportOf(p)'
  <2> DEFINE r == report[p].run
             at == report[p].at
  <2>1. ReportOf(p)
    BY DEF ReportInv
  <2>2. CASE at \in {"log", "checkpoint", "written"} /\ Ended(p)
    <3>1. r \in Runs /\ runs[r].status \in Terminal
      BY <2>1, <2>2 DEF ReportOf, Ended
    <3>2. Frozen(r)
      BY <3>1, EndedRunFrozen DEF ReportInv
    <3> QED
      BY <2>1, <3>2 DEF ReportOf, Ended, Frozen
  <2>3. CASE ~(at \in {"log", "checkpoint", "written"} /\ Ended(p))
    BY <2>1, <2>3 DEF ReportOf, Ended
  <2> QED
    BY <2>2, <2>3
<1> QED
  BY <1>1, <1>2, <1>3 DEF ReportInv

(* A step of process p that replaces its report leaves the others alone.   *)
LEMMA OneReportChanges ==
  ASSUME ReportInv, UNCHANGED storeVars, NEW p \in Reports, NEW new \in Report,
         report' = [report EXCEPT ![p] = new], ReportOf(p)'
  PROVE  ReportInv'
<1>1. /\ runs' = runs /\ effects' = effects /\ checkpoints' = checkpoints
      /\ events' = events /\ leases' = leases /\ clock' = clock
  BY DEF storeVars
<1>2. Inv'
  BY <1>1 DEF ReportInv, Inv, IInv, TypeOK, LeaseWellFormed, TokenOrder,
              OneHolderPerToken, FencedWrites
<1>3. ReportTypeOK'
  BY DEF ReportInv, ReportTypeOK
<1>4. ASSUME NEW q \in Reports \ {p} PROVE ReportOf(q)'
  <2>1. ReportOf(q) /\ report'[q] = report[q]
    BY DEF ReportInv, ReportTypeOK
  <2> QED
    BY <1>1, <2>1 DEF ReportOf, Ended
<1> QED
  BY <1>2, <1>3, <1>4 DEF ReportInv

LEMMA CallKeeps ==
  ASSUME ReportInv, UNCHANGED storeVars, NEW p \in Reports, NEW r \in Runs, Call(p, r)
  PROVE  ReportInv'
<1> DEFINE new == [Blank EXCEPT !.at = "row", !.run = r]
<1>1. new \in Report /\ new.at = "row" /\ new.run = r
  BY BlankType DEF Report
<1>2. report' = [report EXCEPT ![p] = new]
  BY DEF Call, Following
<1> HIDE DEF new
<1>3. report'[p] = new
  BY <1>2 DEF ReportInv, ReportTypeOK
<1>4. ReportOf(p)'
  BY <1>1, <1>3 DEF ReportOf
<1> QED
  BY <1>1, <1>2, <1>4, OneReportChanges

LEMMA GetRunKeeps ==
  ASSUME ReportInv, UNCHANGED storeVars, NEW p \in Reports, GetRun(p)
  PROVE  ReportInv'
<1> DEFINE r == report[p].run
<1>1. /\ report[p] \in Report /\ report[p].at = "row" /\ r \in Runs
      /\ runs[r] \in Run /\ runs' = runs
  BY DEF GetRun, ReportInv, ReportTypeOK, ReportOf, Inv, IInv, TypeOK, storeVars
<1>2. CASE runs[r].status = "ABSENT"
  <2>1. report' = [report EXCEPT ![p] = Blank]
    BY <1>2 DEF GetRun
  <2>2. report'[p] = Blank
    BY <2>1 DEF ReportInv, ReportTypeOK
  <2>3. ReportOf(p)'
    BY <2>2, BlankType DEF ReportOf
  <2> QED
    BY <2>1, <2>3, BlankType, OneReportChanges
<1>3. CASE runs[r].status # "ABSENT"
  <2> DEFINE new == [report[p] EXCEPT !.at = "log", !.row = runs[r]]
  <2>1. new \in Report /\ new.at = "log" /\ new.run = r /\ new.row = runs[r]
    BY <1>1 DEF Report
  <2>2. report' = [report EXCEPT ![p] = new]
    BY <1>3 DEF GetRun, Following
  <2> HIDE DEF new
  <2>3. report'[p] = new
    BY <2>2 DEF ReportInv, ReportTypeOK
  <2>4. ReportOf(p)'
    BY <1>1, <2>1, <2>3 DEF ReportOf
  <2> QED
    BY <2>1, <2>2, <2>4, OneReportChanges
<1> QED
  BY <1>2, <1>3

LEMMA ReadEventsKeeps ==
  ASSUME ReportInv, UNCHANGED storeVars, NEW p \in Reports, ReadEvents(p)
  PROVE  ReportInv'
<1> DEFINE r == report[p].run
           new == [report[p] EXCEPT !.at = "checkpoint", !.log = events[r]]
<1>1. /\ ReportOf(p) /\ report[p] \in Report /\ report[p].at = "log" /\ r \in Runs
      /\ events[r] \in Seq(Event) /\ runs' = runs /\ events' = events
  BY DEF ReadEvents, ReportInv, ReportTypeOK, ReportOf, Inv, IInv, TypeOK, storeVars
<1>2. /\ new \in Report /\ new.at = "checkpoint" /\ new.run = r
      /\ new.row = report[p].row /\ new.log = events[r]
  BY <1>1 DEF Report
<1>3. report' = [report EXCEPT ![p] = new]
  BY DEF ReadEvents, Following
<1> HIDE DEF new
<1>4. report'[p] = new
  BY <1>3 DEF ReportInv, ReportTypeOK
<1>5. ReportOf(p)'
  BY <1>1, <1>2, <1>4 DEF ReportOf, Ended
<1> QED
  BY <1>2, <1>3, <1>5, OneReportChanges

LEMMA LatestCheckpointKeeps ==
  ASSUME ReportInv, UNCHANGED storeVars, NEW p \in Reports, LatestCheckpoint(p)
  PROVE  ReportInv'
<1> DEFINE r == report[p].run
           last == Len(checkpoints[r])
           new == [report[p] EXCEPT !.at = "written", !.last = last]
<1>1. /\ ReportOf(p) /\ report[p] \in Report /\ report[p].at = "checkpoint"
      /\ r \in Runs /\ checkpoints[r] \in Seq(Checkpoint)
      /\ runs' = runs /\ events' = events /\ checkpoints' = checkpoints
  BY DEF LatestCheckpoint, ReportInv, ReportTypeOK, ReportOf, Inv, IInv, TypeOK,
         storeVars
<1>2. last \in Nat
  BY <1>1, LenProperties
<1>3. /\ new \in Report /\ new.at = "written" /\ new.run = r
      /\ new.row = report[p].row /\ new.log = report[p].log /\ new.last = last
  BY <1>1, <1>2 DEF Report
<1>4. report' = [report EXCEPT ![p] = new]
  BY DEF LatestCheckpoint, Following
<1> HIDE DEF new
<1>5. report'[p] = new
  BY <1>4 DEF ReportInv, ReportTypeOK
<1>6. ReportOf(p)'
  BY <1>1, <1>3, <1>5 DEF ReportOf, Ended
<1> QED
  BY <1>3, <1>4, <1>6, OneReportChanges

LEMMA ReportInvNext == ReportInv /\ [ReportNext]_reportVars => ReportInv'
<1> SUFFICES ASSUME ReportInv, [ReportNext]_reportVars PROVE ReportInv'
  OBVIOUS
<1>1. CASE StoreStep
  BY <1>1, StoreStepKeeps DEF StoreStep
<1>2. CASE ReportStep
  BY <1>2, CallKeeps, GetRunKeeps, ReadEventsKeeps, LatestCheckpointKeeps
     DEF ReportStep
<1>3. CASE UNCHANGED reportVars
  BY <1>3, StoreStepKeeps DEF reportVars, storeVars
<1> QED
  BY <1>1, <1>2, <1>3 DEF ReportNext

(* The invariant holds of every page, at every moment of its reading.      *)
THEOREM ReportInvariant == ReportSpec => []ReportInv
BY ReportInvInit, ReportInvNext, PTL DEF ReportSpec

(* What a process reads is of its type, the number of a checkpoint too.    *)
THEOREM ReportTypeCorrect == ReportSpec => []ReportTypeOK
BY ReportInvariant, PTL DEF ReportInv

(* The page of an ended run is the whole story (report.py:12-14): whatever *)
(* workers do between its three readings, they are of the same, last       *)
(* state.                                                                  *)
THEOREM EndedPageIsFinal == ReportSpec => []EndedReportIsFinal
<1>1. ReportInv => EndedReportIsFinal
  BY DEF ReportInv, ReportOf, Ended, EndedReportIsFinal, Written
<1> QED
  BY <1>1, ReportInvariant, PTL

-----------------------------------------------------------------------------
(* What a page tells of a run, ended or not.                               *)

(* Some beginning of the log explains the row.                             *)
Reaches(log, row) == \E n \in 0..Len(log) : Explains(SubSeq(log, 1, n), row)

(* The inductive invariant: the log is read after the row, so it reaches   *)
(* the row; the latest checkpoint is read after the log, so it is none of  *)
(* those before the ones the log lists.                                    *)
PageOf(p) ==
  LET r == report[p].run
      at == report[p].at
  IN  /\ at = "log" => Reaches(events[r], report[p].row)
      /\ at \in {"checkpoint", "written"} => Reaches(report[p].log, report[p].row)
      /\ at = "checkpoint" =>
           Cardinality(RecordedIn(report[p].log)) <= Len(checkpoints[r])
      /\ at = "written" => Cardinality(RecordedIn(report[p].log)) <= report[p].last

PageInv == AuditInv /\ \A p \in Reports : PageOf(p)

(* A log that explains a row reaches it.                                   *)
LEMMA WholeLogReaches ==
  ASSUME NEW log \in Seq(Event), NEW row, Explains(log, row)
  PROVE  Reaches(log, row)
<1>1. SubSeq(log, 1, Len(log)) = log /\ Len(log) \in 0..Len(log)
  OBVIOUS
<1> QED
  BY <1>1 DEF Reaches

(* A longer log still does.                                                *)
LEMMA LongerLogReaches ==
  ASSUME NEW log \in Seq(Event), NEW row, Reaches(log, row), NEW e \in Event
  PROVE  Reaches(Append(log, e), row)
<1>1. PICK n \in 0..Len(log) : Explains(SubSeq(log, 1, n), row)
  BY DEF Reaches
<1>2. SubSeq(Append(log, e), 1, n) = SubSeq(log, 1, n)
  OBVIOUS
<1>3. n \in 0..Len(Append(log, e))
  OBVIOUS
<1> QED
  BY <1>1, <1>2, <1>3 DEF Reaches

(* A log lists finitely many checkpoints.                                  *)
LEMMA RecordedFinite ==
  ASSUME NEW log \in Seq(Event)
  PROVE  Cardinality(RecordedIn(log)) \in Nat
<1>1. Len(log) \in Nat /\ DOMAIN log = 1..Len(log)
  BY LenProperties
<1>2. IsFiniteSet(1..Len(log))
  BY <1>1, FS_Interval
<1>3. RecordedIn(log) \in SUBSET (1..Len(log))
  BY <1>1 DEF RecordedIn
<1>4. IsFiniteSet(RecordedIn(log))
  BY <1>2, <1>3, FS_Subset
<1> QED
  BY <1>4, FS_CardinalityType

(* Logs and checkpoints only grow.                                         *)
LEMMA StoreGrows ==
  ASSUME Inv, [StoreNext]_storeVars, NEW r \in Runs
  PROVE  /\ \/ events'[r] = events[r]
            \/ \E e \in Event : events'[r] = Append(events[r], e)
         /\ Len(checkpoints[r]) \in Nat /\ Len(checkpoints'[r]) \in Nat
         /\ Len(checkpoints[r]) <= Len(checkpoints'[r])
<1>1. /\ checkpoints[r] \in Seq(Checkpoint) /\ Len(checkpoints[r]) \in Nat
  BY LenProperties DEF Inv, IInv, TypeOK
<1>2. ASSUME NEW s \in Runs, NEW e \in Event, Logged(s, e)
      PROVE  /\ \/ events'[r] = events[r]
                \/ events'[r] = Append(events[r], e)
             /\ Len(checkpoints'[r]) \in Nat
             /\ Len(checkpoints[r]) <= Len(checkpoints'[r])
  <2>1. CASE s = r
    BY <1>1, <1>2, <2>1, AppendProperties DEF Logged
  <2>2. CASE s # r
    BY <1>1, <1>2, <2>2 DEF Logged, OnlyRun
  <2> QED
    BY <2>1, <2>2
<1>3. ASSUME \/ \E s \in Runs : Restarted(s)
             \/ UNCHANGED <<runs, effects, checkpoints, events>>
      PROVE  events'[r] = events[r] /\ checkpoints'[r] = checkpoints[r]
  BY <1>3 DEF Restarted
<1> QED
  BY <1>1, <1>2, <1>3, StepLogged DEF Inv

(* Nothing is read at the start.                                           *)
LEMMA PageInvInit == ReportInit => PageInv
BY AuditInit, BlankType DEF ReportInit, PageInv, PageOf

(* A step of the store.                                                    *)
LEMMA StoreStepKeepsPages ==
  ASSUME ReportInv, PageInv, [StoreNext]_storeVars, report' = report
  PROVE  PageInv'
<1>1. AuditInv'
  BY AuditNext DEF ReportInv, PageInv
<1>2. ASSUME NEW p \in Reports PROVE PageOf(p)'
  <2> DEFINE r == report[p].run
             at == report[p].at
             recorded == Cardinality(RecordedIn(report[p].log))
  <2>1. PageOf(p)
    BY DEF PageInv
  <2>2. at # "idle" => r \in Runs
    BY DEF ReportInv, ReportOf
  <2>3. r \in Runs => /\ events[r] \in Seq(Event)
                      /\ Len(checkpoints[r]) \in Nat /\ Len(checkpoints'[r]) \in Nat
                      /\ Len(checkpoints[r]) <= Len(checkpoints'[r])
                      /\ \/ events'[r] = events[r]
                         \/ \E e \in Event : events'[r] = Append(events[r], e)
    BY StoreGrows DEF ReportInv, Inv, IInv, TypeOK
  <2>4. at = "log" => Reaches(events'[r], report[p].row)
    BY <2>1, <2>2, <2>3, LongerLogReaches DEF PageOf
  <2>5. recorded \in Nat
    BY RecordedFinite DEF ReportInv, ReportTypeOK, Report
  <2>6. at = "checkpoint" => recorded <= Len(checkpoints'[r])
    BY <2>1, <2>2, <2>3, <2>5 DEF PageOf
  <2> QED
    BY <2>1, <2>4, <2>6 DEF PageOf
<1> QED
  BY <1>1, <1>2 DEF PageInv

(* The pages of the processes that take no step.                           *)
LEMMA OtherPagesStay ==
  ASSUME ReportInv, PageInv, UNCHANGED storeVars, NEW p \in Reports, NEW new,
         report' = [report EXCEPT ![p] = new], PageOf(p)'
  PROVE  PageInv'
<1>1. /\ runs' = runs /\ effects' = effects /\ checkpoints' = checkpoints
      /\ events' = events
  BY DEF storeVars
<1>2. AuditInv'
  BY AuditNext DEF ReportInv, PageInv
<1>3. ASSUME NEW q \in Reports \ {p} PROVE PageOf(q)'
  <2>1. PageOf(q) /\ report'[q] = report[q]
    BY DEF PageInv, ReportInv, ReportTypeOK
  <2> QED
    BY <1>1, <2>1 DEF PageOf
<1> QED
  BY <1>2, <1>3 DEF PageInv

(* The command is called: nothing is read yet.                             *)
LEMMA CallKeepsPages ==
  ASSUME ReportInv, PageInv, UNCHANGED storeVars, NEW p \in Reports, NEW r \in Runs,
         Call(p, r)
  PROVE  PageInv'
<1> DEFINE new == [Blank EXCEPT !.at = "row", !.run = r]
<1>1. new.at = "row"
  BY BlankType DEF Report
<1>2. report' = [report EXCEPT ![p] = new]
  BY DEF Call, Following
<1> HIDE DEF new
<1>3. report'[p] = new
  BY <1>2 DEF ReportInv, ReportTypeOK
<1>4. PageOf(p)'
  BY <1>1, <1>3 DEF PageOf
<1> QED
  BY <1>2, <1>4, OtherPagesStay

(* The row is read: the log explains it at this moment.                    *)
LEMMA GetRunKeepsPages ==
  ASSUME ReportInv, PageInv, UNCHANGED storeVars, NEW p \in Reports, GetRun(p)
  PROVE  PageInv'
<1> DEFINE r == report[p].run
<1>1. /\ report[p] \in Report /\ report[p].at = "row" /\ r \in Runs
      /\ events[r] \in Seq(Event) /\ events' = events
  BY DEF GetRun, ReportInv, ReportTypeOK, ReportOf, Inv, IInv, TypeOK, storeVars
<1>2. CASE runs[r].status = "ABSENT"
  <2>1. report' = [report EXCEPT ![p] = Blank]
    BY <1>2 DEF GetRun
  <2>2. report'[p] = Blank
    BY <2>1 DEF ReportInv, ReportTypeOK
  <2>3. PageOf(p)'
    BY <2>2, BlankType DEF PageOf
  <2> QED
    BY <2>1, <2>3, OtherPagesStay
<1>3. CASE runs[r].status # "ABSENT"
  <2> DEFINE new == [report[p] EXCEPT !.at = "log", !.row = runs[r]]
  <2>1. new.at = "log" /\ new.run = r /\ new.row = runs[r]
    BY <1>1 DEF Report
  <2>2. report' = [report EXCEPT ![p] = new]
    BY <1>3 DEF GetRun, Following
  <2> HIDE DEF new
  <2>3. report'[p] = new
    BY <2>2 DEF ReportInv, ReportTypeOK
  <2>4. Reaches(events[r], runs[r])
    BY <1>1, WholeLogReaches DEF PageInv, AuditInv, AuditExplainsRun
  <2>5. PageOf(p)'
    BY <1>1, <2>1, <2>3, <2>4 DEF PageOf
  <2> QED
    BY <2>2, <2>5, OtherPagesStay
<1> QED
  BY <1>2, <1>3

(* The log is read: it reaches the row, and lists the checkpoints there are.*)
LEMMA ReadEventsKeepsPages ==
  ASSUME ReportInv, PageInv, UNCHANGED storeVars, NEW p \in Reports, ReadEvents(p)
  PROVE  PageInv'
<1> DEFINE r == report[p].run
           new == [report[p] EXCEPT !.at = "checkpoint", !.log = events[r]]
<1>1. /\ PageOf(p) /\ report[p] \in Report /\ report[p].at = "log" /\ r \in Runs
      /\ checkpoints[r] \in Seq(Checkpoint) /\ checkpoints' = checkpoints
  BY DEF ReadEvents, ReportInv, ReportTypeOK, ReportOf, PageInv, Inv, IInv, TypeOK,
         storeVars
<1>2. /\ new.at = "checkpoint" /\ new.run = r
      /\ new.row = report[p].row /\ new.log = events[r]
  BY <1>1 DEF Report
<1>3. report' = [report EXCEPT ![p] = new]
  BY DEF ReadEvents, Following
<1> HIDE DEF new
<1>4. report'[p] = new
  BY <1>3 DEF ReportInv, ReportTypeOK
<1>5. Cardinality(RecordedIn(events[r])) = Len(checkpoints[r])
  BY <1>1 DEF PageInv, AuditInv, AuditCountsCheckpoints
<1>6. Len(checkpoints[r]) \in Nat
  BY <1>1, LenProperties
<1>7. PageOf(p)'
  BY <1>1, <1>2, <1>4, <1>5, <1>6 DEF PageOf
<1> QED
  BY <1>3, <1>7, OtherPagesStay

(* The latest checkpoint is read: there are no fewer than the log lists.   *)
LEMMA LatestCheckpointKeepsPages ==
  ASSUME ReportInv, PageInv, UNCHANGED storeVars, NEW p \in Reports, LatestCheckpoint(p)
  PROVE  PageInv'
<1> DEFINE r == report[p].run
           new == [report[p] EXCEPT !.at = "written", !.last = Len(checkpoints[r])]
<1>1. /\ PageOf(p) /\ report[p] \in Report /\ report[p].at = "checkpoint"
  BY DEF LatestCheckpoint, ReportInv, ReportTypeOK, PageInv
<1>2. /\ new.at = "written" /\ new.run = r
      /\ new.row = report[p].row /\ new.log = report[p].log
      /\ new.last = Len(checkpoints[r])
  BY <1>1 DEF Report
<1>3. report' = [report EXCEPT ![p] = new]
  BY DEF LatestCheckpoint, Following
<1> HIDE DEF new
<1>4. report'[p] = new
  BY <1>3 DEF ReportInv, ReportTypeOK
<1>5. PageOf(p)'
  BY <1>1, <1>2, <1>4 DEF PageOf
<1> QED
  BY <1>3, <1>5, OtherPagesStay

(* Every step preserves it.                                                *)
LEMMA PageInvNext == ReportInv /\ PageInv /\ [ReportNext]_reportVars => PageInv'
<1> SUFFICES ASSUME ReportInv, PageInv, [ReportNext]_reportVars PROVE PageInv'
  OBVIOUS
<1>1. CASE StoreStep
  BY <1>1, StoreStepKeepsPages DEF StoreStep
<1>2. CASE ReportStep
  BY <1>2, CallKeepsPages, GetRunKeepsPages, ReadEventsKeepsPages,
     LatestCheckpointKeepsPages DEF ReportStep
<1>3. CASE UNCHANGED reportVars
  BY <1>3, StoreStepKeepsPages DEF reportVars, storeVars
<1> QED
  BY <1>1, <1>2, <1>3 DEF ReportNext

(* What a process has read of a run, ended or not, fits together.          *)
THEOREM PageInvariant == ReportSpec => []PageInv
BY PageInvInit, PageInvNext, ReportInvariant, PTL DEF ReportSpec

(* A page never shows a row its own timeline does not reach                *)
(* (report.py:12-13): the row is read before the log, and the log explains *)
(* every row the run has had.                                              *)
THEOREM TimelineExplainsRow == ReportSpec => []TimelineReachesRow
<1>1. PageInv => TimelineReachesRow
  BY DEF PageInv, PageOf, Reaches, TimelineReachesRow, Written
<1> QED
  BY <1>1, PageInvariant, PTL

(* A page never lists a checkpoint later than the one it calls the latest  *)
(* (report.py:13-14).                                                      *)
THEOREM ShownCheckpointIsLatest == ReportSpec => []LatestCheckpointIsLatest
<1>1. PageInv => LatestCheckpointIsLatest
  BY DEF PageInv, PageOf, RecordedIn, LatestCheckpointIsLatest, Written
<1> QED
  BY <1>1, PageInvariant, PTL
===============================================================================
