----------------------------- MODULE ReportReader -----------------------------
(***************************************************************************)
(* The report command (report.py): it reads a run's row, then its events,  *)
(* then its latest checkpoint, each on a connection of its own, while      *)
(* workers go on writing; then it writes the page.  The three readings are *)
(* of three moments.                                                       *)
(***************************************************************************)
EXTENDS RunStore

CONSTANT Reports    \* processes that write a report

VARIABLE report     \* report[p]: what process p is about to read, and has read

reportVars == <<runs, effects, checkpoints, events, leases, clock, report>>

-----------------------------------------------------------------------------
(* "row" is get_run, "log" is events, "checkpoint" is latest_checkpoint;   *)
(* "written" is a page on disk.                                            *)

Following_LogFirst ==    \* mutant: the events are read before the row
  [idle |-> "log", log |-> "row", row |-> "checkpoint", checkpoint |-> "written"]

Following_CheckpointFirst ==    \* mutant: the events are read last
  [idle |-> "row", row |-> "checkpoint", checkpoint |-> "log", log |-> "written"]

Following ==
  [idle |-> "row", row |-> "log", log |-> "checkpoint", checkpoint |-> "written"]

Report ==
  [at : {"idle", "row", "log", "checkpoint", "written"},
   run : Runs \cup {None},
   row : Run \cup {None},
   log : Seq(Event),
   last : Nat]          \* sequence number of the checkpoint shown, 0 for none

Blank == [at |-> "idle", run |-> None, row |-> None, log |-> <<>>, last |-> 0]

-----------------------------------------------------------------------------
(* The command is called for some run, now or again.                       *)
Call(p, r) ==
  /\ report[p].at \in {"idle", "written"}
  /\ report' = [report EXCEPT ![p] = [Blank EXCEPT !.at = Following["idle"], !.run = r]]

(* get_run raises KeyError if there is no such run.                        *)
GetRun(p) ==
  LET row == runs[report[p].run]
  IN  /\ report[p].at = "row"
      /\ report' = [report EXCEPT ![p] =
           IF row.status = "ABSENT" THEN Blank
           ELSE [@ EXCEPT !.at = Following["row"], !.row = row]]

ReadEvents(p) ==
  /\ report[p].at = "log"
  /\ report' = [report EXCEPT ![p] =
       [@ EXCEPT !.at = Following["log"], !.log = events[report[p].run]]]

LatestCheckpoint_CountsFromZero(p) ==    \* mutant: one before the last
  /\ report[p].at = "checkpoint"
  /\ report' = [report EXCEPT ![p] =
       [@ EXCEPT !.at = Following["checkpoint"],
                 !.last = Len(checkpoints[report[p].run]) - 1]]

LatestCheckpoint(p) ==
  /\ report[p].at = "checkpoint"
  /\ report' = [report EXCEPT ![p] =
       [@ EXCEPT !.at = Following["checkpoint"],
                 !.last = Len(checkpoints[report[p].run])]]

ReportStep ==
  /\ \E p \in Reports :
       \/ \E r \in Runs : Call(p, r)
       \/ GetRun(p)
       \/ ReadEvents(p)
       \/ LatestCheckpoint(p)
  /\ UNCHANGED storeVars

StoreStep == StoreNext /\ UNCHANGED report

ReportInit == StoreInit /\ report = [p \in Reports |-> Blank]
ReportNext == StoreStep \/ ReportStep
ReportSpec == ReportInit /\ [][ReportNext]_reportVars

-----------------------------------------------------------------------------
(* Properties of the page.                                                 *)

Written(p) == report[p].at = "written"

(* A report is of its type: the checkpoint it shows has a sequence number. *)
ReportTypeOK == report \in [Reports -> Report]

(* A page that shows a run as ended is the whole story: its row, timeline  *)
(* and checkpoint are the run's last ones, although they were read one     *)
(* after the other while its worker was ending it (report.py:12-14).       *)
EndedReportIsFinal ==
  \A p \in Reports :
    Written(p) /\ report[p].row.status \in Terminal
      => LET r == report[p].run
         IN  /\ report[p].row = runs[r]
             /\ report[p].log = events[r]
             /\ report[p].last = Len(checkpoints[r])

(* A page never shows a row its own timeline does not reach: some beginning *)
(* of the timeline explains the row (report.py:12-13).                     *)
TimelineReachesRow ==
  \A p \in Reports :
    Written(p) => \E n \in 0..Len(report[p].log) :
                    Explains(SubSeq(report[p].log, 1, n), report[p].row)

(* A page never lists the recording of a checkpoint later than the one it  *)
(* shows as the latest (report.py:13-14).                                  *)
LatestCheckpointIsLatest ==
  \A p \in Reports :
    Written(p) => LET recorded == {i \in DOMAIN report[p].log :
                                    report[p].log[i].type = "CHECKPOINT_RECORDED"}
                  IN  Cardinality(recorded) <= report[p].last
===============================================================================
