------------------------------- MODULE MCReport -------------------------------
(* A small instance of the store and its reader: two workers pass a run    *)
(* back and forth, record checkpoints, execute an operation under one key  *)
(* with two requests, and end the run, while its page is written.          *)
EXTENDS ReportReader, TLC

CONSTANTS
  MaxClock,   \* bound: the last tick
  MaxEvents,  \* bound: audit events per run
  MaxShown    \* bound: audit events per run while a page is written

OwnerSymmetry == Permutations(Owners)

(* Bound: a page is written of runs that have executed no operation (it    *)
(* does not show the ledger, and an operation's events are like others).   *)
InBounds ==
  /\ clock' <= MaxClock
  /\ \A r \in Runs : Len(events'[r]) <= MaxEvents
  /\ \/ \A p \in Reports : report'[p] = Blank
     \/ \A r \in Runs : /\ Len(events'[r]) <= MaxShown
                        /\ \A key \in Keys : effects'[r][key] = AbsentEffect

BoundedSpec == ReportInit /\ [][ReportNext /\ InBounds]_reportVars
===============================================================================
