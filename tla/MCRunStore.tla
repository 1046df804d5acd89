------------------------------ MODULE MCRunStore ------------------------------
(* A small instance of RunStore: expiry recovery under fairness.  (The      *)
(* other properties of the store are checked in MCReport.)                  *)
EXTENDS RunStore

CONSTANTS
  MaxClock,  \* bound: the last tick
  MaxEvents  \* bound: audit events per run

InBounds ==
  /\ clock' <= MaxClock
  /\ \A r \in Runs : Len(events'[r]) <= MaxEvents

BoundedNext == StoreNext /\ InBounds
BoundedSpec == StoreInit /\ [][BoundedNext]_storeVars

(* Time passes, and workers keep asking for every run they could acquire.  *)
FairSpec ==
  /\ BoundedSpec
  /\ WF_storeVars(Tick /\ InBounds)
  /\ \A r \in Runs :
       WF_storeVars(/\ \E owner \in Owners, now \in ClockReads : AcquireRun(r, owner, now)
                    /\ InBounds)

(* Expiry recovery: a run whose holder let the lease run out does not stay *)
(* like that; a worker gets it (README.md:16).  The last disjunct is the   *)
(* model's bound.  It does not hold: nobody can get a WAITING run.         *)
ExpiryRecovery ==
  LET Expired(r) == runs[r].status \in Held /\ runs[r].lease_expires_at <= clock
  IN  \A r \in Runs : Expired(r) ~> (~Expired(r) \/ Len(events[r]) = MaxEvents)
===============================================================================
