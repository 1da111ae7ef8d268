----------------------------- MODULE MCScanPool -----------------------------
(* Values for model checking ScanPool: a report of each verdict. *)
EXTENDS ScanPool

MCReports == {[verdict |-> "pass", risk |-> 1], [verdict |-> "warn", risk |-> 5],
              [verdict |-> "fail", risk |-> 3]}
MCParallels == {-1, 0, 1, 2}
=============================================================================
