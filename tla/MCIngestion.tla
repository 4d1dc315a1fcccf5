---------------------------- MODULE MCIngestion ----------------------------
(* Two copies of one document, the second on Drive.  Crashes, changed settings, *)
(* requests and failures are combined in six ways.                              *)
EXTENDS Ingestion

CONSTANTS a, b, h, t1, t2, u1, u2

Same == [f \in File |-> h]
B(files, ts, most, calls, faults, crashes, changes) ==
  [files |-> files, threads |-> ts, rows |-> most, requests |-> calls, faults |-> faults, crashes |-> crashes, changes |-> changes]
MCBudgets == {
  B({a, b}, {t1, t2}, 3, 0, 0, 1, 0), B({a, b}, {t1, t2}, 2, 0, 0, 0, 1),
  B({a}, {t1}, 1, 3, 0, 0, 0), B({a}, {t1}, 1, 2, 0, 1, 0), B({a}, {t1}, 1, 1, 0, 1, 1), B({a, b}, {t1}, 2, 1, 1, 0, 0)}
=============================================================================
