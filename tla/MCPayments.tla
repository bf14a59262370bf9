----------------------------- MODULE MCPayments -----------------------------
(***************************************************************************)
(* Small instances of Payment_Service.                                     *)
(***************************************************************************)
EXTENDS Payments

BothJobs == {"publisher", "logger"}
Mode(jobs, apart, failures) == [jobs |-> jobs, apart |-> apart, faults |-> failures]

AllModes == {Mode(BothJobs, FALSE, 1), Mode(BothJobs, TRUE, 1),
             Mode({"publisher"}, FALSE, 2)}
AsScheduled == {Mode(BothJobs, TRUE, 0)}
=============================================================================
