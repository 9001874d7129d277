----------------------------- MODULE MCExecution -----------------------------
(* Requests over three endpoints, one of which has no driver: a job that   *)
(* falls back, one that retries on its conditions only, one that starts at *)
(* the endpoint without a driver.                                          *)
EXTENDS Execution, TLC

CONSTANTS a, b, c

FallbackJob == [order |-> <<a, b>>, strategy |-> "Fallback", retry_on |-> {}]
PickyJob == [order |-> <<b, a>>, strategy |-> "RoundRobin",
             retry_on |-> {"status_429", "transport"}]
DriverlessJob == [order |-> <<c, a>>, strategy |-> "Fallback", retry_on |-> {}]

AllJobs == {FallbackJob, PickyJob, DriverlessJob}

CapOnB == [e \in Endpoints |-> IF e = b THEN 1 ELSE 99]
=============================================================================
