------------------------------ MODULE MCVerdicts ------------------------------
(***************************************************************************)
(* The profiles: both window sizes, each limit alone and with others,      *)
(* overload rejected or skipped, with and without a final reading.         *)
(***************************************************************************)
EXTENDS Verdicts

MCValues == {-9, 0, 9, 10, 99}

Fast == [window |-> 2, settle |-> 0, wait |-> 2, interval |-> 1, stdev |-> 0,
         rel |-> Unlimited, slope |-> Unlimited, reject |-> FALSE, final |-> FALSE]
MCProfiles == {
  Fast,
  [Fast EXCEPT !.stdev = Unlimited, !.rel = <<1, 19>>, !.final = TRUE],
  [Fast EXCEPT !.window = 3, !.wait = 3, !.stdev = 9, !.slope = <<1, 9>>, !.reject = TRUE],
  [Fast EXCEPT !.settle = 3, !.stdev = Unlimited]}
MCLimits == {0, 9}
MCSteps == {[lower |-> 0, upper |-> 9, known |-> TRUE],
            [lower |-> NoLimit, upper |-> 0, known |-> TRUE],
            [lower |-> NoLimit, upper |-> NoLimit, known |-> FALSE]}
=============================================================================
