---------------------------- MODULE MCRunnerCycle ----------------------------
(* RunnerCycle as TLC checks it.  The .cfg files keep the code's relation  *)
(* between the day, the night window and the spend window, the day less    *)
(* the night: 5, 2 and 3 ticks, or 12 and 10 ticks of two hours.           *)
EXTENDS RunnerCycle

Night == [from |-> 1, to |-> 3]

\* the nightly batch, and a paid job scheduled within the spend window
Batch == [interval |-> Day, lookback |-> 2, cost |-> 2, window |-> Night]
Brief == [interval |-> 2, lookback |-> 3, cost |-> 1, window |-> NoWindow]

BatchAndBrief == <<Batch, Brief>>
=============================================================================
