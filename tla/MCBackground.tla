---------------------------- MODULE MCBackground ----------------------------
(* An instance of BackgroundProps for TLC. *)
EXTENDS BackgroundProps, TLC

CONSTANTS flush, gc, once, w1, w2

ThreeTasks == {flush, gc, once}
FlushAndGC == {flush, gc}
TwoWorkers == {w1, w2}
Priorities == flush :> 2 @@ gc :> 1 @@ once :> 1
Kinds == flush :> "kFlush" @@ gc :> "kMaintenance" @@ once :> "kMaintenance"
OneName == flush :> NoName @@ gc :> NoName @@ once :> "n"
=============================================================================
