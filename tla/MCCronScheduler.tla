--------------------------- MODULE MCCronScheduler ----------------------------
(* Constants for model-checking the scheduler: minute 0 of the model is 23:59 *)
(* of a Saturday, so that hour, day and week wrap.                            *)
EXTENDS CronScheduler, TLC

CONSTANTS even, sunday, noon, every, docs, all, hook, open

Star == [kind |-> "any"]
Only(v) == [kind |-> "list", values |-> v]
Daily(h) == [minute |-> Only({0, 1, 59}), hour |-> Only({h}), dom |-> Star, mon |-> Star, dow |-> Star]

MCExpression ==
    (even :> [minute |-> [kind |-> "step", step |-> 2],
              hour |-> Star, dom |-> Star, mon |-> Star, dow |-> Star])
    @@ (sunday :> [minute |-> Star, hour |-> Star, dom |-> Only({1, 2}),
                   mon |-> Only({6}), dow |-> Only({7})])
    @@ (noon :> Daily(12))

MCCalendar == [m \in 0 .. MaxTime |->
    IF m = 0 THEN [minute |-> 59, hour |-> 23, dom |-> 1, mon |-> 6, dow |-> 6]
             ELSE [minute |-> m - 1, hour |-> 0, dom |-> 2, mon |-> 6, dow |-> 0]]
MCSeconds == every :> 1
MCWatches == (docs :> {"a"}) @@ (all :> {"a", "b"})
MCDebounce == (docs :> 2) @@ (all :> 1)
MCToken == (hook :> "t1") @@ (open :> NoToken)
MCRank == even :> 1 @@ every :> 2 @@ docs :> 3 @@ sunday :> 4 @@ hook :> 5 @@ open :> 6 @@ all :> 7 @@ noon :> 8
=============================================================================
