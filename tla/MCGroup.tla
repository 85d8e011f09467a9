------------------------------ MODULE MCGroup ------------------------------
(* GroupRun on small panels.                                               *)
EXTENDS GroupRun, TLC

CONSTANTS a, b, c

Panel == [strategy |-> "moa", team |-> <<a, b, c>>, proposers |-> {a, b}, aggregators |-> {c},
          moderator |-> c, rounds |-> 2, maxTurns |-> 4, parallel |-> TRUE, stops |-> FALSE]

Talk == [strategy |-> "round_robin", team |-> <<a, b>>, proposers |-> {a, b}, aggregators |-> {},
         moderator |-> NoAgent, rounds |-> 0, maxTurns |-> 2, parallel |-> FALSE, stops |-> TRUE]

\* A panel without a moderator: everybody is a proposer.
Headless == [Panel EXCEPT !.team = <<a, b>>, !.aggregators = {}, !.moderator = NoAgent,
                          !.parallel = FALSE]

\* The same, talking at once.
Chorus == [Headless EXCEPT !.parallel = TRUE, !.maxTurns = 2]

Chain == [Talk EXCEPT !.strategy = "pipeline", !.maxTurns = 50, !.stops = FALSE]

\* Nobody but the aggregator.
Lone == [Headless EXCEPT !.team = <<a>>, !.proposers = {}, !.rounds = 0, !.maxTurns = 1]

Mixed == {Panel, Talk, Chorus, Chain, Lone}
JustHeadless == {Headless}
=============================================================================
