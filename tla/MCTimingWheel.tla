---------------------------- MODULE MCTimingWheel ----------------------------
EXTENDS TimingWheel

MCCaller == {Tick}
MCJob == Task

CONSTANTS t1, t2

\* A periodic timer whose first period takes as many turns as the assistant
\* wheel has slots, and a timer that fires once after exactly a turn of the
\* work wheel, or has a period that is refused.
MCOptions ==
    t1 :> {[period |-> 7, oneshot |-> FALSE]} @@
    t2 :> {[period |-> 4, oneshot |-> TRUE], [period |-> 0, oneshot |-> TRUE]}
=============================================================================
