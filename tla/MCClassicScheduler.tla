-------------------------- MODULE MCClassicScheduler --------------------------
(* Instances of ClassicScheduler for TLC.                                  *)
EXTENDS ClassicScheduler, TLC

CONSTANTS a, b, s1, s2, r1, task1

\* Both sources feed one task.
BothFeedA == (s1 :> a) @@ (s2 :> a)

\* The same name is used for two routines, one after the other.
SameTask == (a :> task1) @@ (b :> task1)
OneLevel == (a :> 0) @@ (b :> 0)
OneFeedsA == s1 :> a
RemovesTask1 == r1 :> task1
Nothing == <<>>

\* One task alone.
OneTask == a :> task1
LevelZero == a :> 0
=============================================================================
