---------------------------- MODULE ReplayFilter ---------------------------
(***************************************************************************)
(* What a sliding replay window promises: of the counters it is shown it   *)
(* accepts each at most once, and it may turn away any that lies WSize or  *)
(* more below the largest one accepted so far, but no other new one.       *)
(***************************************************************************)
EXTENDS Integers, FiniteSets

CONSTANTS Counters, WSize

VARIABLE accepted   \* the counters accepted so far

Init == accepted = {}

(* Counter c is new and not too old for the window.                        *)
Fresh(c) ==
    /\ c \notin accepted
    /\ c > 0
    /\ \A a \in accepted : c > a - WSize

Accept(c) ==
    /\ Fresh(c)
    /\ accepted' = accepted \cup {c}

Next == \E c \in Counters : Accept(c)

Spec == Init /\ [][Next]_accepted
=============================================================================
