---------------------------- MODULE SessionGuard ---------------------------
(***************************************************************************)
(* One SessionGuard of session.rs: the sliding window against replayed     *)
(* packets, the hard and the idle timeout, and the master key that goes    *)
(* after too many missed heartbeats.  A guard has one owner at a time, so  *)
(* every method is one step.                                               *)
(*                                                                         *)
(* The u128 bitmask is the set of the positions of its 1 bits.             *)
(***************************************************************************)
EXTENDS Integers, FiniteSets

CONSTANTS
    Counters,       \* packet counters
    WSize,          \* window_size
    Width,          \* bits of the bitmask, 128 in the code
    HardTimeout,    \* hard_timeout, in units of the model's clock
    IdleTimeout,    \* idle_timeout
    Threshold,      \* HEARTBEAT_MISSED_THRESHOLD
    Keys,           \* master keys
    MaxTime,        \* bound on the model's clock
    MaxMissed       \* bound on the missed heartbeats

(* A window wider than the bitmask shifts by more than the bitmask has     *)
(* bits; new() takes 128, and nothing calls with_timeouts.                 *)
ASSUME WindowAssumption ==
    /\ Counters \subseteq Nat
    /\ WSize \in Nat \ {0}
    /\ Width \in Nat
    /\ WSize <= Width

ASSUME TimeAssumption ==
    /\ HardTimeout \in Nat
    /\ IdleTimeout \in Nat
    /\ Threshold \in Nat
    /\ MaxTime \in Nat
    /\ MaxMissed \in Nat

VARIABLES
    vmax,       \* v_max
    bitmask,    \* the positions of the 1 bits of bitmask
    last,       \* last_activity; start_time is 0
    now,        \* Instant::now()
    key,        \* master_key: {} or {the key}
    missed,     \* missed_heartbeats
    accepted    \* the counters check_and_update has returned true for

window == <<vmax, bitmask, accepted>>
vars == <<window, last, now, key, missed>>

Init ==
    /\ vmax = 0
    /\ bitmask = {}
    /\ last = 0
    /\ now = 0
    /\ key = {}
    /\ missed = 0
    /\ accepted = {}

IsValid == now < HardTimeout /\ now - last < IdleTimeout

(* u64::saturating_sub.                                                    *)
SatSub(a, b) == IF a < b THEN 0 ELSE a - b

\* As the code would be if it did not move the window.
ShiftedNot(bits, shift) == bits \cup {0}

\* As the code would be if it kept the bits that leave the window.
ShiftedForGood(bits, shift) == {b + shift : b \in bits} \cup {0}

(* (bitmask << shift) | 1, or 1 when the window has moved past its bits.   *)
Shifted(bits, shift) ==
    IF shift >= WSize
    THEN {0}
    ELSE ({b + shift : b \in bits} \cap 0 .. Width - 1) \cup {0}

\* As the code would be if the bound were one too low.
TooOldOffByOne(counter) == counter < SatSub(vmax, WSize)

TooOld(counter) == counter <= SatSub(vmax, WSize)

Touch ==
    /\ last' = now
    /\ missed' = 0

(* What check_and_update answers.                                          *)
Accepts(counter) ==
    /\ IsValid
    /\ \/ counter > vmax
       \/ ~TooOld(counter) /\ vmax - counter \notin bitmask

AcceptNewest(counter) ==
    /\ Accepts(counter)
    /\ counter > vmax
    /\ bitmask' = Shifted(bitmask, counter - vmax)
    /\ vmax' = counter
    /\ accepted' = accepted \cup {counter}
    /\ Touch
    /\ UNCHANGED <<now, key>>

AcceptInWindow(counter) ==
    /\ Accepts(counter)
    /\ counter <= vmax
    /\ bitmask' = bitmask \cup {vmax - counter}
    /\ accepted' = accepted \cup {counter}
    /\ Touch
    /\ UNCHANGED <<vmax, now, key>>

(* packets_received and packets_replayed only count.                       *)
Reject(counter) ==
    /\ ~Accepts(counter)
    /\ UNCHANGED vars

Heartbeat ==
    /\ Touch
    /\ UNCHANGED <<window, now, key>>

(* trigger_wipe comes with the last heartbeat that may be missed.          *)
MissHeartbeat ==
    /\ missed < MaxMissed
    /\ missed' = missed + 1
    /\ key' = IF missed' >= Threshold THEN {} ELSE key
    /\ UNCHANGED <<window, last, now>>

TriggerWipe ==
    /\ key' = {}
    /\ UNCHANGED <<window, last, now, missed>>

SetMasterKey(k) ==
    /\ key' = {k}
    /\ UNCHANGED <<window, last, now, missed>>

Tick ==
    /\ now < MaxTime
    /\ now' = now + 1
    /\ UNCHANGED <<window, last, key, missed>>

CheckAndUpdate(counter) ==
    AcceptNewest(counter) \/ AcceptInWindow(counter) \/ Reject(counter)

Next ==
    \/ \E counter \in Counters : CheckAndUpdate(counter)
    \/ Heartbeat
    \/ MissHeartbeat
    \/ TriggerWipe
    \/ \E k \in Keys : SetMasterKey(k)
    \/ Tick

Spec == Init /\ [][Next]_vars

----------------------------------------------------------------------------
(* Type invariant of the guard.                                            *)
TypeOK ==
    /\ vmax \in Nat
    /\ bitmask \subseteq 0 .. Width - 1
    /\ last \in Nat
    /\ now \in Nat
    /\ last <= now
    /\ key \subseteq Keys
    /\ missed \in Nat
    /\ accepted \subseteq Counters

(* No counter is accepted twice, however far and in whatever steps the     *)
(* window has moved in between.                                            *)
NoDoubleAccept ==
    [][\A counter \in Counters :
          AcceptNewest(counter) \/ AcceptInWindow(counter)
              => counter \notin accepted]_vars

(* The window of bits is a set of accepted counters: the guard implements  *)
(* ReplayFilter.                                                           *)
Filter == INSTANCE ReplayFilter
FiltersReplays == Filter!Spec

(* A packet that is delayed by less than the window is not lost: a counter *)
(* in the window that was not accepted before is never turned away while   *)
(* the session is valid.                                                   *)
FreshNotRejected ==
    \A counter \in Counters :
        IsValid /\ Filter!Fresh(counter) => Accepts(counter)

(* Within the window a bit is 1 where a counter has been accepted and      *)
(* nowhere else.                                                           *)
BitsAreCounters ==
    \A offset \in 0 .. WSize - 1 :
        offset \in bitmask <=> vmax - offset \in accepted

(* v_max is the largest accepted counter, and 0 is never accepted.         *)
NewestIsLargest ==
    /\ 0 \notin accepted
    /\ \A counter \in accepted : counter <= vmax
    /\ vmax = 0 \/ vmax \in accepted

(* The inductive invariant: bitmask and v_max together are the counters    *)
(* accepted so far, as far as the window reaches.                          *)
WindowInv == TypeOK /\ BitsAreCounters /\ NewestIsLargest
=============================================================================
