----------------------------- MODULE TimedLatch -----------------------------
(***************************************************************************)
(* Controller/Core0/Util/TimedLatch.{h,cpp}: a Boolean that follows its    *)
(* input only after the input has disagreed with it for more than          *)
(* threshold.  Time is not a variable here: changingSince is the age, in   *)
(* ticks, of the stored time stamp, saturated by the module that owns the  *)
(* latch, and NotSet (an empty optional) when there is none.               *)
(***************************************************************************)
EXTENDS Integers

NotSet == -1

\* An optional time stamp that is d ticks older; ages above cap are not told apart.
Aged(since, d, cap) ==
    IF since = NotSet THEN NotSet ELSE IF since + d > cap THEN cap ELSE since + d

\* Timestamps(cap): the ages an optional time stamp may have.
Timestamps(cap) == {NotSet} \cup 0..cap

Latches(threshold) == [currentState: BOOLEAN, changingSince: Timestamps(threshold + 1)]

NewLatch == [currentState |-> FALSE, changingSince |-> NotSet]

\* Slip: every disagreement starts the clock again.
LatchRestarted(latch, value, threshold) ==
    [latch EXCEPT !.changingSince = IF value = latch.currentState THEN NotSet ELSE 0]

\* TimedLatch::set.  "Since" is compared with >, so a value that has
\* disagreed for exactly threshold does not yet flip the latch.
LatchSet(latch, value, threshold) ==
    IF value = latch.currentState
      THEN [latch EXCEPT !.changingSince = NotSet]
    ELSE IF latch.changingSince = NotSet
      THEN [latch EXCEPT !.changingSince = 0]
    ELSE IF latch.changingSince > threshold
      THEN [currentState |-> value, changingSince |-> NotSet]
    ELSE latch

LatchAged(latch, d, threshold) ==
    [latch EXCEPT !.changingSince = Aged(latch.changingSince, d, threshold + 1)]

=============================================================================
