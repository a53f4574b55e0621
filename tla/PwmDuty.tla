------------------------------ MODULE PwmDuty -------------------------------
(***************************************************************************)
(* How the load switch turns a duty into pulses of whole ticks             *)
(* (PwmPulse_state in heater/pwm.cpp): the remainder that a pulse cannot   *)
(* express is carried to the next, in thousandths of a tick.               *)
(***************************************************************************)
EXTENDS Integers

Period     == 100      \* PWM_PERIOD_TICKS
MinPulse   == 6        \* PWM_MIN_PULSE_TICKS

Clamp(x, lo, hi) == IF x < lo THEN lo ELSE IF x > hi THEN hi ELSE x

\* Idle pulses only measure the load: as short as possible, and rare.
IsIdle(duty, reduceIdle) == duty = 0 /\ reduceIdle

\* Mutant: the carry is dropped.
PulseTicksRounded(duty, err, reduceIdle) ==
  IF IsIdle(duty, reduceIdle) THEN MinPulse
  ELSE Clamp((duty * Period + 500) \div 1000, MinPulse, Period)

\* The quotient truncates towards zero in the code; below zero the clamp hides
\* the difference.
PulseTicks(duty, err, reduceIdle) ==
  IF IsIdle(duty, reduceIdle) THEN MinPulse
  ELSE Clamp((duty * Period + err + 500) \div 1000, MinPulse, Period)

\* What the next pulse has to make good.
Carry(duty, err, reduceIdle) ==
  IF IsIdle(duty, reduceIdle) THEN 0
  ELSE Clamp(duty * Period + err - PulseTicks(duty, err, reduceIdle) * 1000, -500, 499)
=============================================================================
