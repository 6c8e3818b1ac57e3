----------------------------- MODULE SailControl -----------------------------
(***************************************************************************)
(* The sensors and controllers of Sailboat_Master_Program.ino: the low-    *)
(* pass filters on wind vane and compass, the course of each leg, the PI   *)
(* controller of the rudder and the sail trim, one action per function.    *)
(*                                                                         *)
(* Angles are whole degrees and times are milliseconds.  The integral is   *)
(* in degree milliseconds and the rudder command in PWM / 100000, which    *)
(* makes kp = 0.7 and ki = 0.01 integers: no rounding is left out.         *)
(***************************************************************************)
EXTENDS Integers

CONSTANTS
  VaneReadings,  \* values of analogRead(windVaneSignal)
  Headings,      \* values of compass.heading() and of its filter
  WindGrid       \* values the filter of the wind angle may come out at

ASSUME ControlAssumption ==
  /\ VaneReadings \subseteq 0 .. 1023
  /\ Headings \subseteq 0 .. 359
  /\ WindGrid \subseteq 0 .. 359

VARIABLES
  relWindAngle_trim, currentHeading,            \* filtered sensors
  desiredHeading, rudPrevError, rudIntegral,    \* rudder controller
  u_rudder, u_sailTrim                          \* servo commands

sensors == <<relWindAngle_trim, currentHeading>>
rudder == <<desiredHeading, rudPrevError, rudIntegral, u_rudder>>
control == <<sensors, rudder, u_sailTrim>>

Dummy == 10000      \* 9999.9, before the first measurement
PWM == 100000

Between(x, a, b) == (a <= x /\ x <= b) \/ (b <= x /\ x <= a)
Constrain(x, lo, hi) == IF x < lo THEN lo ELSE IF x > hi THEN hi ELSE x

(* The values of the variables when the program starts.                    *)
ControlInit ==
  /\ relWindAngle_trim = Dummy /\ currentHeading = Dummy
  /\ desiredHeading = 0 /\ rudPrevError = 0 /\ rudIntegral = 0
  /\ u_rudder = 100 * PWM /\ u_sailTrim = 110

ControlReset ==
  /\ relWindAngle_trim' = Dummy /\ currentHeading' = Dummy
  /\ desiredHeading' = 0 /\ rudPrevError' = 0 /\ rudIntegral' = 0
  /\ u_rudder' = 100 * PWM /\ u_sailTrim' = 110

(* alpha * measured + (1 - alpha) * old for an alpha from 0 to 1, which    *)
(* depends on the length of the iteration.                                 *)
Filtered(old, measured, grid) ==
  IF old = Dummy THEN {measured}
  ELSE {x \in grid \cup {old, measured} : Between(x, old, measured)}

WindAngle(reading) == ((reading * 360) \div 1024 + 110) % 360

updateWindDirection ==
  \E reading \in VaneReadings :
    relWindAngle_trim' \in Filtered(relWindAngle_trim, WindAngle(reading), WindGrid)

updateCurrentHeading ==
  \E measured \in Headings :
    currentHeading' \in Filtered(currentHeading, measured, Headings)

(* The course at a time after power on.                                    *)
Course(time) ==
  CASE time < 60000 -> 160
    [] time >= 60000 /\ time < 120000 -> 100
    [] time >= 120000 /\ time < 180000 -> 45
    [] time >= 180000 -> 0

(* Mutation: only one side of the discontinuity is corrected.              *)
HeadingErrorOneSided(desired, current) ==
  IF desired - current > 180 THEN desired - (current + 360)
  ELSE desired - current

HeadingError(desired, current) ==
  IF desired - current > 180 THEN desired - (current + 360)
  ELSE IF desired - current < -180 THEN (desired + 360) - current
  ELSE desired - current

(* Mutation: the integral is not limited.                                  *)
NextIntegralUnlimited(integral, error, deltaT) == integral + error * deltaT

NextIntegral(integral, error, deltaT) ==
  Constrain(integral + error * deltaT, -25 * PWM, 25 * PWM)

(* kd = 0: the derivative term is 0, for an iteration of any length but 0. *)
RudderCommand(error, integral) ==
  Constrain(115 * PWM - (70000 * error + integral), 60 * PWM, 160 * PWM)

rudderController(time, deltaT) ==
  LET error == HeadingError(Course(time), currentHeading')
  IN /\ desiredHeading' = Course(time)
     /\ rudIntegral' = NextIntegral(rudIntegral, error, deltaT)
     /\ u_rudder' = RudderCommand(error, rudIntegral')
     /\ rudPrevError' = error

(* Mutation: the second half of the range is trimmed like the first.       *)
SailTrimOneWay(wind) ==
  IF wind < 50 \/ wind > 310 THEN 65
  ELSE IF wind < 180 THEN ((wind - 50) * 45) \div 130 + 65
  ELSE 65 + ((wind - 180) * 45) \div 130

(* map(w, 50, 180, 65, 110) and map(w, 180, 310, 110, 65) in integers.     *)
SailTrim(wind) ==
  IF wind < 50 \/ wind > 310 THEN 65
  ELSE IF wind < 180 THEN ((wind - 50) * 45) \div 130 + 65
  ELSE 110 - ((wind - 180) * 45) \div 130

sailTrimController == u_sailTrim' = SailTrim(relWindAngle_trim')

-----------------------------------------------------------------------------
InRange(x, lo, hi) == x \in Int /\ lo <= x /\ x <= hi

(* Types and ranges: the servo commands stay in the calibrated range       *)
(* 60-160 of the rudder (line 436) and between close haul and downwind run.*)
ControlTypeOK ==
  /\ relWindAngle_trim \in 0 .. 359 \cup {Dummy}
  /\ currentHeading \in 0 .. 359 \cup {Dummy}
  /\ desiredHeading \in {0, 45, 100, 160}
  /\ rudPrevError \in Int
  /\ InRange(rudIntegral, -25 * PWM, 25 * PWM)
  /\ InRange(u_rudder, 60 * PWM, 160 * PWM)
  /\ u_sailTrim \in 65 .. 110

(* "fixing 0/360deg discontinuity": the error the rudder acts on is a turn *)
(* from the filtered heading to the course of the leg, and the shorter of  *)
(* the two (lines 460-469).                                                *)
ErrorIsShorterTurn ==
  currentHeading # Dummy =>
    /\ rudPrevError \in -180 .. 180
    /\ rudPrevError - (desiredHeading - currentHeading) \in {-360, 0, 360}

(* "constraint prevents indefinite windup; 25 is the max pwm contribution  *)
(* of the integral controller": however long the boat was off its course   *)
(* on the other side, an error of 36 degrees or more puts the rudder on    *)
(* the side that reduces it.                                               *)
RudderOpposesLargeError ==
  /\ rudPrevError >= 36 => u_rudder < 115 * PWM
  /\ rudPrevError <= -36 => u_rudder > 115 * PWM

(* The sail trim has no jump: when the filtered wind angle moves by a      *)
(* degree, the servo moves by at most a degree, also where the ranges of   *)
(* the two map() calls meet (lines 494-501).                               *)
SmoothTrim ==
  /\ {relWindAngle_trim, relWindAngle_trim'} \subseteq 0 .. 359
  /\ Between(relWindAngle_trim' - relWindAngle_trim, -1, 1)
  => Between(u_sailTrim' - u_sailTrim, -1, 1)
SailFollowsWind == [][SmoothTrim]_control

=============================================================================
