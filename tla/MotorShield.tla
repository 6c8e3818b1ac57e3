---------------------------- MODULE MotorShield ----------------------------
(* AFMotor.cpp: a stepper on port 1 (motors 1 and 2), one on port 2 or DC   *)
(* motors 3 and 4 in its place, behind one latch. step() is followed coil   *)
(* by coil, because the motor turns while it waits between two of them.     *)
EXTENDS Integers, Sequences

CONSTANTS
  Steppers,    \* ports with a stepper; the other port has two DC motors
  StepCounts   \* bound: arguments of step()

MICROSTEPS == 16
Circle == 4 * MICROSTEPS

VARIABLES
  latch,        \* latch_state: the bits that are set, [motor, end]
  pwm,          \* the duty of each motor: index of its value in microstepcurve
  currentstep,  \* of each stepper
  stepping      \* the call of step() under way: [port, dir, style, left, ret]

vars == <<latch, pwm, currentstep, stepping>>

Bit(m, end) == [motor |-> m, end |-> end]
FirstMotor(p) == 2 * p - 1
\* The ends a, b, c, d of the coils in the order a stepper turns through them.
Coils(p) == <<Bit(FirstMotor(p), "A"), Bit(FirstMotor(p) + 1, "A"),
              Bit(FirstMotor(p), "B"), Bit(FirstMotor(p) + 1, "B")>>
CoilBits(p) == {Coils(p)[i] : i \in 1..4}
Idle == [port |-> 0, dir |-> 0, style |-> "none", left |-> 0, ret |-> 0]
DcMotors == {m \in 1..4 : (m + 1) \div 2 \notin Steppers}

-----------------------------------------------------------------------------
(* AF_DCMotor *)

Run(m) ==
  /\ stepping = Idle
  /\ LET others == {b \in latch : b.motor # m}
     IN latch' \in {others \union {Bit(m, "A")}, others \union {Bit(m, "B")}, others}
  /\ UNCHANGED <<pwm, currentstep, stepping>>

SetSpeed(m) ==
  /\ stepping = Idle
  /\ \E duty \in {0, MICROSTEPS} : pwm' = [pwm EXCEPT ![m] = duty]
  /\ UNCHANGED <<latch, currentstep, stepping>>

-----------------------------------------------------------------------------
(* AF_Stepper *)

HalfStep(c) == c \div (MICROSTEPS \div 2)

\* The step of each style; SINGLE and DOUBLE take a half step from a position
\* of the other one.
Advance(c, style) ==
  CASE style = "MICROSTEP" -> 1
    [] style = "INTERLEAVE" -> MICROSTEPS \div 2
    [] (style = "SINGLE" /\ HalfStep(c) % 2 = 1) \/ (style = "DOUBLE" /\ HalfStep(c) % 2 = 0) ->
         MICROSTEPS \div 2
    [] OTHER -> MICROSTEPS

\* currentstep is eight bits wide: its wrap does not show, Circle divides 256.
NextStep(c, dir, style) == (c + dir * Advance(c, style)) % Circle

\* Duty of the two motors, and the coil ends that are energised.
Duty(c, style) ==
  IF style # "MICROSTEP" THEN <<MICROSTEPS, MICROSTEPS>>
  ELSE LET k == c % MICROSTEPS
       IN IF (c \div MICROSTEPS) % 2 = 0 THEN <<MICROSTEPS - k, k>> ELSE <<k, MICROSTEPS - k>>

Energised(c, style) ==
  LET h == HalfStep(c)
      coil == h \div 2
      next == (coil + 1) % 4
  IN {coil + 1} \union (IF style = "MICROSTEP" \/ h % 2 = 1 THEN {next + 1} ELSE {})

\* A plausible bug: the bits of all motors are cleared.
OneStepClearsLatch(p, dir, style) ==
  LET c == NextStep(currentstep[p], dir, style)
      duty == Duty(c, style)
  IN /\ currentstep' = [currentstep EXCEPT ![p] = c]
     /\ pwm' = [pwm EXCEPT ![FirstMotor(p)] = duty[1], ![FirstMotor(p) + 1] = duty[2]]
     /\ latch' = {Coils(p)[i] : i \in Energised(c, style)}
     /\ stepping' = [stepping EXCEPT !.ret = c, !.left = IF @ > 0 THEN @ - 1 ELSE 0]

onestep(p, dir, style) ==
  LET c == NextStep(currentstep[p], dir, style)
      duty == Duty(c, style)
  IN /\ currentstep' = [currentstep EXCEPT ![p] = c]
     /\ pwm' = [pwm EXCEPT ![FirstMotor(p)] = duty[1], ![FirstMotor(p) + 1] = duty[2]]
     /\ latch' = (latch \ CoilBits(p)) \union {Coils(p)[i] : i \in Energised(c, style)}
     /\ stepping' = [stepping EXCEPT !.ret = c, !.left = IF @ > 0 THEN @ - 1 ELSE 0]

Release(p) ==
  /\ stepping = Idle
  /\ latch' = latch \ CoilBits(p)
  /\ UNCHANGED <<pwm, currentstep, stepping>>

\* steps is sixteen bits wide, before and after it is multiplied.
StepBegin(p) ==
  /\ stepping = Idle
  /\ \E n \in StepCounts, dir \in {1, -1},
        style \in {"SINGLE", "DOUBLE", "INTERLEAVE", "MICROSTEP"} :
       stepping' = [port |-> p, dir |-> dir, style |-> style, ret |-> 0,
                    left |-> IF style = "MICROSTEP" THEN (n * MICROSTEPS) % 65536 ELSE n]
  /\ UNCHANGED <<latch, pwm, currentstep>>

\* A microstepping call goes on to a position its second loop accepts.
MoreSteps ==
  \/ stepping.left > 0
  \/ stepping.style = "MICROSTEP" /\ stepping.ret \notin {0, MICROSTEPS}

StepOn(p) ==
  /\ stepping.port = p /\ MoreSteps
  /\ onestep(p, stepping.dir, stepping.style)

StepEnd ==
  /\ stepping # Idle /\ ~MoreSteps
  /\ stepping' = Idle
  /\ UNCHANGED <<latch, pwm, currentstep>>

\* The constructors have cleared the latch and set the duty of the steppers.
Init ==
  /\ latch = {} /\ stepping = Idle
  /\ currentstep = [p \in Steppers |-> 0]
  /\ pwm = [m \in 1..4 |-> IF m \in DcMotors THEN 0 ELSE MICROSTEPS]

Next ==
  \/ \E m \in DcMotors : Run(m) \/ SetSpeed(m)
  \/ \E p \in Steppers : Release(p) \/ StepBegin(p) \/ StepOn(p)
  \/ StepEnd

Spec == Init /\ [][Next]_vars

-----------------------------------------------------------------------------
(* Properties *)

\* Current in the coil of a motor, and where the field of a stepper points to,
\* from 0 to Circle - 1 in the direction FORWARD turns.
Current(m) ==
  pwm[m] * ((IF Bit(m, "A") \in latch THEN 1 ELSE 0) - (IF Bit(m, "B") \in latch THEN 1 ELSE 0))

Magnitude(x) == IF x < 0 THEN -x ELSE x

FieldOf(p) ==
  LET x == Current(FirstMotor(p))
      y == Current(FirstMotor(p) + 1)
      quadrant == CASE x > 0 /\ y >= 0 -> 0
                    [] x <= 0 /\ y > 0 -> 1
                    [] x < 0 /\ y <= 0 -> 2
                    [] OTHER -> 3
      part == IF quadrant % 2 = 0 THEN Magnitude(y) ELSE Magnitude(x)
  IN quadrant * MICROSTEPS + (MICROSTEPS * part) \div (Magnitude(x) + Magnitude(y))

Powered(p) == \E b \in CoilBits(p) : b \in latch /\ pwm[b.motor] > 0

\* Whatever styles are mixed, every step of a motor that is powered moves its
\* field in the direction asked for, by at most a full step, so the rotor
\* follows, and leaves the other port as it is: both share the latch.
StepTurnsOneMotor ==
  [][\A p \in Steppers : StepOn(p) /\ Powered(p) =>
       /\ Powered(p)'
       /\ LET turn == (stepping.dir * (FieldOf(p)' - FieldOf(p))) % Circle
          IN turn > 0 /\ turn <= MICROSTEPS
       /\ latch' \ CoilBits(p) = latch \ CoilBits(p)
       /\ \A m \in 1..4 : (m + 1) \div 2 # p => pwm'[m] = pwm[m]]_vars
=============================================================================
