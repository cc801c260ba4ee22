-------------------------------- MODULE Board --------------------------------
(* The board from power-up on: the startup that configures the pins and     *)
(* buses (aero.c, periph.c), then the sensor task with its drivers, from    *)
(* SensorBus, beside the alert task with the status LED (task_alert.c).     *)
(* Both drive the hardware of Hal.                                          *)
(*                                                                          *)
(* Of startup only the pins, clocks and buses are modelled; how the flash   *)
(* is polled and what config_load_persistent reads is in BleLink and        *)
(* Settings.                                                                *)
(* The toggle of a blink rewrites the whole port that the status LED shares *)
(* with the enable pin of the accelerometer: what the sensor task does to   *)
(* that pin in between is undone.                                           *)
(* No task of this firmware calls send_alert, and an item of the alert      *)
(* queue has the size of an enum, of one byte in this build, while          *)
(* task_alert_led takes event and argument from four: an alert that does    *)
(* arrive is therefore any event with any argument.                         *)
(*                                                                          *)
(* A definition named Slip... is a plausible mistake in the one that        *)
(* follows it, which the properties must notice.                            *)
(****************************************************************************)
EXTENDS SensorBus

CONSTANTS Full, Step,   \* the ramp of the pulse: 1000 in steps of 10
          Ease,         \* 2^5, what easing_f divides by
          Period,       \* of the LED's timer, 1000
          MaxBlinks,    \* bound: the argument of an alert
          MaxAlerts     \* bound: alerts

ASSUME BoardAssumption ==
  /\ {Full, Step, Ease, Period} \subseteq Nat \ {0}
  /\ Full % Step = 0
  /\ (Full \div Ease) * (Full \div Ease) <= Period
  /\ {MaxBlinks, MaxAlerts} \subseteq Nat

VARIABLES
  boot,     \* the steps of startup that are left
  alert,    \* task_alert_led: where it is, its state and what is left to blink
  pulse,    \* value and direction of step_pulse
  toggle,   \* which warning LED is next
  shown,    \* history: times the status LED went on since the alert came
  before,   \* history: what the LED showed then, and the argument
  undone,   \* history: a toggle has undone what was written to the port
  alerts    \* how much of the bound is used up

alertvars == <<alert, pulse, toggle, shown, before, undone, alerts>>
vars == <<sensorvars, boot, alertvars>>

Led1 == "WARN_LED_A"
Led2 == "WARN_LED_B"
Shows == {"off", "on", "pulse"}

TypeOK ==
  /\ SensorType
  /\ boot \in Seq(STRING)
  /\ alert \in [at : {"none", "wait", "blink", "toggle", "lit"}, state : Shows,
                left : 0 .. MaxBlinks, read : [PortB -> BOOLEAN]]
  /\ pulse \in [value : 0 .. Full, direction : {-Step, Step}]
  /\ {toggle, undone} \subseteq BOOLEAN
  /\ shown \in 0 .. MaxBlinks + 1
  /\ before \in [led : Shows, argument : 0 .. MaxBlinks]
  /\ alerts \in 0 .. MaxAlerts

-----------------------------------------------------------------------------
(* Startup.                                                                *)

\* Slip: a pin is missing from the table.
SlipInitPins == <<"MS5611_EN", "BMX055_EN_ACC", "BMX055_EN_GYRO", "ADESTO_FLASH_CS",
  "STATUS_LED", "UBLOX_MAX7_RESET", "WARN_LED_A", "WARN_LED_B", "PIEZO_EN">>

InitPins == <<"MS5611_EN", "BMX055_EN_ACC", "BMX055_EN_GYRO", "BMX055_EN_MAG",
  "ADESTO_FLASH_CS", "STATUS_LED", "UBLOX_MAX7_RESET", "WARN_LED_A", "WARN_LED_B",
  "PIEZO_EN">>

\* arch_config_clocks, arch_config_io, config_flash, the start of the tasks.
Startup == <<"clocks", "SPI1", "SPI2", "USART1">> \o InitPins \o <<"flash", "tasks">>

flash_reset(h) == pin_set(pin_clear(pin_set(h, "ADESTO_FLASH_RESET"),
                                    "ADESTO_FLASH_RESET"), "ADESTO_FLASH_RESET")

config_flash(h) ==
  LET reset == pin_config(h, "ADESTO_FLASH_RESET", "output")
      cs == pin_config(reset, "ADESTO_FLASH_CS", "output")
  IN  flash_reset(pin_set(pin_set(cs, "ADESTO_FLASH_RESET"), "ADESTO_FLASH_CS"))

\* What `read` holds when there is no toggle going on.
Unread == [p \in PortB |-> FALSE]

Init ==
  /\ hw = PowerOn /\ boot = Startup
  /\ SensorInit
  /\ alert = [at |-> "none", state |-> "pulse", left |-> 0, read |-> Unread]
  /\ pulse = [value |-> 0, direction |-> Step] /\ toggle = FALSE
  /\ shown = 0 /\ before = [led |-> "off", argument |-> 0] /\ undone = FALSE
  /\ alerts = 0

\* The LED starts to pulse; the piezo is not used.
task_alert_config(h) == enable_pulse(arch_init_timer(h))

Boot ==
  /\ boot # <<>> /\ boot' = Tail(boot)
  /\ LET step == Head(boot) IN
     hw' = CASE step = "clocks" -> arch_config_clocks(hw)
             [] step \in Bus -> BusConfig(hw, step)
             [] step \in Pin -> pin_set(pin_config(hw, step, "output"), step)
             [] step = "flash" -> config_flash(hw)
             [] step = "tasks" -> task_alert_config(hw)
  /\ IF boot' = <<>>
     THEN /\ job' = config_sensor
          /\ alert' = [alert EXCEPT !.at = "wait"]
     ELSE UNCHANGED <<job, alert>>
  /\ UNCHANGED <<val, C, D, accel, mbarc, chips, measured, verified, early,
                 served, pulse, toggle, shown, before, undone, alerts>>

-----------------------------------------------------------------------------
(* task_alert_led.                                                         *)

\* step_pulse.
Pulsed(p) ==
  LET direction == IF p.value >= Full THEN -Step
                   ELSE IF p.value <= 0 THEN Step ELSE p.direction
  IN [value |-> p.value + direction, direction |-> direction]

easing_f(value) == (value \div Ease) * (value \div Ease)

Warned(h) ==
  IF toggle THEN pin_clear(pin_set(h, Led1), Led2)
  ELSE pin_set(pin_clear(h, Led1), Led2)

\* No alert for 10 ms.
Tick ==
  /\ alert.at = "wait"
  /\ IF alert.state = "pulse"
     THEN /\ pulse' = Pulsed(pulse)
          /\ hw' = Warned(arch_timer_set(hw, easing_f(pulse'.value)))
     ELSE /\ hw' = Warned(hw) /\ UNCHANGED pulse
  /\ toggle' = ~toggle
  /\ UNCHANGED <<driver, chips, measured, verified, early, served, boot, alert,
                 shown, before, undone, alerts>>

\* ALERT_LOW_OFF, ALERT_LOW_ON, ALERT_LOW_PULSE.
Showing(show) == CASE show = "off" -> pin_clear(disable_pulse(hw), "STATUS_LED")
                   [] show = "on" -> pin_set(disable_pulse(hw), "STATUS_LED")
                   [] show = "pulse" -> enable_pulse(hw)

AlertArrives(argument) ==
  /\ alert.at = "wait" /\ alerts < MaxAlerts /\ alerts' = alerts + 1
  /\ shown' = 0 /\ before' = [led |-> alert.state, argument |-> argument]
  /\ UNCHANGED <<driver, chips, measured, verified, early, served, boot, pulse,
                 toggle, undone>>

Show(show) ==
  /\ AlertArrives(0)
  /\ hw' = Showing(show) /\ alert' = [alert EXCEPT !.state = show]

Blink(argument) ==
  /\ AlertArrives(argument)
  /\ hw' = disable_pulse(hw)
  /\ alert' = [alert EXCEPT !.at = "blink", !.left = argument]

\* The events that are still to do.
Ignore ==
  /\ AlertArrives(0)
  /\ UNCHANGED <<hw, alert>>

LitUp(h) == IF Led(hw) # "on" /\ Led(h) = "on" THEN shown + 1 ELSE shown

\* pin_toggle, up to where it has read the port.
BlinkReads ==
  /\ alert.at = "blink" /\ alert.left > 0
  /\ alert' = [alert EXCEPT !.at = "toggle", !.read = PortLevels(hw)]
  /\ UNCHANGED <<sensorvars, boot, pulse, toggle, shown, before, undone, alerts>>

\* Another pin of the port has a new level.
Undoes == \E p \in PortB \ {"STATUS_LED"} : alert.read[p] # hw.pin[p].level

BlinkOn ==
  /\ alert.at = "toggle"
  /\ hw' = pin_toggle(hw, alert.read, "STATUS_LED") /\ shown' = LitUp(hw')
  /\ alert' = [alert EXCEPT !.at = "lit", !.left = @ - 1, !.read = Unread]
  /\ undone' = (undone \/ Undoes)
  /\ UNCHANGED <<driver, chips, measured, verified, early, served, boot, pulse,
                 toggle, before, alerts>>

BlinkOff ==
  /\ alert.at = "lit"
  /\ hw' = pin_clear(hw, "STATUS_LED")
  /\ alert' = [alert EXCEPT !.at = "blink"]
  /\ UNCHANGED <<driver, chips, measured, verified, early, served, boot, pulse,
                 toggle, shown, before, undone, alerts>>

\* Slip: a pulsing LED stays dark.
SlipRestored == IF alert.state = "on" THEN pin_set(hw, "STATUS_LED") ELSE hw

Restored == CASE alert.state = "on" -> pin_set(hw, "STATUS_LED")
              [] alert.state = "pulse" -> enable_pulse(hw)
              [] alert.state = "off" -> hw

BlinkEnd ==
  /\ alert.at = "blink" /\ alert.left = 0
  /\ hw' = Restored /\ shown' = LitUp(hw')
  /\ alert' = [alert EXCEPT !.at = "wait"]
  /\ UNCHANGED <<driver, chips, measured, verified, early, served, boot, pulse,
                 toggle, before, undone, alerts>>

Alert == \/ Tick \/ Ignore \/ BlinkReads \/ BlinkOn \/ BlinkOff \/ BlinkEnd
         \/ \E show \in Shows : Show(show)
         \/ \E argument \in 0 .. MaxBlinks : Blink(argument)

Next == \/ Boot
        \/ boot = <<>> /\ (SensorTask \/ NewSample) /\ UNCHANGED <<boot, alertvars>>
        \/ Alert

Spec == Init /\ [][Next]_vars

(***************************************************************************)
(* Properties.                                                             *)
(***************************************************************************)
\* The chips that are selected as the sensor task means it.
Trusted == IF undone THEN Enable \ {Acc} ELSE Enable

\* hal_stm32_stdperiphlib.c, ms5611.c, bmx055.c, periph.c: whatever is
\* written arrives where it is meant to, in any order of the two tasks: a byte
\* at the one chip that is selected, a register in a peripheral whose clock
\* runs, except that timer_disable stops the clock before it tells the counter
\* to stop.  Once a toggle has undone a write this holds of the other chips
\* still, but no longer of the accelerometer.
WritesArrive ==
  /\ BusDiscipline(Trusted)
  /\ hw.lost \subseteq {"counter off"}

\* bmx055_read, ms5611_read_adc, ms5611_init: what ReadTrue of SensorBus says
\* of the two bytes of an acceleration, of the converters and of the
\* calibration, with whatever the alert task does in between, unless its
\* toggle has undone a write.
ReadingsTrue == undone \/ ReadTrue

\* ms5611_verify_prom: what ErrorNoticed of SensorBus says of a wrong bit in
\* the calibration, under the same condition.
CorruptionNoticed == undone \/ ErrorNoticed

\* ms5611_get_mbarc: what ShortByCut of SensorBus says of how much too low the
\* pressure is, for readings that came in right.
PressureShort == undone \/ ShortByCut

\* The LED went on as often as asked, or once less if the pin was high behind
\* a pulse, when the first toggle turns it off.
BlinksCounted ==
  before.argument > 0 =>
    \/ shown = before.argument
    \/ before.led = "pulse" /\ shown = before.argument - 1

\* task_alert_led: whenever the task waits, the LED shows what its state
\* says, through blinks and repeated switches between pin and timer, it has
\* blinked as it was told, and its pulse is no longer than the period.
LedShowsAlert ==
  alert.at = "wait" => Led(hw) = alert.state /\ BlinksCounted /\ hw.duty <= Period

=============================================================================
