--------------------------------- MODULE Hal ---------------------------------
(* The pins, timers and buses of the processor as the hardware layer drives *)
(* them (hal_stm32_stdperiphlib.c, periph.c).  Every operator maps the      *)
(* state of the hardware to the one after the call.  A peripheral listens   *)
(* only while its clock runs: any other write to it is lost, and remembered *)
(* in `lost`.  The three GPIO ports are one peripheral, as their clocks     *)
(* start together.                                                          *)
(*                                                                          *)
(* A definition named Slip... is a plausible mistake in the one that        *)
(* follows it, which the properties must notice.                            *)
(****************************************************************************)
EXTENDS Integers, Sequences

Enable == {"MS5611_EN", "BMX055_EN_ACC", "BMX055_EN_GYRO", "BMX055_EN_MAG"}
Pin == Enable \cup {"ADESTO_FLASH_CS", "ADESTO_FLASH_RESET", "STATUS_LED", "UBLOX_MAX7_RESET",
                    "WARN_LED_A", "WARN_LED_B", "PIEZO_EN"}
\* The pins on port B (pins.h).
PortB == {"BMX055_EN_ACC", "BMX055_EN_GYRO", "BMX055_EN_MAG", "STATUS_LED",
          "WARN_LED_A", "WARN_LED_B", "PIEZO_EN"}
Bus == {"SPI1", "SPI2", "USART1"}
Peripheral == Bus \cup {"GPIO", "TIM2"}
Mode == {"input", "output", "af"}
Writes == {"pin_config", "pin", "bus", "init", "duty", "counter on", "counter off"}

HardwareType ==
  [pin : [Pin -> [mode : Mode, level : BOOLEAN]], clock : SUBSET Peripheral,
   enabled : SUBSET Bus, counting : BOOLEAN, duty : Nat, lost : SUBSET Writes]

PowerOn ==
  [pin |-> [p \in Pin |-> [mode |-> "input", level |-> FALSE]], clock |-> {},
   enabled |-> {}, counting |-> FALSE, duty |-> 0, lost |-> {}]

\* The state after a write, `after` if the peripheral listens.
Written(hw, peripheral, what, after) ==
  IF peripheral \in hw.clock THEN after ELSE [hw EXCEPT !.lost = @ \cup {what}]

ClockOn(hw, peripheral) == [hw EXCEPT !.clock = @ \cup {peripheral}]
ClockOff(hw, peripheral) == [hw EXCEPT !.clock = @ \ {peripheral}]

pin_config(hw, p, mode) ==
  Written(hw, "GPIO", "pin_config", [hw EXCEPT !.pin[p].mode = mode])
pin_write(hw, p, level) ==
  Written(hw, "GPIO", "pin", [hw EXCEPT !.pin[p].level = level])
pin_set(hw, p) == pin_write(hw, p, TRUE)
pin_clear(hw, p) == pin_write(hw, p, FALSE)

\* pin_toggle inverts a pin in the output register of its port, port B: it
\* reads the register, and writes back the levels it has read, but for p.
PortLevels(hw) == [p \in PortB |-> hw.pin[p].level]
Inverted(read, p) == [read EXCEPT ![p] = ~@]
pin_toggle(hw, read, p) ==
  Written(hw, "GPIO", "pin",
    [hw EXCEPT !.pin = [q \in Pin |->
       IF q \in PortB THEN [@[q] EXCEPT !.level = Inverted(read, p)[q]] ELSE @[q]]])

\* What a pin that is an output drives low.
DrivesLow(hw, p) == hw.pin[p] = [mode |-> "output", level |-> FALSE]

arch_config_clocks(hw) == ClockOn(hw, "GPIO")

\* arch_spi_config and arch_config_uart: clock, registers, enable.
BusConfig(hw, bus) ==
  LET on == ClockOn(hw, bus) IN
  Written(on, bus, "bus", [on EXCEPT !.enabled = @ \cup {bus}])

\* TIM2, the timer of the status LED.
arch_init_timer(hw) ==
  LET on == ClockOn(hw, "TIM2") IN
  Written(on, "TIM2", "init", [on EXCEPT !.duty = 0])

arch_timer_set(hw, value) == Written(hw, "TIM2", "duty", [hw EXCEPT !.duty = value])

timer_enable(hw) ==
  LET on == ClockOn(hw, "TIM2") IN
  Written(on, "TIM2", "counter on", [on EXCEPT !.counting = TRUE])

\* The clock is stopped first: the counter is never told.
timer_disable(hw) ==
  LET off == ClockOff(hw, "TIM2") IN
  Written(off, "TIM2", "counter off", [off EXCEPT !.counting = FALSE])

enable_pulse(hw) == timer_enable(pin_config(hw, "STATUS_LED", "af"))
disable_pulse(hw) == pin_config(timer_disable(hw), "STATUS_LED", "output")

\* What the status LED shows.
Led(hw) ==
  LET p == hw.pin["STATUS_LED"] IN
  CASE p.mode = "output" -> IF p.level THEN "on" ELSE "off"
    [] p.mode = "af" /\ "TIM2" \in hw.clock /\ hw.counting -> "pulse"
    [] OTHER -> "dark"

=============================================================================
