------------------------------- MODULE Legacy -------------------------------
(***************************************************************************)
(* The small platform devices: the PL011 UART, PL061 GPIO (power button)   *)
(* and PL031 clock of aarch64 (devices/src/legacy), the CMOS clock, i8042  *)
(* and ACPI shutdown and timer devices of x86_64 (devices/src/acpi.rs),    *)
(* each with the driver the guest runs for it.                             *)
(*                                                                         *)
(* dev.kind is the device a behaviour is about.  Bits are sets, and time   *)
(* is in ticks of 1/Sub seconds.                                           *)
(***************************************************************************)
EXTENDS Integers, Sequences

CONSTANTS
    Kinds,         \* of "uart", "gpio", "rtc", "cmos", "timer", "power"
    Restored,      \* kinds restored from a snapshot
    Toggles,       \* the guest changes the FIFO mode while input waits
    MaxPresses,    \* presses of the power button
    EarlyPress,    \* the button is pressed while the driver sets its interrupt up
    MaxTyped, MaxWritten, MaxTime, MaxOps,
    Delay,         \* ticks the guest may take between looking for an update and its last read
    TimerWrap      \* values of the ACPI timer

VARIABLES dev, guest, host

Now == [dev |-> dev, guest |-> guest, host |-> host]
Become(s) == dev' = s.dev /\ guest' = s.guest /\ host' = s.host

Sub == 4
Key == 3
BootTime == 58

-----------------------------------------------------------------------------
(* PL011.                                                                  *)

Pl011_new == [fifo |-> <<>>, count |-> 0, trigger |-> 1, rxfe |-> TRUE, rxff |-> FALSE, fen |-> FALSE,
              level |-> {}, enabled |-> {}, out |-> <<>>]

Interrupt(s) == [s EXCEPT !.guest.irq = TRUE]

\* Mutant: input is announced only when none was waiting.
queue_input_bytes_first(s, c) ==
    LET u == s.dev.uart
        u1 == [u EXCEPT !.fifo = @ \o c, !.count = @ + Len(c), !.rxfe = FALSE]
    IN IF u.fifo = <<>> THEN Interrupt([s EXCEPT !.dev.uart = [u1 EXCEPT !.level = @ \cup {"RX"}]])
       ELSE [s EXCEPT !.dev.uart = [u1 EXCEPT !.level = @ \ {"RX"}]]

queue_input_bytes(s, c) ==
    LET u == s.dev.uart
        u1 == [u EXCEPT !.fifo = @ \o c, !.count = @ + Len(c), !.rxfe = FALSE,
                        !.rxff = @ \/ ~u.fen \/ u.count + Len(c) = 16]
    IN IF u1.count >= u1.trigger
       THEN Interrupt([s EXCEPT !.dev.uart = [u1 EXCEPT !.level = @ \cup {"RX"}]])
       ELSE [s EXCEPT !.dev.uart = u1]

pl011_set_read_trigger(u) == [u EXCEPT !.trigger = 1]

pl011_handle_write(s, reg, val) ==
    CASE reg = "DR" -> [s EXCEPT !.dev.uart.level = @ \cup {"TX"}, !.dev.uart.out = Append(@, val)]
      [] reg = "LCR_H" -> [s EXCEPT !.dev.uart = pl011_set_read_trigger(
                             [@ EXCEPT !.count = IF s.dev.uart.fen # val THEN 0 ELSE @, !.fen = val])]
      [] reg = "IMSC" -> Interrupt([s EXCEPT !.dev.uart.enabled = val])
      [] reg = "ICR" -> Interrupt([s EXCEPT !.dev.uart.level = @ \ val])

\* A read of the data register.
pl011_read(u) ==
    LET left == IF u.count > 0 THEN u.count - 1 ELSE 0
    IN [u EXCEPT !.rxff = FALSE, !.fifo = IF @ = <<>> THEN @ ELSE Tail(@), !.count = left,
                 !.rxfe = @ \/ left = 0,
                 !.level = IF left = u.trigger - 1 THEN @ \ {"RX"} ELSE @]

MIS(u) == u.level \cap u.enabled

-----------------------------------------------------------------------------
(* PL061.                                                                  *)

Gpio_new == [data |-> {}, old |-> {}, dir |-> {}, isense |-> {}, ibe |-> {}, iev |-> {}, im |-> {}, istate |-> {}]

\* Pins whose value and event register agree.
Agree(g, pins) == {p \in pins : p \in g.data <=> p \in g.iev}

pl061_internal_update(g) ==
    LET changed == ((g.old \ g.data) \cup (g.data \ g.old)) \ g.dir
        edges == changed \ g.isense
    IN [g EXCEPT !.old = IF changed # {} THEN g.data ELSE @,
                 !.istate = @ \cup (edges \cap g.ibe) \cup Agree(g, edges \ g.ibe) \cup Agree(g, g.isense)]

gpio_handle_write(g, reg, val) ==
    CASE reg = "DIR" -> [g EXCEPT !.dir = val]
      [] reg = "IS" -> [g EXCEPT !.isense = val]
      [] reg = "IBE" -> [g EXCEPT !.ibe = val]
      [] reg = "IEV" -> [g EXCEPT !.iev = val]
      [] reg = "IE" -> [g EXCEPT !.im = val]
      [] reg = "IC" -> [g EXCEPT !.istate = @ \ val]

trigger_gpio_interrupt(s) ==
    IF s.dev.gpio.istate \cap s.dev.gpio.im = {} THEN s ELSE Interrupt(s)

\* Mutant: the pin is set without looking for an edge.
trigger_key_silent(s, key) ==
    IF key \in s.dev.gpio.dir THEN s
    ELSE trigger_gpio_interrupt([s EXCEPT !.dev.gpio.data = @ \cup {key}])

trigger_key(s, key) ==
    IF key \in s.dev.gpio.dir THEN s
    ELSE trigger_gpio_interrupt([s EXCEPT
             !.dev.gpio = pl061_internal_update([@ EXCEPT !.data = @ \cup {key}])])

gpio_read(g) == g.istate \cap g.im

-----------------------------------------------------------------------------
(* The clocks.                                                             *)

Seconds(t) == BootTime + t \div Sub

Rtc_new(now) == [offset |-> (Seconds(now) * Sub) + (now % Sub), previous |-> now, load |-> 0]
get_time(r, now) == (r.offset + (now - r.previous)) \div Sub
rtc_handle_write(r, val, now) == [r EXCEPT !.load = val, !.previous = now, !.offset = val * Sub]

\* Status register A announces the change of the second.
UpdateInProgress(now) == now % Sub >= Sub - 1

to_bcd(v) == ((v \div 10) * 16) + (v % 10)
from_bcd(v) == ((v \div 16) * 10) + (v % 16)

Cmos_new == [index |-> "sec", ram |-> 0]

cmos_read(c, now) ==
    CASE c.index = "sec" -> to_bcd(Seconds(now) % 60)
      [] c.index = "min" -> to_bcd((Seconds(now) \div 60) % 60)
      [] c.index = "uip" -> IF UpdateInProgress(now) THEN 160 ELSE 32
      [] OTHER -> c.ram

cmos_write(s, offset, index, val) ==
    IF offset = "index" THEN [s EXCEPT !.dev.cmos.index = index]
    ELSE IF s.dev.cmos.index = "reset" /\ val = 0 THEN [s EXCEPT !.host.resets = @ + 1]
    ELSE [s EXCEPT !.dev.cmos.ram = val]

\* The ACPI timer is as wide as its register, whatever has passed.
timer_read(start, now) == (now - start) % TimerWrap

\* The ports that end or restart the machine.
i8042_write(s, val) == IF val = 254 THEN [s EXCEPT !.host.resets = @ + 1] ELSE s
shutdown_write(s, val) ==
    CASE val = 1 -> [s EXCEPT !.host.resets = @ + 1]
      [] val = 52 -> [s EXCEPT !.host.exits = @ + 1]
      [] OTHER -> s

-----------------------------------------------------------------------------
Fresh(kind, now) ==
    [kind |-> kind, uart |-> Pl011_new, gpio |-> Gpio_new, rtc |-> Rtc_new(now), cmos |-> Cmos_new, start |-> now]

New ==
    /\ \E kind \in Kinds : dev = Fresh(kind, 0)
    /\ guest = [pc |-> "idle", irq |-> FALSE, got |-> <<>>, left |-> 0, seen |-> 0,
                sec |-> 0, min |-> 0, at |-> 0, last |-> 0, set |-> -1]
    /\ host = [now |-> 0, typed |-> 0, written |-> 0, presses |-> 0, missed |-> FALSE,
               resets |-> 0, exits |-> 0, asked |-> 0, ops |-> 0]

\* The user types; several bytes can arrive at once.
Type ==
    /\ dev.kind = "uart"
    /\ \E n \in 1 .. MaxTyped - host.typed :
         Become([queue_input_bytes(Now, [i \in 1 .. n |-> host.typed + i]) EXCEPT !.host.typed = @ + n])

\* The driver: it opens the line, then serves it from its interrupt handler.
UartOpen ==
    /\ dev.kind = "uart" /\ guest.pc = "idle" /\ host.ops < MaxOps
    /\ \/ Become([pl011_handle_write(Now, "IMSC", dev.uart.enabled \cup {"RX"}) EXCEPT !.host.ops = @ + 1])
       \/ \E fen \in BOOLEAN :
             /\ Toggles \/ dev.uart.fifo = <<>>
             /\ Become([pl011_handle_write(Now, "LCR_H", fen) EXCEPT !.host.ops = @ + 1])

\* Output: the first byte at once, the rest when the UART asks for it.
UartStartTx ==
    /\ dev.kind = "uart" /\ guest.pc = "idle" /\ guest.left = 0 /\ host.written < MaxWritten
    /\ \E n \in 1 .. MaxWritten - host.written :
         Become([pl011_handle_write(pl011_handle_write(Now, "DR", host.written + 1),
                                    "IMSC", dev.uart.enabled \cup {"TX"})
                 EXCEPT !.guest.left = n - 1, !.host.written = @ + 1])

UartIsr ==
    /\ dev.kind = "uart"
    /\ \/ /\ guest.pc = "idle" /\ guest.irq
          /\ Become([Now EXCEPT !.guest.irq = FALSE, !.guest.pc = "isr"])
       \/ /\ guest.pc = "isr" /\ MIS(dev.uart) = {}
          /\ Become([Now EXCEPT !.guest.pc = "idle"])
       \/ /\ guest.pc = "isr" /\ "RX" \in MIS(dev.uart)
          /\ Become([Now EXCEPT !.guest.pc = "drain"])
       \/ /\ guest.pc = "drain"
          /\ Become(IF dev.uart.rxfe THEN [Now EXCEPT !.guest.pc = "isr"]
                    ELSE [Now EXCEPT !.dev.uart = pl011_read(@),
                             !.guest.got = IF dev.uart.fifo = <<>> THEN @ ELSE Append(@, Head(dev.uart.fifo))])
       \/ /\ guest.pc = "isr" /\ "TX" \in MIS(dev.uart)
          /\ Become(IF guest.left = 0
                    THEN pl011_handle_write(Now, "IMSC", dev.uart.enabled \ {"TX"})
                    ELSE [pl011_handle_write(pl011_handle_write(Now, "ICR", {"TX"}), "DR", host.written + 1)
                            EXCEPT !.guest.left = @ - 1, !.host.written = @ + 1])

\* The power button, pressed through the API.
Press ==
    /\ dev.kind = "gpio" /\ host.presses < MaxPresses
    /\ LET ready == Key \in dev.gpio.ibe \cap dev.gpio.im
           s1 == trigger_key(Now, Key)
       IN /\ ready \/ EarlyPress
          /\ Become([s1 EXCEPT !.host.presses = @ + 1,
                               !.host.missed = @ \/ (ready /\ Key \notin gpio_read(s1.dev.gpio))])

GpioOpen ==
    /\ dev.kind = "gpio" /\ guest.pc = "idle"
    /\ Become([Now EXCEPT !.dev.gpio = gpio_handle_write(@, IF Key \in @.ibe THEN "IE" ELSE "IBE", {Key})])

GpioIsr ==
    /\ dev.kind = "gpio"
    /\ \/ /\ guest.pc = "idle" /\ guest.irq
          /\ Become([Now EXCEPT !.guest.irq = FALSE, !.guest.pc = "isr"])
       \/ /\ guest.pc = "isr"
          /\ LET pins == gpio_read(dev.gpio)
             IN Become(IF pins = {} THEN [Now EXCEPT !.guest.pc = "idle"]
                       ELSE [Now EXCEPT !.dev.gpio = gpio_handle_write(@, "IC", pins), !.guest.seen = @ + 1])

\* The clocks.
Tick ==
    /\ dev.kind \in {"rtc", "cmos", "timer"} /\ host.now < MaxTime
    /\ guest.pc \in {"sec", "min"} => host.now - guest.at < Delay
    /\ Become([Now EXCEPT !.host.now = @ + 1])

SetClock ==
    /\ dev.kind = "rtc" /\ host.ops < MaxOps
    /\ \E val \in {7, 90} :
         Become([Now EXCEPT !.dev.rtc = rtc_handle_write(@, val, host.now), !.host.ops = @ + 1,
                            !.guest.set = val, !.guest.at = host.now])

\* Look for an update, then read the parts of the time, each behind its index.
ReadCmos ==
    /\ dev.kind = "cmos"
    /\ LET go(index, pc) == [cmos_write(Now, "index", index, 0) EXCEPT !.guest.pc = pc]
           val == cmos_read(dev.cmos, host.now)
       IN \/ guest.pc \in {"idle", "done"} /\ Become(go("uip", "uip"))
          \/ /\ guest.pc = "uip"
             /\ Become(IF val >= 128 THEN go("uip", "uip") ELSE [go("sec", "sec") EXCEPT !.guest.at = host.now])
          \/ guest.pc = "sec" /\ Become([go("min", "min") EXCEPT !.guest.sec = from_bcd(val)])
          \/ guest.pc = "min" /\ Become([go("reset", "done") EXCEPT !.guest.min = from_bcd(val)])

ReadTimer ==
    /\ dev.kind = "timer" /\ guest.at # host.now
    /\ LET val == timer_read(dev.start, host.now)
       IN Become([Now EXCEPT !.guest.seen = (val - guest.last) % TimerWrap, !.guest.sec = host.now - guest.at,
                             !.guest.last = val, !.guest.at = host.now])

\* The guest asks for a reset or for the end, by any of the ports.
AskPower ==
    /\ dev.kind \in {"power", "cmos"} /\ host.asked < 1
    /\ \/ /\ dev.kind = "power"
          /\ \E val \in {1, 52, 254} :
               Become([(IF val = 254 THEN i8042_write(Now, val) ELSE shutdown_write(Now, val))
                          EXCEPT !.host.asked = @ + 1])
       \/ /\ dev.kind = "cmos" /\ guest.pc = "done"
          /\ Become([cmos_write(Now, "data", "reset", 0) EXCEPT !.host.asked = @ + 1])

\* A snapshot is restored; only the UART and the GPIO have one.
state(d) == [uart |-> d.uart, gpio |-> d.gpio]
set_state(d, saved) == [d EXCEPT !.uart = saved.uart, !.gpio = saved.gpio]

Restore ==
    /\ dev.kind \in Restored /\ host.ops < MaxOps
    /\ Become([Now EXCEPT !.dev = set_state(Fresh(dev.kind, host.now), state(dev)), !.host.ops = @ + 1])

Next ==
    \/ Type \/ UartOpen \/ UartStartTx \/ UartIsr
    \/ Press \/ GpioOpen \/ GpioIsr
    \/ Tick \/ SetClock \/ ReadCmos \/ ReadTimer \/ AskPower
    \/ Restore

Spec == New /\ [][Next]_<<dev, guest, host>>

-----------------------------------------------------------------------------
(* Properties.                                                             *)

Count(n) == [i \in 1 .. n |-> i]

\* What is typed reaches the guest in order and nothing is left behind with the receiver
\* said to be empty; what the guest writes comes out in order (Pl011::queue_input_bytes,
\* read, handle_write).
UartKeepsOrder ==
    dev.kind = "uart" =>
        /\ guest.got \o dev.uart.fifo = Count(host.typed)
        /\ dev.uart.out = Count(host.written)
        /\ dev.uart.rxfe => dev.uart.fifo = <<>>

\* While input waits, or output is left and the guest waits for the transmitter, an interrupt
\* is under way or its handler runs: neither side waits for the other for ever.
UartIsAnnounced ==
    dev.kind = "uart" /\ guest.pc = "idle" /\ ~guest.irq =>
        /\ "RX" \in dev.uart.enabled => dev.uart.fifo = <<>>
        /\ guest.left = 0

\* A press of the power button, once the driver listens for both edges, is in the status
\* register for it to see (Gpio::trigger_key).
PressIsSeen == ~host.missed

\* ... and the driver, when it rests, has seen what the register says.
PressIsServed ==
    dev.kind = "gpio" /\ guest.pc = "idle" /\ ~guest.irq => dev.gpio.istate \cap dev.gpio.im = {}

\* The time a guest reads in parts was the time at one moment of its reading (Cmos::read).
ClockIsWhole ==
    dev.kind = "cmos" /\ guest.pc = "done" =>
        \E t \in guest.at .. host.now :
            guest.sec = Seconds(t) % 60 /\ guest.min = (Seconds(t) \div 60) % 60

\* The clock goes on from the time the guest gave it, or else from the host's (Rtc).
ClockGoesOn ==
    dev.kind = "rtc" =>
        get_time(dev.rtc, host.now) = IF guest.set >= 0 THEN guest.set + (host.now - guest.at) \div Sub
                                      ELSE Seconds(host.now)

\* Two readings of the ACPI timer differ by the time between them (AcpiPmTimerDevice::read).
TimerMeasures == dev.kind = "timer" => guest.seen = guest.sec % TimerWrap

\* Each request for a reset or for the end raises one event, and nothing else does.
PowerIsAsked == host.resets + host.exits = host.asked

LegacyDevicesWork ==
    /\ UartKeepsOrder /\ UartIsAnnounced /\ PressIsSeen /\ PressIsServed
    /\ ClockIsWhole /\ ClockGoesOn /\ TimerMeasures /\ PowerIsAsked
=============================================================================
