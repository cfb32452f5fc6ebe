------------------------------ MODULE Terminal ------------------------------
(***************************************************************************)
(* The terminals of a guest, in two independent parts: the serial port     *)
(* (SerialNew, SerialNext), and virtio-console (ConsoleNew, ConsoleNext).  *)
(***************************************************************************)
EXTENDS Integers, Sequences

CONSTANTS
    MAX_BUFFER_SIZE,
    Room,            \* bytes the terminal takes before it is read
    LOOP_SIZE,
    LateEnable,      \* the driver may enable interrupts with input waiting
    MaxOut, MaxIn, MaxModes,
    MaxKeys, MaxSent, MaxBuffers, MaxSizes, MaxResets, MaxRestores

VARIABLES dev, guest, host

Now == [dev |-> dev, guest |-> guest, host |-> host]
Become(s) == dev' = s.dev /\ guest' = s.guest /\ host' = s.host

-----------------------------------------------------------------------------
(***************************************************************************)
(* The serial port (devices/src/legacy/serial.rs) with a pseudo-terminal   *)
(* behind it: the circular buffer that keeps output while the terminal     *)
(* does not take it (vmm/src/serial_buffer.rs) and the thread that flushes *)
(* the buffer and brings input (vmm/src/serial_manager.rs).                *)
(*                                                                         *)
(* dev is the port and its buffer, host the terminal, guest the driver.    *)
(* A vCPU and the thread take turns at the lock of the port.  Output bytes *)
(* are numbered in the order they are written.                             *)
(***************************************************************************)

serialVars == <<dev, guest, host>>

Least(a, b) == IF a < b THEN a ELSE b

SerialNew ==
    /\ dev = [buffer |-> <<>>, head |-> 0, tail |-> 0, buffering |-> FALSE,
              recvIntr |-> FALSE, thrIntr |-> FALSE, iir |-> {},
              data |-> FALSE, in_buffer |-> <<>>, loop |-> FALSE]
    /\ guest = [out |-> 0, owed |-> <<>>, irq |-> FALSE, pc |-> "idle", modes |-> 0]
    /\ host = [held |-> <<>>, typed |-> 0]

-----------------------------------------------------------------------------
(* The circular buffer: read from head, push to tail.                      *)

\* The bytes from index a up to index b, which is left out.
Slice(s, a, b) == SubSeq(s.dev.buffer, a + 1, b)

\* What the terminal takes of these bytes; it would block on none.
Taken(s, buf) == Least(Len(buf), Room - Len(s.host.held))
Put(s, buf) == [s EXCEPT !.host.held = @ \o SubSeq(buf, 1, Taken(s, buf))]
Blocks(s, buf) == buf # <<>> /\ Taken(s, buf) = 0

add_out_poll(s) == [s EXCEPT !.dev.buffering = TRUE]

\* The part from head to tail; all written, the buffer is given back.
FlushLast(s) ==
    LET buf == Slice(s, s.dev.head, s.dev.tail)
        p == Put(s, buf)
    IN IF Blocks(s, buf) THEN add_out_poll(s)
       ELSE IF Taken(s, buf) = Len(buf)
       THEN [p EXCEPT !.dev.buffer = <<>>, !.dev.head = 0, !.dev.tail = 0,
                      !.dev.buffering = FALSE]
       ELSE [p EXCEPT !.dev.head = @ + Taken(s, buf)]

\* A buffer that wraps is written in two parts.
flush_buffer(s) ==
    IF s.dev.tail > s.dev.head THEN FlushLast(s)
    ELSE LET buf == Slice(s, s.dev.head, Len(s.dev.buffer))
             p == Put(s, buf)
         IN IF Blocks(s, buf) THEN add_out_poll(s)
            ELSE IF Taken(s, buf) = Len(buf) THEN FlushLast([p EXCEPT !.dev.head = 0])
            ELSE [p EXCEPT !.dev.head = @ + Taken(s, buf)]

\* Mutant: a full buffer does not give up its oldest byte.
Push_overtakes(s, v) ==
    LET b == IF Len(s.dev.buffer) < MAX_BUFFER_SIZE THEN Append(s.dev.buffer, v)
             ELSE [s.dev.buffer EXCEPT ![s.dev.tail + 1] = v]
    IN [s EXCEPT !.dev.buffer = b, !.dev.tail = (s.dev.tail + 1) % MAX_BUFFER_SIZE]

\* One more byte in a buffer that is in use: a full one loses its oldest.
Push(s, v) ==
    LET full == s.dev.head = s.dev.tail
        b == IF Len(s.dev.buffer) < MAX_BUFFER_SIZE THEN Append(s.dev.buffer, v)
             ELSE [s.dev.buffer EXCEPT ![s.dev.tail + 1] = v]
    IN [s EXCEPT !.dev.buffer = b,
                 !.dev.head = IF full THEN (s.dev.tail + 1) % MAX_BUFFER_SIZE ELSE @,
                 !.dev.tail = (s.dev.tail + 1) % MAX_BUFFER_SIZE]

write(s, v) ==
    IF s.dev.buffer # <<>> THEN flush_buffer(Push(s, v))
    ELSE IF Blocks(s, <<v>>)
    THEN [add_out_poll(s) EXCEPT !.dev.buffer = <<v>>, !.dev.tail = @ + 1]
    ELSE Put(s, <<v>>)

-----------------------------------------------------------------------------
(* The port.  An interrupt is an edge; the identification register tells   *)
(* its causes and is cleared when it is read.                              *)

Raise(s, cause) == [s EXCEPT !.dev.iir = @ \cup {cause}, !.guest.irq = TRUE]

thr_empty(s) == IF s.dev.thrIntr THEN Raise(s, "thr") ELSE s

recv_data(s) ==
    LET r == IF s.dev.recvIntr THEN Raise(s, "recv") ELSE s
    IN [r EXCEPT !.dev.data = TRUE]

\* A data byte of the driver: echoed in loop mode, else written and flushed.
handle_write(s, v) ==
    IF s.dev.loop
    THEN IF Len(s.dev.in_buffer) < LOOP_SIZE
         THEN recv_data([s EXCEPT !.dev.in_buffer = Append(@, v)]) ELSE s
    ELSE thr_empty(flush_buffer(write(s, v)))

queue_input_bytes(s, v) ==
    IF s.dev.loop THEN s
    ELSE recv_data([s EXCEPT !.dev.in_buffer = Append(@, v)])

ReadData(s) ==
    [s EXCEPT !.dev.iir = @ \ {"recv"},
              !.dev.data = @ /\ Len(s.dev.in_buffer) > 1,
              !.dev.in_buffer = IF @ = <<>> THEN @ ELSE Tail(@)]

-----------------------------------------------------------------------------
(* The steps.                                                              *)

\* What the buffer promises: the bytes the terminal has not taken, in order;
\* one more, when there are too many, takes the place of the oldest.
Promise(put) ==
    IF Len(guest.owed) = MAX_BUFFER_SIZE /\ put # <<>> THEN Tail(guest.owed) \o put
    ELSE guest.owed \o put

GuestWrites ==
    /\ guest.out < MaxOut
    /\ LET v == guest.out + 1
           s == handle_write(Now, v)
           n == Len(s.host.held) - Len(host.held)
           q == IF dev.loop THEN guest.owed ELSE Promise(<<v>>)
       IN Become([s EXCEPT !.guest.out = v, !.guest.owed = SubSeq(q, n + 1, Len(q))])

\* The terminal has room and its event was asked for.
Flush ==
    /\ dev.buffering /\ Len(host.held) < Room
    /\ LET s == flush_buffer(Now)
           n == Len(s.host.held) - Len(host.held)
       IN Become([s EXCEPT !.guest.owed = SubSeq(@, n + 1, Len(@))])

Input ==
    /\ host.typed < MaxIn
    /\ Become([queue_input_bytes(Now, 1) EXCEPT !.host.typed = @ + 1])

\* Someone reads the terminal.
Drain ==
    /\ host.held # <<>>
    /\ host' = [host EXCEPT !.held = <<>>]
    /\ UNCHANGED <<dev, guest>>

\* The interrupt handler of the driver: the causes, then all of the input.
Isr ==
    /\ guest.pc = "idle" /\ guest.irq
    /\ guest' = [guest EXCEPT !.irq = FALSE, !.pc = IF dev.iir = {} THEN "idle" ELSE "rx"]
    /\ dev' = [dev EXCEPT !.iir = {}]
    /\ UNCHANGED host

Receive ==
    /\ guest.pc = "rx"
    /\ IF dev.data THEN Become(ReadData(Now))
       ELSE guest' = [guest EXCEPT !.pc = "idle"] /\ UNCHANGED <<dev, host>>

\* The driver sets up the interrupts, or turns the loop mode on and off; it
\* empties the port before it enables the interrupt for input.
SetModes ==
    /\ guest.pc = "idle" /\ guest.modes < MaxModes
    /\ \E r, t, l \in BOOLEAN :
          /\ r /\ ~dev.recvIntr => LateEnable \/ ~dev.data
          /\ dev' = [dev EXCEPT !.recvIntr = r, !.thrIntr = t, !.loop = l]
    /\ guest' = [guest EXCEPT !.modes = @ + 1]
    /\ UNCHANGED host

\* A restored port: its registers and its input, but a new output buffer.
serial_set_state ==
    /\ guest.modes < MaxModes /\ guest.pc = "idle"
    /\ dev' = [dev EXCEPT !.buffer = <<>>, !.head = 0, !.tail = 0, !.buffering = FALSE]
    /\ guest' = [guest EXCEPT !.owed = <<>>, !.modes = @ + 1]
    /\ host' = [host EXCEPT !.held = <<>>]

SerialNext ==
    \/ GuestWrites \/ Flush \/ Input \/ Drain \/ Isr \/ Receive \/ SetModes \/ serial_set_state

SerialSpec == SerialNew /\ [][SerialNext]_serialVars

-----------------------------------------------------------------------------
(* What a serial port is to do.                                            *)

Content ==
    IF dev.buffer = <<>> THEN <<>>
    ELSE IF dev.tail > dev.head THEN SubSeq(dev.buffer, dev.head + 1, dev.tail)
    ELSE SubSeq(dev.buffer, dev.head + 1, Len(dev.buffer))
           \o SubSeq(dev.buffer, 1, dev.tail)

\* The buffer holds the latest bytes the terminal has not taken, all of them
\* and in the order they were written, however it wrapped, overflowed and
\* was written in parts.
OutputInOrder == Content = guest.owed

\* Output that waits has asked to be told when the terminal has room.
BufferedIsPolled == guest.owed # <<>> => dev.buffering

\* Input that waits was announced: an interrupt is due, or the driver is
\* reading, or it had not enabled the interrupt.
InputIsAnnounced ==
    dev.in_buffer # <<>> /\ dev.recvIntr => guest.irq \/ guest.pc = "rx"

SerialServes == OutputInOrder /\ BufferedIsPolled /\ InputIsAnnounced

-----------------------------------------------------------------------------
(***************************************************************************)
(* The virtio-console device (virtio-devices/src/console.rs): input kept   *)
(* until the driver has buffers for it, output, and the size of the        *)
(* terminal, which the driver is told of when it changes.                  *)
(*                                                                         *)
(* dev is the device with its worker (one step per event it handles),      *)
(* guest the driver, host the terminal.  A buffer of the driver holds one  *)
(* byte.                                                                   *)
(***************************************************************************)

consoleVars == <<dev, guest, host>>

ConsoleNew ==
    /\ dev = [worker |-> FALSE, in_buffer |-> 0, cols |-> 0, acked |-> {},
              input_queue_evt |-> FALSE, output_queue_evt |-> FALSE,
              config_evt |-> FALSE, avail |-> 0, out |-> 0, resets |-> 0]
    /\ guest = [size |-> FALSE, recvIrq |-> FALSE, configIrq |-> FALSE, cols |-> 0, got |-> 0,
                posted |-> 0, sent |-> 0]
    /\ host = [cols |-> 0, resized |-> FALSE, typed |-> 0, unread |-> 0]

-----------------------------------------------------------------------------
(* The worker.                                                             *)

\* Input goes to the buffers of the driver, as far as there are any, and the
\* driver is interrupted if one was used.
process_input_queue(s) ==
    LET n == Least(s.dev.in_buffer, s.dev.avail)
    IN [s EXCEPT !.dev.in_buffer = @ - n, !.dev.avail = @ - n,
                 !.guest.got = @ + n, !.guest.recvIrq = @ \/ n > 0]

\* The buffers of the driver are written out and given back.
process_output_queue(s) == [s EXCEPT !.dev.out = 0]

INPUT_QUEUE_EVENT ==
    /\ dev.worker /\ dev.input_queue_evt
    /\ Become(process_input_queue([Now EXCEPT !.dev.input_queue_evt = FALSE]))

OUTPUT_QUEUE_EVENT ==
    /\ dev.worker /\ dev.output_queue_evt
    /\ Become(process_output_queue([Now EXCEPT !.dev.output_queue_evt = FALSE]))

CONFIG_EVENT ==
    /\ dev.worker /\ dev.config_evt
    /\ Become([Now EXCEPT !.dev.config_evt = FALSE, !.guest.configIrq = TRUE])

\* Mutant: what is typed is only kept.
FILE_EVENT_keeps ==
    /\ dev.worker /\ host.unread > 0
    /\ Become([Now EXCEPT !.dev.in_buffer = @ + host.unread, !.host.unread = 0])

FILE_EVENT ==
    /\ dev.worker /\ host.unread > 0
    /\ Become(process_input_queue([Now EXCEPT !.dev.in_buffer = @ + host.unread,
                                              !.host.unread = 0]))

\* The size of the terminal becomes the one of the configuration; a driver
\* that knows of sizes is to be interrupted (fetch_and, so that any feature
\* counts at first and the size only afterwards).
update_console_size(s) ==
    [s EXCEPT !.dev.cols = s.host.cols,
              !.dev.config_evt = @ \/ s.dev.acked # {},
              !.dev.acked = @ \cap {"size"}]

RESIZE_EVENT ==
    /\ dev.worker /\ host.resized
    /\ Become(update_console_size([Now EXCEPT !.host.resized = FALSE]))

-----------------------------------------------------------------------------
(* The device.                                                             *)

Acked(f) == {"version"} \cup (IF f THEN {"size"} ELSE {})

\* The driver has set up its queues, with or without the size feature.
activate ==
    /\ ~dev.worker
    /\ \E f \in BOOLEAN :
          Become([Now EXCEPT !.dev.worker = TRUE, !.dev.acked = Acked(f),
                             !.guest.size = f, !.guest.configIrq = @ \/ f])

\* The driver resets the device: the worker ends, what was typed is kept.
reset ==
    /\ dev.worker /\ dev.resets < MaxResets
    /\ Become([Now EXCEPT !.dev.worker = FALSE, !.dev.resets = @ + 1,
                          !.dev.avail = 0, !.dev.out = 0,
                          !.dev.input_queue_evt = FALSE, !.dev.output_queue_evt = FALSE,
                          !.guest.size = FALSE, !.guest.recvIrq = FALSE,
                          !.guest.configIrq = FALSE, !.guest.got = 0,
                          !.guest.posted = 0])

\* A new VMM takes the state over: what is pending in an event is lost, the
\* size is the one of the terminal there used to be.
console_set_state ==
    /\ dev.worker /\ dev.resets < MaxRestores
    /\ \E c \in 0..MaxSizes :
          Become([Now EXCEPT !.dev.resets = @ + 1, !.dev.input_queue_evt = FALSE,
                             !.dev.output_queue_evt = FALSE, !.dev.config_evt = FALSE,
                             !.host.cols = c, !.host.resized = FALSE])

-----------------------------------------------------------------------------
(* The driver and the terminal.                                            *)

Post ==
    /\ dev.worker /\ guest.posted < MaxBuffers
    /\ Become([Now EXCEPT !.dev.avail = @ + 1, !.dev.input_queue_evt = TRUE,
                          !.guest.posted = @ + 1])

Send ==
    /\ dev.worker /\ guest.sent < MaxSent
    /\ Become([Now EXCEPT !.dev.out = @ + 1, !.dev.output_queue_evt = TRUE,
                          !.guest.sent = @ + 1])

\* The driver takes what it was interrupted for.
TakeInput ==
    /\ guest.recvIrq
    /\ Become([Now EXCEPT !.guest.recvIrq = FALSE, !.guest.got = 0])

ReadSize ==
    /\ guest.configIrq
    /\ Become([Now EXCEPT !.guest.configIrq = FALSE,
                          !.guest.cols = dev.cols])

Type ==
    /\ host.typed < MaxKeys
    /\ Become([Now EXCEPT !.host.typed = @ + 1, !.host.unread = @ + 1])

Resize ==
    /\ host.cols < MaxSizes
    /\ Become([Now EXCEPT !.host.cols = @ + 1, !.host.resized = TRUE])

ConsoleNext ==
    \/ INPUT_QUEUE_EVENT \/ OUTPUT_QUEUE_EVENT \/ CONFIG_EVENT \/ FILE_EVENT
    \/ RESIZE_EVENT \/ activate \/ reset \/ console_set_state
    \/ Post \/ Send \/ TakeInput \/ ReadSize \/ Type \/ Resize

ConsoleSpec == ConsoleNew /\ [][ConsoleNext]_consoleVars

-----------------------------------------------------------------------------
(* What a console is to do.                                                *)

\* Input does not lie in the device while the driver has a buffer for it,
\* unless the worker is about to look; and output that was handed over is
\* about to be written.
QueuesAreServed ==
    dev.worker =>
        /\ dev.in_buffer > 0 /\ dev.avail > 0 => dev.input_queue_evt
        /\ dev.out > 0 => dev.output_queue_evt

\* What the driver was given and has not taken, it was interrupted for.
InputIsSignalled == dev.worker /\ guest.got > 0 => guest.recvIrq

\* A driver that knows of sizes has the one of the terminal, or is on the way
\* to be told: by the pipe, by the event of the configuration, or by an
\* interrupt it has not taken yet.
SizeIsTold ==
    dev.worker /\ guest.size =>
        \/ host.resized \/ dev.config_evt \/ guest.configIrq
        \/ guest.cols = host.cols

ConsoleServes == QueuesAreServed /\ InputIsSignalled /\ SizeIsTold

=============================================================================
