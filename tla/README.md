# Verification of libpca

libpca is a C library for the ATmega328p: interrupt driven serial I/O, SLIP
framing, timer delays, a tone generator, pulse width modulation, a two-wire
master, bit-banged 1-wire and drivers for a few displays and sensors. This
directory holds TLA+ models of it, TLC configurations that check them on small
instances, and proofs, checked by TLAPS, that hold for every size.

Everything on the chip runs on one core. Concurrency comes from three places:
interrupt handlers that run between two instructions of the main program (or,
with `ISR_NOBLOCK`, inside one another), peripherals that work on their own
(USART, timers, TWI unit), and what is connected to the pins. The library has no
locks and no scheduler. It shares `volatile` variables and device registers
between handlers and callers and spins in loops until a handler changes them.
That decides what is worth checking: which interleavings of a handler with a
caller break a buffer, and which loops come back.

## The system

| component | state | operations | interacts with | hard to get right |
|---|---|---|---|---|
| serial receive (`serial.c`) | ring with `head`, `tail`; `UCSR0B` enables; the USART's two-frame FIFO | `USART_RX_vect`; `serial_getc`, `serial_recv`, `serial_peek`, `serial_available`, `serial_poll_recv`, `serial_flush`, `serial_init`, `serial_install_interrupts`, stdin wrapper | SLIP reads through it | the handler runs between any two accesses of a caller; a full ring; clearing in two steps; polling beside the handler |
| serial transmit (`serial.c`) | a second ring; `UDRIE0`; `UDR0` | `USART_UDRE_vect`; `serial_send`, `serial_sendc`, `serial_poll_send`, stdout wrapper | SLIP writes through it | the handler masks itself; a caller that waits for it; the order of store and publish |
| SLIP (`slip.c`) | none between calls | `slip_recv`, `slip_send`, `slip_append_crc16`, `slip_prepend_crc16`, `slip_verify_crc16` | serial | escapes across frame ends; short buffers; lost bytes; widths of counters and of the CRC verdict |
| timer delays (`tdelay*.c`) | a 32 bit countdown per timer, the compare interrupt enable, the clock select | `T*_COMPA` handlers (`ISR_NOBLOCK`), `tdelay_ms`, `tdelay_us`, setup | beeper, the timers | a countdown of four bytes read while the handler decrements it; a handler interrupted by itself |
| beeper (`beeper.c`) | the same countdown and a compare pin | `beeper_init`, `beeper_beep`, `beeper_off`, `beeper_block` | tdelay handler | the same, and the pin |
| timer arithmetic (`timer_common.c`, `tpwm.c`, divisor of `serial.c`) | the registers of a timer, the TEMP register of timer 1 | prescaler search, CTC set-up, `tpwm_fpwm_init`, `tpwm_pwm_init`, `tpwm_setup_for_freq`, `tpwm_setup_for_bitres` | tdelay, beeper; a timer that was used for something else before | widths, prescaler tables that differ between timers, bits that are only set, the order of the halves of 16 bit registers |
| two-wire master (`twi.c`) | per device context (`status`, `slarw`, `len`, `xdata`), one context pointer for the handler, the `TWCR` register | `TWI_vect`; `twi_mtx`, `twi_mrx`, `twi_sync`, `twi_status`, `twi_search_devices`, `twi_minit` | slaves and other masters on the bus | arbitration lost, a NACK in the middle, repeated START between contexts, the busy flag somebody waits for |
| 1-wire (`soft_onewire.c`, `dev_ds18b20.c`) | the bus line and its pull-up | `sow_reset`, `sow_write_byte`, `sow_read_byte`, `sow_strong_pullup`; `ds18b20_write_rom`, `ds18b20_start_conversion`, `ds18b20_read_scratchpad` | one sensor with power, memory and timing of its own | presence ignored, a sensor unplugged or a program restarted in the middle, current while it converts |
| HD44780 (`dev_hd44780.c`) | none; the display has mode, nibble phase, cursor | `hd44780_init`, commands, text | lines of a port (`gpio.h`) | never asks whether the display is busy; nibble phase after a reset |
| PCD8544 (`dev_pcd8544.c`), SPI (`spi_hw_poll.c`) | a position next to the display's own; SPI registers | `pcd8544_init`, text, blocks, pictures; `spi_hw_poll_*` | SPI, lines of a port | two positions that must agree; a line changed while a byte is shifted |
| seven segment (`dev_d7seg.c`), TMP36, ADC (`adc.c`) | digits, the one selected; converter registers | `d7seg_multiplex` in an interrupt; conversions; the program of `examples/d7seg.c` | share a port with other drivers | digits changed beside the handler, lines set by load and store |
| DS1307, 1-wire network, common helpers | - | register names; unfinished; bit macros, dithering | - | - |

What makes each part correct: the rings are FIFOs that lose bytes only when
full; a caller that waits is released; a decoded frame is what the peer encoded;
a delay is not shorter than asked for; the TWI master is idle exactly when no
transfer is under way and reports how the last one ended; the device protocols
stay in phase with the device.

## Plan

1. The serial rings and their abstract queue, with proofs (done).
2. `TDelay`: the countdown, torn reads and nested handlers; `TimerCalc` (done,
   with proofs of both).
3. `Twi`: contexts, handler and bus (done); an abstract transfer service that it
   implements.
4. `Slip` and `SlipCrc` over the abstract receive ring (done); a packet service
   that it implements.
5. 1-wire and DS18B20, HD44780, PCD8544, seven segment, SPI, ADC, PWM, and the
   baud rate divisor, with a sensor that comes and goes and a microcontroller
   that is reset (done).
6. Proofs by inductive invariants: masked timers, pins and the countdown; the TWI
   master's types, hold of the bus, search, end of a read and reports; SLIP; the
   sensor's current, bits and readings; the lines, the contents of both displays,
   the SPI port and the converter; what is computed from the clock, and the
   checksum (done). Left are the refinements of the abstract
   services of 3 and 4.

Abstract specifications worth stating: the lossy bounded queue (`ByteQueue`), a
transfer that is started, progresses and ends once, a line that delivers frames.

## How the modules relate

    ByteQueue <- SerialRx (Ring)            SerialRxProofs, RingProofs
    ByteQueue <- SerialTx (Ring)            SerialTxProofs, RingProofs
    Slip uses ByteQueue as its receive ring SlipProofs
    TDelay                                  TimerProofs
    Twi                                     TwiProofs
    OneWire - Ds18b20                       Ds18b20Proofs
    TimerCalc - Tpwm - Clocks --+           TimerProofs
    Baud -----------------+     |
    SlipCrc ------------------- Computations  SlipProofs
    Gpio - Hd44780 ---------------+
       |-- Spi - Pcd8544 ---------+- Board  BoardProofs
       +-- D7seg - Thermometer ---+

A dash is EXTENDS, an arrow an implementation that is checked and proved, and
the modules on the right hold theorems.

Where several invariants of one component answer the same question, the
configuration checks a conjunction that has them as named parts.

Each component is a module with its properties; the configurations named after
it instantiate it. A run marked as a violation checks one property that a
comment or a header of the library states, and finds the code doing otherwise;
`PROJECT.json` quotes the line.

## Serial

`ByteQueue` says what an interrupt driven buffer promises: frames wait on the
wire in their order; each is kept at the end of a bounded queue or dropped, and
dropped only if it is damaged, if the queue is full or while the reader clears
the queue; the reader takes from the front.

`Ring` is `ring.h` with the index arithmetic of `serial.c`. TLA+ sequences start
at 1, so slot `i` of the array is element `i + 1`.

`SerialRx` is the receive half. `ring`, `head`, `tail` are `g_rx_buff.u.r`,
`rxen` and `rxcie` the bits of `UCSR0B`, `fifo` what the USART holds. `RxIsr` is
`USART_RX_vect`: it is `ISR_BLOCK`, hence atomic. The main program runs one call
at a time. `pc` labels the access to a shared variable or register that it makes
next, and `size`, `waitall`, `n`, `buf` are the arguments and locals of the
call. `common_zero_mem` never advances its pointer (`common.h:231`), so
`InitZero` writes the head again and again. A compiler may merge these writes:
the model then has more interleavings than the build.

`SerialTx` is the transmit half, in the same style. `offered` is what is left of
the data of the running call; `UdreIsr` is `USART_UDRE_vect` and `Shift` the
hardware that empties `UDR0`. `StdoutPoll` is `SERIAL_STDOUT_POLL`. `MixPolling`
and `Reinit` say what the calling program does: whether it polls while an
interrupt uses the same data register, and whether it calls `serial_init` again.

Both halves are refinements of `ByteQueue`. For the receiver the wire is the
FIFO of the USART and `taken` the byte a call consumed last. For the transmitter
the wire is the data of the running call and `taken` what the interrupt loaded
last: `serial_send` may give up the rest of its data, but only when the ring is
full.

### Runs

| run | shows |
|---|---|
| `receive` | `RingSound`: types; the byte a read copied out is still the oldest when its slot is released; what `serial_available` and `serial_peek` saw stays valid while the interrupt stores; the interrupt stops short of the stale tail of a clearing call. Polled reads (when the interrupt is not installed) neither overtake nor invent bytes; refinement of `ByteQueue`; a blocking read returns |
| `transmit` | `RingSound`: types; a byte is in its slot before the head passes it. Polled bytes are taken by the hardware; as long as no call asks to wait, nothing is left behind a masked interrupt and every byte leaves; refinement of `ByteQueue` |
| `transmit_blocking` (violation) | `serial_send(.., .., 1)` may spin for ever |

`waited` remembers whether `serial_send` was ever asked to wait. Until then
bytes leave the ring; afterwards they need not, because such a call can return
with the interrupt masked (or, as the violation run shows, not return).

Bounds: three slots (two usable) make the ring empty, partly filled, full and
wrapped within a few steps; data and buffers of up to three to five bytes are
longer than the ring, so that calls meet a full and an empty ring in their
middle; two byte values tell bytes apart (the transmit runs use the newline and
the carriage return, which the stdout wrapper treats differently); a FIFO of two
frames is that of the chip. `CharSize` stands for 256; only the value that
`serial_send` returns depends on it.

Fairness: a call that runs takes its next step (`WF(CallStep)`: the main program
is the only thread), a pending interrupt is served (`WF(RxIsr)`, `WF(UdreIsr)`:
no handler disables interrupts for ever), the hardware shifts out what it was
given, and, for blocking reads only, a peer that keeps sending sends good frames
again and again (`SF(GoodFrame)`).

## Timer delays and the beeper

`TDelay` has, per timer, the bits that matter: `mask` (`OCIExA`), `clock` (the
clock select bits are not 0), `flag` (`OCFxA`), the countdown `duration`,
`resetPin` and the bit of the pin in `PORT`. The handlers are `ISR_NOBLOCK`, so
`stack` holds the handlers that have started and not returned; the innermost one
goes on, and the main program when there is none. A duration is a word of `Width`
bytes of `Base` values, the lowest first, and is loaded and stored byte by byte by
handler and caller alike, which is what an 8 bit core does with a `uint32_t`; `Pred`
is its decrement with the borrows. `PORT` is loaded and stored
in two steps, because line 79 goes through a pointer; setting and clearing bits
of `TIMSKx` and `TCCRxB` is one step, since what a handler can change between a
load and a store of these is what the store would set anyway. Time is counted in
compare matches: `asked` and `due`, words as well, say how many a timer was asked
for and how many of these have not come.

`Fast` are the timers whose match period may be shorter than a handler: at the
1 MHz of `tdelay_us` it is, at the 1 kHz of `tdelay_ms` and for audible tones it
is not. A program may call anything at any time: a delay right behind another one,
whose last match is still to be served, and a set-up over a countdown that runs.
Three records say what the properties depend on: `torn` (the loop of `_tdc_block`
has read on both sides of a borrow), `nested` (a handler was interrupted by one of
the same timer between its test of `duration` and the end of its decrement) and
`over` (a timer was set up while its countdown still ran, unmasked). The code
promises nothing after the last two and comes back early after the first; the
properties name each exception, and the table below shows that it needs it.

`TimerCalc` is the arithmetic of `_tdc_setup_delay`: the search through the
prescaler tables, the clamp, the registers and the number of matches. One
behaviour is one call. `Tpwm` goes on from there with the pulse width calls in any
order, on a timer that holds what the tone left: the clock select bits, which a
set-up only adds to, `ICR1` and `OCR1A`, and `temp`, the register through which
the halves of a 16 bit register of timer 1 pass. `Baud` is the table and the
computation of `serial_init`, `Clocks` the two together, and `Computations` puts
the checksums of SLIP (`SlipCrc`, below) beside them.

| run | shows |
|---|---|
| `delay` | two timers whose handlers interrupt each other, one also itself, every call: types, and the countdown never passes below 0 (`WithinBounds`); a timer whose interrupt is masked between calls does not run; a call that blocks returns more than one match early (the one pending when the timer was started) only if its read was torn (`NotEarlyUnlessTorn`); a call that blocks hangs only on a timer that was stopped while the call set it up (`RunningBlockReturns`), and every tone ends |
| `delay_torn` (violation) | a duration of two bytes is read on both sides of a borrow |
| `computations` | `TimerAsAsked`: on each timer, for tones from 20 Hz to 1 MHz: period, finest prescaler, number of matches. `PwmAsAsked`: after an initialisation and a set-up in single slope mode the frequency is the one asked for, or returned, whatever the timer did before, and the first pulse is the shortest. `BaudNearest`: the divisor makes the bit length nearest to the one asked for. `VerdictRight`: the checksum, see SLIP |

Bounds: two bytes of two values are the smallest countdown with a borrow to tear,
and a duration of 2 borrows at its first match. Two calls are enough for a call to
meet what another leaves behind, two timers for a handler to be interrupted by
another, and two active handlers for one of the fast timer to be interrupted by
itself. `delay_torn` has bytes of four values, for which a delay loses more than
the pending match.
`TonesEnd` is about programs that make finitely many calls, which is what
`MaxCalls` says.
`computations` has every predefined speed, the speeds at which the computation
changes its mode or its register is full, and tones whose products fit the 31
bits that TLC has. `ProductAssumption` bounds tones and delays to those whose
products fit the 32 bits of the code. `TimerAsAsked` has two exceptions, which it
names: the length of `tdelay_us`, and the lower bounds for timer 2 where it is set
up from the table of the others (`OwnTable`); there the tones are only known not to
be lower, and the delays not longer, than was asked for.

Fairness: a running timer matches (`WF(Match)`), an unmasked match is served when
the handlers on top of it let it (`SF(Vector)`), a handler goes on, and the main program is not starved
(`SF(CallStep)`): an AVR executes at least one instruction of the main program
between two interrupts, however short the match period.

## Two-wire interface

`Twi` is `twi.c` against a TWI unit and a bus, both external. A context has the
fields of `struct twi_ctx`; its `slarw` is `addr` and `rw`, and its `status` the
bits `busy`, `rs` (a repeated START was sent), `stop` (what the caller passed)
and the error `err`. `xdata` is the place in the buffer, from 1. `g` is
`g_bus_ctx`. `phase` is what the unit does after a write of `TWCR`; when it is
done it sets `twint` and `twsr`, and `TWI_vect`, which is `ISR_BLOCK` and one
action, runs. `_twi_mx` is one action too: a program calls `twi_sync` before it
starts the next transaction, and then nothing raises an interrupt before the
write of `TWCR` that ends `_twi_mx`. What a program does with a context before
`twi_minit`, and calls of `twi_mtx` before the transaction in progress has
ended, are not modelled.

`wire` collects the bytes a device accepted or sent in the running transaction
and `buf` what the handler stored; bytes are told apart by their place.
`Faults` says what can go wrong: a device does not acknowledge, another master
wins the arbitration (in the address, in a byte that is sent, or in the bit that
denies the last byte of a read), the bus shows an illegal START or STOP, or
another master addresses this one while it waits for the bus.

| run | shows |
|---|---|
| `twi` | two contexts, every fault. `ReportedAsHappened`: a write reports no error exactly when a device accepted every byte, in order; a read stores what the device sent, in order, and all that was asked for exactly when neither lost arbitration (1) nor a denied address (4) is reported. Lost on the last byte, it reports 1 and has not stored that byte. The property does not ask which status a complete read should have: the code gives it 5, which `twi_common.h:70` calls a bus error (`ReadReportsNoError` in the table below). Further: types; the bus is kept only for a repeated START that the context knows of, with no interrupt left waiting; a read never ends on a byte that was acknowledged; a search finds only devices that are there; `twi_sync` returns unless the unit reports a state that `TWI_vect` has no case for |
| `twi_repeated` (violation) | the bit for a repeated START belongs to a context, the START to the bus: when another context goes on, `twi_sync` waits for ever |

`Disciplined` says that a program which asked for a repeated START goes on with
the context that sent it. The violation run drops it.

Bounds: lengths of 1 and 3 have a first, a middle and a last byte. Three
transactions or searches let each leave something behind for the next (a
repeated START, an error, another context). `LenMod` stands for 2^16 and is
larger than any length. Three addresses, two of them in the range of the search
and one with a device, stand for the 7 bit ones.

Fairness: the unit finishes what it does (`WF(Hw)`: devices stretch the clock
and other masters keep the bus for a finite time), interrupts are served, and a
call that runs takes its next step.

## SLIP

`Slip` has a sender (`slip_send`) and a receiver (`slip_recv`, called again with
an empty buffer whenever it returns). The default `SLIP_CHAR_SEND` and
`SLIP_CHAR_RECV` are a polled send and `serial_getc`, so the receiver takes its
characters from the receive ring, which is the instance `Ring` of `ByteQueue`;
that `SerialRx` implements `ByteQueue` is proved. What `ByteQueue` drops is what
SLIP has to live with. Characters carry the number of their packet and
their place in it, for the properties only.

`SlipCrc` inserts a checksum, damages at most one byte and verifies it, with
the widths of the code: loop counters and return values of 8 bits. Bytes and words
are the sets of their bits, so that an exclusive or is the difference of two sets
and a shift moves every element.

| run | shows |
|---|---|
| `slip` | without losses (`DeliveredAsSent`): exactly the packets sent, in order, whatever characters they have; empty ones are skipped, long ones cut; and every packet that can be received is. With losses: a packet that lost nothing is received as it was sent, unless its first character is one that an escape left over from a damaged packet changes |
| `slip_escape` (violation) | the same without that exception: the escape flag survives an END, so an ESC whose second character is lost changes the next packet |
| `computations` | `VerdictRight`: a packet with a damaged byte is refused; an intact one has the checksum it was sent with, appended or prepended, and is accepted unless the low byte of that is 0, which an 8 bit verdict cannot tell from a failure (against `slip.h:131`; `IntactAccepted` in the table below) |

Bounds: packets of up to two characters over a buffer of two meet an escape
across the end of a packet and a full buffer; two packets are one before and one
after a loss. A ring of one character is full whenever the receiver is late. The
runs use data of two to five bytes with six values in the first three, and four damaged
values at every place. `CharSize` stands for 256 where it is the range of a loop
counter; the data has up to `CharSize - 3` bytes, the longest that the loop can
handle.

Fairness: a call of `slip_send` goes on, the receive interrupt is served, and
the receiver, which polls, gets its turn. `AllReceived` is about
behaviours in which nothing is lost.

## 1-wire and the temperature sensor

`OneWire` is `soft_onewire.c` with one device on the line. A slot, and a reset,
runs with interrupts disabled and is one step; between two of them handlers run,
the device is plugged in or out, and the program restarts. A call is the list of
its bus operations: `todo` is what is left of it, `n`, `data` and `rx` are the bit
of the byte, the byte that is read and the bytes read. A device starts its
presence pulse within `PresenceDelay`, looks at the line at `SampleAt`, and holds
it for `HoldFor`; `Heard` and `Sampled` are what the two sides make of each other
at these times.

`Ds18b20` adds the sensor and the program. The sensor has its scratchpad and
memory, the state of the protocol (`dstate`), and, when it is powered by the bus
(`Power = 0`), a need for the strong pull-up while it converts or copies:
`starved` is what it lacked the current for. `sow_strong_pullup` is two steps: an
output, which drives the line low (`DriveLow`, to a sensor that listens a slot),
then high (`StrongPullup`), and handlers run before each (`Interrupt`); `weak` is
how long they took. A conversion that lacks current may leave the value of power
on in the scratchpad.
The program is that of `examples/ds18b20.c`: write the settings, then convert,
wait 800 ms, read, through the calls or through `sow_bus_get`. `steady` says that
since the call began the sensor stayed and showed its presence at each reset.

| run | shows |
|---|---|
| `sensor` | with a sensor that may be unplugged, or miss the presence window, and a program restarted at any slot. `SensorAsTold`: when a call ends and the sensor stayed, the temperature read is the one converted since, both bytes of it, and after the settings are written its resolution is the one asked for; with no sensor the reading is all ones. `HeardAsSent`: a sensor that showed its presence takes every byte as it was written. `NeverStarved`: a conversion lacks the strong pull-up only when handlers made it late; no call, restart or unplugging does. It says nothing of copying, which never gets the pull-up (`CopyPowered`, below). `FollowsTemperature`: where a sensor stays and its conversions have their current, its temperature is read in the end |

Bounds: a sensor that is powered by the bus, because `CONVERT_T` is only sent to
those (below). The times are the ends of the ranges in the datasheet of the
sensor, and one presence pulse that starts at 60 us, after `sow_reset` has
looked. A sensor is plugged and unplugged between bytes. Two temperatures, one
above and one below zero, differ in both bytes. A handler takes 6 us
(`IsrTimes`): one leaves the pull-up in time and two make it late, for the
datasheet has 10 us between the last slot of a command and the pull-up and the
code does not disable interrupts there. None comes once it is late, and all of
them are short of the 480 us of a reset (`TimeAssumption`). A temperature is what fits the 16 bits of a
reading (`TempsAssumption`), in the proofs any of them.

Fairness: the program goes on and a conversion ends. A copy may fail, and the
sensor may come and go for ever.

## Displays, SPI and the converter

`Gpio` is a port. `GPIO_SET_HIGH` and `GPIO_SET_LOW` load `PORT`, change a bit and
store it: two steps, `held` is what was loaded, and `ATOMIC_BLOCK` keeps handlers
out between them. `todo` is what is left of the call: lines to set, waits, and
operations of a driver that expand to these.

`Hd44780` is the driver in 4 bit mode and the display, which reads a nibble when E
falls. It has the interface width, the half of a byte, entry mode, cursor and
text, and is `busy` for as long as the datasheet says; `rushed` says that the call
wrote to it too early, `missed` that a write was lost by that. `Spi` is the port
of `spi_hw_poll.c`, with the flag that is cleared by a read of `SPSR` and an access
to `SPDR`; `Pcd8544` is the driver, which keeps a position (`pos`), and the display, which has its own
(`glcd`). `image` is what the calls ask for and `stale` says that the last call
has left the position behind (a fill, a block, an initialisation). `D7seg` is the
handler that multiplexes digits, with interrupts disabled, in three steps; its
initialisation clears the first byte of the buffer only, as the code does.
`Thermometer` is the loop of `examples/d7seg.c`: conversion, smoothing, the text
of the number, four digits.

`Board` composes them in the programs in which they meet: text on an HD44780 while
the handler multiplexes digits on the same port, the first blank and the others
with different numbers; graphics behind SPI; the thermometer. The microcontroller
may be reset at every step, alone or together with the displays, and finds a
display that kept its mode, position, memory and the half byte it may have had.

| run | shows |
|---|---|
| `board` | `LinesSound`: types; no more than one digit is lit and none while the handler works, whatever lines the program sets meanwhile. `NoGhosts`: segments change only while no digit is lit. `NotWhileBusy`: the waits of the HD44780 driver outlast its instructions; with fast line operations all but those of `hd44780_init` and `hd44780_puts`. `TextShown`: between calls the display is in step and shows what was written, also after a reset at any step, unless that left the display the first half of a byte (other than 3), and unless a write to it was lost. `DrawnAsCalled`: the PCD8544 is configured, its memory holds what was drawn and nothing else, and the driver's position is its position. `PeripheralsAsAsked`: the SPI clock and mode and the converter's channel, reference and prescaler are those asked for, no line that frames a byte changes while it is shifted, and the byte read is the answer to the byte sent. `SteadyShown`: a steady voltage is shown, as its temperature, in the end. `NothingStalls`: every call returns and every digit is lit again and again |

Bounds: a display of two characters, or of two banks of three columns with a font of
one column, so that a character and the gap before it fill and leave the line; two
calls after each initialisation and one reset. `Fast` are line operations of 1 us,
the other time is 5 us: setting a line takes six cycles at least (save `SREG`,
`cli`, load, change, store, restore), so this is a clock of about 1 MHz, and
`LcdAssumption` has every clock that is not fast take as long. A reset between the
two halves of a byte, or with E high, which may fall then, leaves the HD44780 half a
byte (`torn`). `hd44780_init` runs on it as on any other, and leaves it half a byte
behind: it latches 3, 3 and 2, of which the display takes the first for the rest of
that byte and the others for 0x32. Only if the half was a 3 do they make the 8 bit
function set that the sequence begins with; a third 3 would do for every half. A
program that initialised a torn display, or whose display lost a write, does nothing
more with it (bound). The counter of the smoothing is of 12 values instead of 256,
texts have up to two characters. The line that resets the PCD8544 is low already
when `pcd8544_init` lowers it, so the model never resets the display by it, and the
settings have to do without. Readings are one below and one above zero with two
digits before the point.

Fairness: `SF(Main)` and `SF(Handler)`: a timer interrupt that finds interrupts
disabled stays pending, atomic blocks are a few cycles long, and the handler is
over before the next interrupt is due. A conversion and a transfer end
(`WF(Converter)`).

## What the code does not keep

Each violation run checks one disagreement of the code with its own comments.
The models show others, for which no run is kept. Each row names a property and
a change to a passing configuration (`-`: none) under which TLC finds it
violated. The properties that the runs check hold only for programs that stay
away from these. Properties named here that no run checks are parts of one that
is, or are kept for this table.

| configuration | change | property | what happens |
|---|---|---|---|
| `SerialRx.cfg` | `MixPolling = TRUE` | `PollInOrder` | polling while the interrupt is installed overtakes the ring or reads an empty `UDR0` (`serial.c:402`) |
| `SerialTx.cfg` | `MixPolling = TRUE` | `PolledByteTaken` | a polled byte is lost while the interrupt transmits (`serial.c:496`) |
| `SerialTx.cfg` | `Reinit = TRUE` | `InitClearsRing` | `serial_init` does not clear the transmit ring: `common_zero_mem` writes one byte (`common.h:231`) |
| `SerialTx.cfg` | `MaxSize = 5`, `WaitModes = {TRUE}` | `ReturnsNumberSent` | the 8 bit return value of `serial_send` wraps (`serial.c:449`) |
| `TDelay.cfg` | - | `NeverBelowZero` | a handler inside the same handler decrements 0 (`tdelay_common.c:82`) |
| `TDelay.cfg` | `Fast = {}` | `NeverBelowZero` | a delay is stored over a countdown that still runs, byte by byte, and the handler decrements what is half stored (`tdelay_common.c:157`) |
| `TDelay.cfg` | `Fast = {}` | `BlockReturns` | a delay right behind another one: the last match of the first is served while the second is set up, which stops its clock, and `_tdc_block` sees the interrupt enabled again and waits for ever, against `tdelay_common.c:86`: "to protect the actual block function from blocking forever" (`tdelay_common.c:239`) |
| `TDelay.cfg` | - | `EveryToneEnds` | a handler inside the same handler ends the tone of a timer, and the outer one counts on from 0 (`tdelay_common.c:82`) |
| `TDelay.cfg` | - | `ExpiredPinAsDocumented` | `reset_cmpa_pin` means the opposite of what `tdelay_common.h:93` says (`tdelay_common.c:78`) |
| `TDelay.cfg` | `Beepers = {t1, t2}` | `PinStaysLow` | the outer handler restores the pin the inner one lowered, on the port that timers 1 and 2 share (`tdelay_common.c:79`) |
| `Computations.cfg` | - | `LastsMicroseconds` | the number of matches is computed as for milliseconds, a thousand times too many (`tdelay.c:53`) |
| `Computations.cfg` | `Implemented = {2}` | `PeriodOnEveryTimer` | timer 2 alone is set up with the other timers' prescaler table (`tdelay_common.c:235`) |
| `Computations.cfg` | `Tones = {0}` | `SilentDelay` | a beep of frequency 0, documented as silence for a while, has no duration, and its prescaler search divides by 0 (`timer_common.c:92`) |
| `Twi.cfg` | - | `SyncReturns` | after a bus error, or when another master addresses this one, nothing ends the transaction (`twi.c:205`) |
| `Twi.cfg` | `Garbage = {TRUE}` | `SyncReturnsUndisturbed` | a context on the stack is not cleared, and its repeated START bit is believed (`twi.c:274`) |
| `Twi.cfg` | `Freq = {"100K", "400K"}` | `SpeedOfContext` | the first transaction runs at the speed of the last `twi_minit` (`twi.c:306`) |
| `Twi.cfg` | - | `ReadReportsNoError` | a good read ends with status 5 (`twi.c:159`) |
| `Twi.cfg` | `Lens = {0}` | `StoresWithinLength` | a read of no bytes stores one and goes on (`twi.c:148`) |
| `Twi.cfg` | `Present = {0}` | `FindsAll` | the search covers a part of the addresses only (`twi.c:257`) |
| `Computations.cfg` | `DataLens = {6}` | `InsertEnds` | the 8 bit loop counter never reaches the size: 254 bytes loop for ever (`slip.c:185`) |
| `Computations.cfg` | `DataLens = {2}`, `Fill = {{0}, {4}}` | `IntactAccepted` | the 16 bit verdict is returned in 8 bits: an intact packet whose checksum ends in 00 is refused, against `slip.h:131`: "crc if the checksum verification went successful" (`slip.c:157`) |
| `Ds18b20.cfg` | `Power = 1` | `FollowsTemperature`, `ReadingIsConverted` | a sensor with its own supply is never told to convert (`dev_ds18b20.c:33`) |
| `Ds18b20.cfg` | - | `ConversionPowered` | two handlers of 6 us before the pull-up make it late for a sensor that converts (`dev_ds18b20.c:34`, `soft_onewire.h:126`); the comment of `dev_ds18b20.c:31` says that such sensors need the "strong pull-up during the conversion" |
| `Ds18b20.cfg` | - | `CopyPowered` | no pull-up follows `COPY_SP` (`dev_ds18b20.c:74`), and the next call resets the bus while a sensor that is powered by it copies; its memory may keep the old settings |
| `Ds18b20.cfg` | - | `SettingsKept` | the alarm limits are not written when the resolution is the same already (`dev_ds18b20.c:61`) |
| `Board.cfg` | - | `NeverRushed` | `hd44780_init` after its last command, and `hd44780_puts`, whose loop repeats only the first statement of a macro, do not wait (`dev_hd44780.h:166`) |
| `Board.cfg` | - | `TextShown` without `~torn` | a reset between the two halves of a byte is not recovered from: `hd44780_init` latches the first nibble twice, not three times, and the display stays half a byte behind (`dev_hd44780.c:43`) |
| `Board.cfg` | `Readings = {144, 226}` or `{170, 226}` | `DigitsShowTemperature` | between -10 and 10 degrees the text has one digit before the point, and the digits are taken from the wrong places (`examples/d7seg.c:104`, `:110`) |

Some more follow from reading the code with the models, without a run:

- Double slope mode makes half the frequency that `tpwm.h` says is returned; for
  resolutions of 15 and 16 bits the returned value is wrong, or a division by 0
  (`tpwm.c:81`). A timer set up twice without an initialisation ORs the prescaler
  bits of both (`tpwm.c:78`). `PwmAsAsked` is about clean set-ups.
- `d7seg_init` clears one byte of the buffers, against `dev_d7seg.h:178`: "Zeroes
  the buffers" (`dev_d7seg.c:77`, `common.h:231`); a context in static memory, as
  in the example, is zero anyway, and the model's is.
- `TCNT1H = TCNT1L = 0` after a compare value of 256 or more starts the counter of
  timer 1 at 256, and `ICR1` leaves its high byte in `OCR1A` (`timer_common.c:117`).
- 230400 baud is 3.5 % off, as far as a 16 MHz clock allows.
- `serial_init` a second time keeps all but the first byte of the transmit ring
  (`serial.c:293`); `serial_send` counts in 8 bits (`serial.c:449`).
- `hd44780_clrscr` names a parameter that it does not have, so that
  `examples/hd44780.c` does not compile; the model has its commands.
- `pcd8544_str` tests the pointer instead of the character and does not end
  (`dev_pcd8544.c:234`). After a fill or a block the driver's position is that of
  before; after `pcd8544_init` it is whatever memory held; text past the last line
  asks for bank 6 of 6; a newline indexes the font below its start.
- `spi_hw_poll_recv` on its own waits for ever in master mode: only a write starts
  a transfer (`spi_hw_poll.c:98`). Clock mode bits are only set.
- The smoothing of `examples/d7seg.c` counts results that differ from the one
  shown, not results that agree with each other: alternating results get through.

## Proofs

`RingProofs` has the arithmetic: what `%` does on indices, how storing at the
head and releasing the tail change the distance of the two, and that they append
to and shorten the window of stored bytes. The proofs of both halves use it for
every number of slots from 2 to 256; the source's indices are `unsigned char`.

`SerialRxProofs` proves every safety property of run `receive` and the
refinement for every ring size, buffer size and set of bytes. The properties are
not inductive alone. The invariant `IInv` adds that a call that is about to copy
has room in its buffer, that its counter is zero when nothing uses it, and that
the ring stays empty until the interrupt is installed (which is why a poll is in
order). `ClearingWindow` is needed for the refinement: the queue of `ByteQueue`
is the window from the tail, except while a clearing call has reset the head and
not the tail, when it is what lies below the head. `PollingSafe` and
`Refinement` assume `~MixPolling`: with `MixPolling` set to `TRUE` TLC finds
`PollInOrder` violated.

`SerialTxProofs` does the same for the transmitter. `IInv` adds that nothing is
offered between calls (`OfferBound`), that the port is initialised with an empty
ring (`InitOnce`), that the interrupt is masked with bytes in the ring only
inside a call that will enable it (`Unmasked`), and that nothing is loaded
behind the back of a poll (`PollAlone`). `StrandedSafe` and
`Refinement` assume that the port is initialised once.

`RingSafe` of both modules is the conjunction that the runs check.

`TimerProofs` proves the safety properties of run `delay` for every set of
timers, depth of nesting and number and range of bytes.

- `MaskedSafe`, for programs that set up timers whenever they like.
  `MaskedIsStopped` is not inductive: a handler masks the interrupt first and
  stops the clock later, and calls do the same in their own order. `Accounted`
  says who will stop a timer that runs masked: a handler on the stack that is
  about to, or the call in progress, which stops it or is about to unmask it. A
  nested handler may do it for an outer one, so the invariant speaks of every
  position of the stack.
- `BoundsSafe` and `NotEarlySafe` assume nothing of the program, the width of a
  duration or the speed of the timers. The parties that may write a duration are
  the handlers of its timer and the call that sets it up. `Apart` and `Alone` say
  who else may be in the middle of it: unless a handler was interrupted by itself,
  only one handler counts at a time; a call may store over it. `Counted` says of
  each handler how far it is in the word: the bytes it has stored are those of the
  predecessor of the word it read, the others are the old ones, and the word it
  read was not zero. While a borrow runs through the bytes the word in memory is no
  bound for anything, so the invariant speaks of the words that stand for it
  (`Stands`: the one a handler read) and of what they become when the call in
  progress has stored the bytes that are left (`Goal`). `Ceiling` bounds these by
  what was asked for; `Fresh` says that the bytes still to be stored are 0 as long
  as a handler may count. The lemmas on words (`Pred`, `AtMost`: the order of the
  highest byte that differs) rest on the well-foundedness of `<`, not on powers.
- `NotEarlySafe` relates the countdown to the matches that are due. `Covered`
  says that every match still due is in the word, save the one that is pending or
  that a handler has begun to count; `Expiring` and `Finished` that none is due
  when a timer is about to be masked, or is masked, outside a set-up. `Reads` is
  about the loop: if the first byte it read was 0 and no borrow came since (`torn`),
  the bytes it has read are still there, so a loop that reads all zero has seen
  the countdown at zero.

It also proves what `computations` checks of the clock, for every `F_CPU`, not
only 16 MHz.

- `TimerSafe`, for tones and delays within `ProductAssumption`. `CalcInv` is about
  the loop of the search: every prescaler tried before the current one left a
  compare value above the criterion, and the current value is that of the
  prescaler before the index. It has no assumption about the set of timers in the
  library: that the timer's own dividers are never larger than the entries of the
  table in use gives the upper bounds, that they are the same with its own table
  (`OwnTable`) the lower ones. The proof decided
  how `LastsMilliseconds` is stated, for clocks that are not a whole number of kHz
  too: a delay is short by no more than one match and, for each match, one step of
  the prescaler.
- `PwmSafe`, for every resolution and any sequence of calls after a tone or a
  delay. `PwmInv` says that the clock select bits are clear behind an
  initialisation, which is why a set-up that only adds to them selects what it
  means to, and that what a call has left is what it returned.
- `BaudSafe`, for every speed that the divisor reaches (`InReach`). `BaudInv` says
  when the loop gives up double speed. `InReach` is exact at its lower end: for a
  speed below it the rounded divisor does not fit 12 bits.

`TwiProofs` proves types, `HeldOnPurpose`, `FindsOnlyPresent` and
`LastByteNacked` for all contexts, addresses, lengths and faults. All four come
from one invariant, whose parts follow a transaction: nothing happens before the
first (`NotUsed`); while one is under way, the unit works for the context the
handler knows, on its address, with the bus granted (`UnderWay`); one that ended
left either a STOP or a repeated START with its interrupt masked (`Ended`); only
the context used last knows of a repeated START (`OneHolder`); the program goes
on when the handler is done (`InSync`); an acknowledged byte of a read is
followed by another (`ReadGoesOn`); and the addresses found so far lie behind the
search (`FoundSoFar`). They assume that contexts are cleared before use and that
a program goes on with the context that sent the repeated START: the rows above,
and the run `twi_repeated`, show what happens otherwise.
`ReportsSafe` adds an invariant of its own, `Reports`: at every point of a
transaction, how the bytes on the bus, the bytes stored, the place and the
length in the context and the status to be reported determine each other; a
byte that came last and whose NOT-ACK another master overruled is the one that
is missing (`LostLast`). It
assumes that no call asks for 0 bytes: such a read stores one byte and goes on
(the table above).

`SlipProofs` proves both properties of run `slip` for all packets, buffer lengths
and rings, whatever is lost. The invariant speaks of the characters between the
two ends: the one the receiver took last, those in the ring, the one on the line
and the one the sender sends next. `Chain` says that neighbours are linked: the
second is the successor of the first in the packet it belongs to, or all between
them belongs to packets that lost a character. What the receiver has in its
buffer is then determined by its last character alone (`Receiving`), if the packet
lost nothing and its first character (`Plainly`) is not one that an escape left
over from a damaged packet changes. Of a packet that did lose something nothing is
said but where it stands among the others.

`VerdictSafe` of the same module is about the checksum, for every content, every
value a byte can be damaged to, both places, and every length the loop of the
insertion can count. A step of `_crc16_update` is undone by looking at the bit
that the polynomial sets (`ShiftInjective`), so eight of them are injective in the
checksum and in the byte (`UpdateInjective`). `CrcInv` compares the running sum
with the sums of the bytes that were sent: they are equal up to the damaged byte
and differ from there on (`ByteDiffers`); if a byte of the checksum is the damaged
one, the sums agree and the two words differ (`SumDiffers`). For longer data the
insertion does not end, and the theorem says nothing about it.

`Ds18b20Proofs` proves the safety properties of run `sensor`.

- `PowerSafe`, for every timing, temperature and setting, any handlers, and calls
  that reach the sensor (`Served`): a conversion that lacked current had handlers
  of more than 10 us before its pull-up. The invariant `CurrentDue` is about the
  list of operations: while the program waits for a conversion the line is driven,
  or the last operation left drives it. It says nothing of a sensor that copies.
- `HeardSafe`, for a sensor that looks at the line between 5 and 84 us into a slot
  (the program releases it after 5 us to send a 1, and after 85 us to send a 0).
  `Aligned` says that a sensor that has shown its presence is at the bit the
  program is at and has received the bits below it. It holds from a reset on,
  through any call, until the sensor is unplugged or the program restarted. The
  edge that a pull-up begins with may put it a bit ahead, but no byte follows in
  that call (`PullupLast`), and the next one begins with a reset.
- `ToldSafe`, for such a sensor which holds a 0 for 13 us at least (until the
  program has sampled it) and takes its current from the bus (another one is never
  told to convert). `Told` ties the rest of the call (`Remains`: the end of a known
  list of operations) to the state the sensor is in there: told to convert or
  converted (`Converts`), sending its scratchpad of which the program has the
  first bytes and bits (`Fetches`, `Sent`), taking its settings (`Sets`). The
  three calls are the same lists whether they go through the driver or the bus.

`BoardProofs` proves every invariant of run `board`, and `NoGhosts`, for all sizes
of the displays, texts, fonts, pictures, readings, speeds and any number of
resets, under the named assumptions of the constants alone.

- `GhostsSafe` and `LinesSafe` follow from `LineInv`: an atomic block holds what
  the port is and the handler is outside (`HeldOK`), the operations left touch
  none of its lines (`ListOK`), and until interrupts are enabled no digit is lit
  (`HandlerOK`). A list of operations is `Framed`: what is sent is awaited, what
  is read was awaited.
- `PeripheralsSafe` follows from `BusInv`: a byte is shifted out only while the
  operation left first is the wait for it (`Shifting`), the flag was seen before
  the next byte is sent (`FlagSeen`), and the answer is in `SPDR` until it is read.
- `DrawnSafe`, `TextSafe` and `WaitsSafe` are about what a whole call does.
  `Leads(T, D, s, E)` says that the operations `s` lead from the states `D` of a
  display into `E` by its moves `T`: there are stages, one before each operation,
  that the moves respect. It is defined by these stages and not by recursion, and
  has lemmas for the end of a list, its first operation, and two lists in a row.
  The invariant of a call is then one line: what is left of it leads from the
  state the display is in to the state that the call promises. A step takes the
  first operation off; an expansion (`write`, `nibble`, `pcd8544_write`) replaces
  it by a list that leads to the same; and each call is shown once to lead from
  the promise of the call before to its own.
- For the PCD8544 the invariant is `DrawInv` and the promise `Goal`. A byte on its
  way is a part of the call that the display has not taken (`ByteLeft`), or has
  while the program still waits (`ByteTaken`).
- For the HD44780 they are `TextInv` and `TextGoal`. Its moves know two more states:
  `Lost`, once a write was lost, and `Crash`, if the display is written to too early
  where that must not happen, or is left in a state that the driver cannot wake it
  from. From neither is there a way back, so a call that leads to its promise never
  crashes, and this is all `WaitsSafe` needs. `Booting` are the stages of
  `hd44780_init` until the display is in 4 bit mode, from what a reset has left
  (`Hale`, which no step ever breaks, and `Asleep`, which leaves out the half bytes
  other than 3); for a torn display the invariant says no more than `Hale`, and
  `WaitsSafe` is about the others. `Resting` are those between bytes, with the time
  for which the display may still be busy. With a clock that takes 5 us for a line,
  the eight lines and two waits before E next falls outlast the 37 us of an
  instruction; with 4 us `hd44780_puts` would be too early.

Every safety property of a passing run is proved. Only model-checked is liveness
(`RunningBlockReturns`, `AllReceived`, `SteadyShown` and `NothingStalls` among it), for
good: TLAPS does not reason about `ENABLED`.

A remark for whoever extends the proofs. The SMT encoding of this TLAPS version
gives every function a length, and takes its domain to be `1..Len`. A leaf that
knows a function over `0..n`, knows that 0 is in its domain, and mentions any
sequence operator is proved whatever it says. The array of the ring is therefore
a function over `1..RingSize` that is read and written through `At` and `Put`.

## Not modelled

`PROJECT.json` lists every part. Left out are:

- `soft_onewire_network.c`: the Makefile does not build it, and it is not valid C
  as it stands (its search is partly commented out);
- the DS1307 header (register names and inline BCD), `pca.h`, `config.h` and
  `bus.h`, which declare; a bus is modelled where a driver provides one;
- ordered dithering and the bit macros of `common.h`;
- the 8 bit mode and the reading of the HD44780, which the shipped configuration
  compiles out, and `pcd8544_str`, which does not end;
- slave mode of the SPI port and automatic triggers of the converter, which
  nothing in the repository uses, and slave mode of the two-wire interface, which
  does not compile;
- statistics of the serial port, off as shipped.
