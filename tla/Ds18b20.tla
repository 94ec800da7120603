------------------------------ MODULE Ds18b20 -------------------------------
(***************************************************************************)
(* The temperature sensor DS18B20 on its 1-wire bus: dev_ds18b20.c, the    *)
(* sensor, and the program of examples/ds18b20.c.  The sensor may be       *)
(* unplugged and the program restarted between any two slots.              *)
(***************************************************************************)
EXTENDS OneWire, FiniteSets, SequencesExt

CONSTANTS Power, Topology, \* what sow_ctx.conf is made of
          Romcode,         \* whether the calls name a sensor
          Th, Tl, Res,     \* arguments of ds18b20_write_rom
          Forced,
          Temps,           \* what the sensor may measure
          Resolutions      \* the resolutions its memory may hold at first

ASSUME ConfAssumption == Power \in 0..1 /\ Topology \in 0..1 /\ {Romcode, Forced} \subseteq BOOLEAN
ASSUME SettingsAssumption == {Th, Tl} \subseteq 0..255 /\ Resolutions \cup {Res} \subseteq 0..3
ASSUME TempsAssumption == Temps \subseteq 0..(2^16 - 1)

VARIABLES pc,        \* what the program does, or is about to do
          temp,      \* the temperature
          scratch,   \* scratchpad of the sensor: [lo, hi, th, tl, conf]
          eeprom,    \* its memory: [th, tl, conf]
          idx,       \* the byte of the scratchpad it is at
          took,      \* the byte it received last, since a reset
          converted, \* what it converted since ds18b20_start_conversion, -1 for nothing
          copies,    \* it takes the current to copy its settings from the bus
          starved,   \* what it lacked current for, until it is read: "convert", "copy"
          steady,    \* since the program began a call nothing was unplugged and presence was seen
          gone,      \* and nothing was plugged
          reading    \* temperature of the program

sensor == <<temp, scratch, eeprom, idx, took, converted, copies, starved>>
vars == <<master, present, pulse, dstate, dcnt, dacc, pc, sensor, steady, gone, reading>>

SKIP_ROM == 204
CONVERT_T == 68
WRITE_SP == 78
READ_SP == 190
COPY_SP == 72
POWER_ON == 1360

Parasite == Power = 0
conf == ConfMake(Power, Topology)
Served == ~Romcode \/ TopologyGet(conf) = 0

(* The configuration register for resolution r: ((a_res & 3) << 5) | 0x1f. *)
ConfigOf(r) == 32 * (r % 4) + 31

Field == <<"lo", "hi", "th", "tl", "conf">>
FromMemory(m) == [lo |-> POWER_ON % 256, hi |-> POWER_ON \div 256,
                  th |-> m.th, tl |-> m.tl, conf |-> m.conf]

Init == /\ todo = <<>> /\ n = 0 /\ data = 0 /\ rx = <<>> /\ presence = 0 /\ strong = FALSE
        /\ low = FALSE /\ weak = 0
        /\ present \in BOOLEAN /\ pulse = 0 /\ dstate = "idle" /\ dcnt = 0 /\ dacc = 0
        /\ pc = "boot" /\ temp \in Temps
        /\ eeprom \in [th : {75}, tl : {70}, conf : {ConfigOf(r) : r \in Resolutions}]
        /\ scratch = FromMemory(eeprom)
        /\ idx = 0 /\ took = 0 /\ converted = -1 /\ copies = FALSE /\ starved = {}
        /\ steady = present /\ gone = ~present /\ reading = 0

-----------------------------------------------------------------------------
(* The driver: the bus operations of each call. *)

(* fault: the strong pull-up is forgotten *)
StartConversionWeak == <<Reset>> \o IF Served THEN <<Write(SKIP_ROM), Write(CONVERT_T)>> ELSE <<>>

(* fault: no reset before the command *)
StartConversionAtOnce ==
    IF Served /\ Parasite THEN <<Write(SKIP_ROM), Write(CONVERT_T), Pullup>> ELSE <<>>

StartConversion ==
    <<Reset>> \o (IF Served THEN <<Write(SKIP_ROM)>> ELSE <<>>)
              \o (IF Served /\ PowerModeGet(conf) = 0 THEN <<Write(CONVERT_T), Pullup>> ELSE <<>>)

ReadScratchpad(len) ==
    <<Reset>> \o IF Served THEN <<Write(SKIP_ROM), Write(READ_SP)>> \o ReadData(len) ELSE <<>>

(* The same read by a program that uses sow_bus_get. *)
ReadThroughBus(len) == <<Reset>> \o BusSend(<<SKIP_ROM, READ_SP>>) \o BusRecv(len)

(* fault: the settings are written when they are the same already *)
DiffersInverted == rx[5] = ConfigOf(Res)

(* The comparison of ds18b20_write_rom, on what it read. *)
Differs == rx[5] # ConfigOf(Res)

WriteRomStart == IF ~Served THEN <<>> ELSE IF Forced THEN <<[op |-> "decide", val |-> 0]>>
                 ELSE ReadScratchpad(5) \o <<[op |-> "decide", val |-> 0]>>

(* The rest of ds18b20_write_rom. *)
Decide ==
    /\ Doing("decide")
    /\ todo' = IF Forced \/ Differs
               THEN <<Reset>> \o WriteData(<<SKIP_ROM, WRITE_SP, Th, Tl, ConfigOf(Res)>>)
                    \o <<Reset>> \o WriteData(<<SKIP_ROM, COPY_SP>>)
               ELSE <<>>
    /\ UNCHANGED <<n, data, rx, presence, strong, low, weak, present, pulse, dstate, dcnt, dacc,
                   pc, sensor, steady, gone, reading>>

-----------------------------------------------------------------------------
(* The sensor. *)

(* What a whole byte b makes of the sensor. *)
Take(b) ==
    /\ took' = b
    /\ dstate' = CASE dstate = "rom" /\ b = SKIP_ROM -> "function"
                   [] dstate = "function" /\ b = CONVERT_T -> "converting"
                   [] dstate = "function" /\ b = WRITE_SP -> "write"
                   [] dstate = "function" /\ b = READ_SP -> "read"
                   [] dstate = "write" /\ idx < 2 -> "write"
                   [] OTHER -> "idle"
    /\ idx' = IF dstate = "write" THEN idx + 1 ELSE 0
    /\ dacc' = IF dstate' = "read" THEN scratch.lo ELSE 0
    /\ scratch' = IF dstate = "write" THEN [scratch EXCEPT ![Field[idx + 3]] = b] ELSE scratch
    /\ IF dstate = "function" /\ b = COPY_SP
       THEN \E ok \in IF Parasite THEN BOOLEAN ELSE {TRUE} :
               eeprom' = IF ok THEN [th |-> scratch.th, tl |-> scratch.tl, conf |-> scratch.conf]
                               ELSE eeprom
       ELSE UNCHANGED eeprom
    /\ copies' = (copies \/ (Parasite /\ dstate = "function" /\ b = COPY_SP))
    /\ UNCHANGED <<temp, converted, starved>>

(* The sensor sees a slot in which it hears b or sends its bit. *)
SensorSlot(b) ==
    /\ pulse' = PulseAfter(85)
    /\ dcnt' = IF Hears \/ Sends THEN (dcnt + 1) % 8 ELSE dcnt
    /\ CASE Hears /\ dcnt = 7 -> Take(dacc + b * 2^7)
         [] Sends /\ dcnt = 7 ->
               /\ idx' = IF idx < 4 THEN idx + 1 ELSE 4
               /\ dacc' = scratch[Field[idx' + 1]]
               /\ UNCHANGED <<dstate, temp, scratch, eeprom, took, converted, copies, starved>>
         [] OTHER -> MoreBits(b) /\ UNCHANGED <<dstate, sensor>>
    /\ UNCHANGED <<present, pc, steady, gone, reading>>

(* _sow_write_bit *)
WriteSlot == /\ Doing("write")
             /\ \E b \in Heard : SensorSlot(b)
             /\ NextBit
             /\ UNCHANGED <<data, rx, presence, strong, low, weak>>

(* _sow_read_bit; a slot that is read is a 1 to a device that listens *)
ReadSlot == /\ Doing("read")
            /\ \E b \in Sampled :
                  /\ data' = IF n = 7 THEN 0 ELSE data + b * 2^n
                  /\ rx' = IF n = 7 THEN Append(rx, data + b * 2^n) ELSE rx
            /\ SensorSlot(1)
            /\ NextBit
            /\ UNCHANGED <<presence, strong, low, weak>>

(* The pulse takes the current from a sensor that still copies.             *)
ResetBus == /\ ResetSlot
            /\ steady' = (steady /\ presence' = 1)
            /\ idx' = 0 /\ took' = 0
            /\ starved' = IF present /\ copies THEN starved \cup {"copy"} ELSE starved
            /\ copies' = FALSE
            /\ UNCHANGED <<pc, temp, scratch, eeprom, converted, gone, reading>>

(* sow_strong_pullup makes the line an output, which drives it low (a slot  *)
(* to a sensor that listens), and then high.                                *)
DriveLow == /\ Doing("pullup") /\ ~low
            /\ low' = TRUE
            /\ \E b \in 0..1 : SensorSlot(b)
            /\ UNCHANGED <<todo, n, data, rx, presence, strong, weak>>

(* A sensor that converts needs the current within 10 us.                   *)
StrongPullup ==
    /\ Doing("pullup") /\ low /\ Done
    /\ strong' = TRUE /\ low' = FALSE
    /\ starved' = IF present /\ dstate = "converting" /\ weak > 10
                  THEN starved \cup {"convert"} ELSE starved
    /\ copies' = FALSE
    /\ UNCHANGED <<n, data, rx, presence, weak, present, pulse, dstate, dcnt, dacc, pc,
                   temp, scratch, eeprom, idx, took, converted, steady, gone, reading>>

(* Handlers run between the last slot of a command and the pull-up; for so  *)
(* long that the sensor misses its current, but no longer (bound).          *)
Interrupt == /\ Doing("pullup") /\ weak <= 10
             /\ \E t \in IsrTimes : weak' = weak + t
             /\ UNCHANGED <<todo, n, data, rx, presence, strong, low, present, pulse, dstate,
                            dcnt, dacc, pc, sensor, steady, gone, reading>>

ConversionMs == CASE scratch.conf = ConfigOf(0) -> 94 [] scratch.conf = ConfigOf(1) -> 188
                  [] scratch.conf = ConfigOf(2) -> 375 [] OTHER -> 750

(* The conversion ends while the program waits.  A sensor that lacks the    *)
(* current may start anew, as it does at power on.                          *)
Convert == /\ pc = "wait" /\ todo = <<>> /\ present /\ dstate = "converting"
           /\ dstate' = "idle"
           /\ starved' = IF Parasite /\ ~strong THEN starved \cup {"convert"} ELSE starved
           /\ \/ /\ converted' = temp
                 /\ scratch' = [scratch EXCEPT !.lo = temp % 256, !.hi = temp \div 256]
              \/ /\ "convert" \in starved'
                 /\ converted' = POWER_ON
                 /\ scratch' = FromMemory(eeprom)
           /\ UNCHANGED <<master, present, pulse, dcnt, dacc, pc, temp, eeprom, idx, took, copies,
                          steady, gone, reading>>

(* fault: the program does not wait long enough *)
WaitMsShort == 500

(* _delay_ms of the program *)
WaitMs == 800

-----------------------------------------------------------------------------
(* The program. *)

(* The call that follows when the last one is done; a call starts with no   *)
(* bytes read.                                                              *)
Goto(l, m, ops) == /\ todo = <<>> /\ pc = l /\ pc' = m
                   /\ todo' = ops /\ rx' = <<>>
                   /\ UNCHANGED <<n, data, presence, present, pulse, dstate, dcnt, dacc>>
Fresh == steady' = present /\ gone' = ~present

Boot == /\ Goto("boot", "configured", WriteRomStart)
        /\ InitLine /\ Fresh
        /\ UNCHANGED <<weak, sensor, reading>>

Start == /\ \E l \in {"configured", "read"} : Goto(l, "wait", StartConversion)
         /\ Fresh
         /\ converted' = -1
         /\ UNCHANGED <<strong, low, weak, temp, scratch, eeprom, idx, took, copies, starved,
                        reading>>

Waited == /\ WaitMs >= ConversionMs => ~(present /\ dstate = "converting")
          /\ \E ops \in {ReadScratchpad(2), ReadThroughBus(2)} : Goto("wait", "reading", ops)
          /\ starved' = {} /\ weak' = 0
          /\ UNCHANGED <<strong, low, temp, scratch, eeprom, idx, took, converted, copies, steady,
                         gone, reading>>

(* The bytes read are those of a uint16_t, the low one first. *)
Store == /\ Goto("reading", "read", <<>>)
         /\ reading' = IF Len(rx) = 2 THEN rx[1] + 256 * rx[2] ELSE reading
         /\ UNCHANGED <<strong, low, weak, sensor, steady, gone>>

Restart == /\ pc' = "boot" /\ todo' = <<>> /\ n' = 0 /\ data' = 0 /\ rx' = <<>>
           /\ strong' = FALSE /\ low' = FALSE
           /\ steady' = FALSE /\ gone' = FALSE /\ reading' = 0
           /\ dstate' = IF dstate = "converting" THEN "idle" ELSE dstate
           /\ converted' = -1 /\ starved' = {} /\ weak' = 0
           /\ UNCHANGED <<presence, present, pulse, dcnt, dacc, temp, scratch, eeprom, idx, took,
                          copies>>

(* The sensor is unplugged, or plugged in again without its scratchpad;     *)
(* between two bytes only (bound).                                          *)
Plug == /\ n = 0
        /\ present' = ~present
        /\ steady' = FALSE /\ gone' = FALSE
        /\ pulse' = 0 /\ dstate' = "idle" /\ dcnt' = 0 /\ dacc' = 0 /\ idx' = 0
        /\ copies' = FALSE
        /\ scratch' = FromMemory(eeprom)
        /\ UNCHANGED <<master, pc, temp, eeprom, took, converted, starved, reading>>

(* The temperature matters to the sensor only while it converts. *)
Warm == /\ pc = "wait" /\ todo = <<>>
        /\ temp' \in Temps \ {temp}
        /\ UNCHANGED <<master, present, pulse, dstate, dcnt, dacc, pc, scratch, eeprom, idx,
                       took, converted, copies, starved, steady, gone, reading>>

Program == Boot \/ Start \/ Waited \/ Store \/ Decide \/ ResetBus \/ WriteSlot \/ ReadSlot
           \/ DriveLow \/ StrongPullup

Next == Program \/ Interrupt \/ Convert \/ Restart \/ Plug \/ Warm

(* The program runs on, and a conversion ends. *)
Spec == Init /\ [][Next]_vars /\ WF_vars(Program) /\ WF_vars(Convert)

-----------------------------------------------------------------------------
(* Properties. *)

Byte == 0..255

TypeOK == /\ todo \in Seq([op : {"reset", "write", "read", "pullup", "decide"}, val : Byte])
          /\ n \in 0..7 /\ data \in Byte /\ rx \in Seq(Byte) /\ Len(rx) <= 5
          /\ presence \in 0..1
          /\ {strong, low, present, copies, steady, gone} \subseteq BOOLEAN
          /\ weak \in Nat /\ starved \subseteq {"convert", "copy"}
          /\ dstate \in Listening \cup {"idle", "read", "converting"}
          /\ dcnt \in 0..7 /\ dacc \in Byte /\ took \in Byte /\ idx \in 0..4
          /\ pc \in {"boot", "configured", "wait", "reading", "read"}
          /\ scratch \in [lo : Byte, hi : Byte, th : Byte, tl : Byte, conf : Byte]
          /\ eeprom \in [th : Byte, tl : Byte, conf : Byte]
          /\ reading \in 0..(2^16 - 1)

(* A sensor that has shown its presence takes every byte as it was written, *)
(* at whatever moment of the slots it looks (_sow_write_bit, sow_write_byte, *)
(* sow_reset).                                                              *)
HeardAsSent ==
    [][steady /\ Doing("write") /\ n = 7 /\ dstate \in Listening /\ n' = 0 /\ pc' = pc
          => dcnt' = 0 /\ took' = Head(todo).val]_vars

(* The temperature read is the one the sensor converted since it was told   *)
(* to, both bytes of it; with no sensor it is all ones                      *)
(* (ds18b20_start_conversion, ds18b20_read_scratchpad, sow_read_byte).      *)
ReadingIsConverted ==
    pc = "read" => /\ steady => reading = converted
                   /\ gone => reading = 65535

(* After ds18b20_write_rom the sensor has the resolution asked for.         *)
ConfigurationSet ==
    pc = "configured" /\ todo = <<>> /\ steady => scratch.conf = ConfigOf(Res)

(* What the program knows of the sensor, and the sensor of the program.     *)
SensorAsTold == TypeOK /\ ReadingIsConverted /\ ConfigurationSet

(* What dev_ds18b20.h says of ds18b20_write_rom: it updates the             *)
(* configuration unless the settings are the same already.                  *)
SettingsKept ==
    pc = "configured" /\ todo = <<>> /\ steady => scratch.th = Th /\ scratch.tl = Tl

(* A conversion lacks current only if handlers ran for more than 10 us      *)
(* between the slots of its command and the end of the pull-up: nothing     *)
(* else the program does takes the pull-up away, or forgets it              *)
(* (ds18b20_start_conversion, sow_strong_pullup).  It says nothing of a     *)
(* sensor that copies.                                                      *)
NeverStarved == "convert" \in starved => weak > 10

(* A sensor that takes its current from the bus has it while it converts    *)
(* (dev_ds18b20.c:31).                                                      *)
ConversionPowered == "convert" \notin starved

(* It has it while it copies its settings (dev_ds18b20.c:71).               *)
CopyPowered == "copy" \notin starved

(* Where the sensor stays, has its current, and the program is not          *)
(* restarted, the program comes to know the temperature (the loop of the    *)
(* program).                                                                *)
FollowsTemperature ==
    \A t \in Temps :
       <>[](present /\ presence = 1 /\ temp = t /\ pc # "boot" /\ ConversionPowered)
          => <>[](reading = t)
=============================================================================
