# A verification development for the GameBoy emulator

This directory holds TLA+ specifications of the emulator in `src/`, the TLC
configurations that check them on small instances, and proofs, checked by
TLAPS, of the theorems that hold for every instance. Line numbers refer to the
files under `src/`.

## 1. The system

`GB` (libgb/gb.cpp) owns an `IO`, a `MemoryMap`, a `Cartridge` and a `CPU`. One
call of `GB::clock` runs `IO::update` (timers, sound, LCD, keys) and then
`CPU::clock` (interrupts, one instruction); within an instruction every access
to memory lets one cycle pass. Everything in libgb runs on one thread;
`SDLFrontend` adds a render thread that shares the frame buffer, the key queue
and two flags with it, and SDL plays the audio queue in a thread of its own. Two
drivers call `clock`: `run_standalone`, which ends at the first error that is not
permitted, and `run_gdb_server`, which stops there and may go on, at the will
of a client on a socket.

| Component | State | Operations | Interactions | What makes it correct |
|---|---|---|---|---|
| Stack and control-flow sanitizer (cpu.cpp, instructions.cpp) | SP, PC, memory, `return_address_pointers`, `expected_return_addresses` | PUSH, POP, CALL, RST, RET, JP, every read and write | throws through every caller; errors may be permitted on the command line | the records match memory; calls nest; no false report; invisible when permitted |
| Interrupts and HALT (cpu.cpp) | `IME[3]`, `halt`, IE, IF | handleInterrupts, EI, DI, RETI, HALT | devices set IF; a handler is a CALL | no handler on top of a shielded one; EI and DI take effect one instruction late; the program decides whether it is interrupted; a handler leaves no trace |
| Arithmetic (instructions.cpp) | A, F, HL, SP | ADD to RES, loads, 16-bit steps | instructions meet through the flags (DAA) | exact arithmetic, exact bits, decimal adjustment |
| Opcode decoding (opcodes.cpp) | none | `processNextInstruction` | the cycles of each instruction clock everything else | opcodes are what their fields say, cycles and accesses are on time |
| Undefined-data tracking (checked_int.hpp) | a mark on each byte | every load, store, test and address | reports when an undefined byte decides something | a program that is not reported does not depend on undefined bytes |
| OAM DMA and access checks (memory_map.cpp, cpu.cpp, io.cpp) | `dmaStartTime`, `cycle`, memory | writes to FF46, reads, writes | looks at LCD modes and at the bus | for the program, one byte is copied per cycle |
| Timers (io.cpp) | `cycle`, `lastCycle`, `tCycleCount`, DIV, TIMA, TMA, TAC | updateTimers, register accesses | counted lazily; request IF | a program cannot tell them from timers that count every cycle |
| LCD controller (gpu.cpp) | `vCycleCount`, STAT, LY, LYC, `windowOffsetY` | updateTimers, updateLCD, writes to LCDC | draws and commits through the front end; requests IF | each line drawn once, in order; coincidence current; frames keep coming |
| Pixel rendering (gpu.cpp) | attributes, registers, `windowOffsetY` | renderLine | once per line, by the controller | the rules for sprites, window and background |
| Sound unit (apu.cpp) | NRxx, channels, sweep, power, three clocks | register writes, `tick_div_apu`, the ticks of four channels | driven by DIV and `clock_to` | widths, DAC respected, unpowered is clear, lengths end, channels go on |
| Audio output (sdl_io.cpp, apu.cpp) | `m_sample_buffer`, the device's queue | sampling, try_flush_audio | emulator thread to audio thread | bounded, gapless, does not cease |
| MBC1 (mbc1.cpp) | bank registers, RAM | writes in four areas | on the cartridge bus | bank 0 is never selected in the upper half |
| Keys and serial (sdl_io.cpp, io.cpp) | key queue, `inputs`, SB, SC | process_events, getKeyPressState, `IO::update` | render thread to emulator thread | the program comes to see the keys that are down |
| Render hand-over (sdl_io.cpp) | `m_data_to_render`, textures, mutex, condition variable, speed-up | draw_frame, commitRender, closing | two threads | no null pixel, no frame shown while drawn, full frames only, progress |
| GDB server (gdb_server.cpp, gdb/) | `is_halted`, `m_is_in_step`, breakpoints, the machine | packets, the main loop | drives `GB::clock`, continues after errors | stops are true and in time; the client is answered |
| Cartridges and start-up, headless front end, tests | | | | see section 6 |

Where the difficult behaviour lies: instructions that throw half way and are
continued after; interrupts between any two instructions; a queue of IME values
that is filled at once and shifted one by one; counters advanced lazily, by
steps that jump over boundaries, or compared for equality; registers written
both by the program and by a device; a transfer that is done at once and
reported as if it were slow; three threads that share plain members; a client
whose packets arrive when they like. PROJECT.json lists every such place as a
hazard, with the properties that cover it or the reason why none does.

## 2. The modules

| Module | Models | Refers to |
|---|---|---|
| `CallFrames` | the stack, memory as far as the stack tells, and the sanitizer | `CallStack`, `HardwareStack` |
| `CallStack` | abstract: calls and returns nest | |
| `HardwareStack` | abstract: stack instructions without a sanitizer | |
| `CpuControl` | `CPU::clock` with the stack: a program that keeps to the stack discipline, interrupted by handlers that are entered through the checked push | extends `CallFrames` |
| `Interrupts` | `CPU::clock` and `handleInterrupts`, for programs without any discipline | `ImeDelay` |
| `ImeDelay` | abstract: a delay of one instruction | |
| `Alu` | the instructions on A and F, and the 16-bit loads, steps and sums on HL and SP | |
| `Opcodes` | the decoding switch, and the cycles and accesses of each instruction in order | |
| `InstrTiming` | the tables and rules of the tests and the fields of an opcode, next to `Opcodes` | extends `Opcodes` |
| `Undefined` | two machines that differ in undefined bytes, executing the same program | |
| `Dma` | OAM DMA, `isInDMA`, the checks of `readU8` and `writeU8` | `Transfer` |
| `Transfer` | abstract: a transfer of one byte per cycle that holds the bus | |
| `TimaCounter`, `Timers` | the timers and the loop of `GB::clock` around them | `EagerTimer` |
| `EagerTimer` | abstract: timers that count every cycle | |
| `DivClock` | how the sound unit gets its clocks and the events of the divider | |
| `Lcd` | modes, lines, frames, the window's line count | |
| `Pixels` | `renderLine` and the picture that the rules ask for | |
| `Apu` | channel 1: length, envelope, sweep, DAC, power | |
| `Pulse`, `Wave`, `Noise` | channels 2 (and the pulse of 1), 3 and 4 with their counters | |
| `Audio` | samples from the mixer to the queue of the device | |
| `Mbc1` | the cartridge controller | |
| `Ports` | the key queue and the serial port, sharing IF | |
| `RenderHandshake` | both threads of the SDL front end | |
| `Debugger` | the server, its client and the connection | `Dialogue` |
| `Dialogue` | abstract: one party at a time has the floor | |
| `Cpu` | `Interrupts`, `InstrTiming` and `Alu` beside one another | extends `Interrupts` |
| `Devices` | `Dma`, `Mbc1`, `Timers`, `Ports` and `DivClock` beside one another | extends `Dma` |
| `Sound` | `Apu`, `Pulse`, `Wave`, `Noise` and `Audio` beside one another | extends `Apu` |
| `Video` | `Lcd` and `Pixels` beside one another | extends `Lcd` |
| `CpuControl_proofs`, `Devices_proofs`, `Sound_proofs`, `Video_proofs`, `Cpu_proofs`, `Undefined_proofs`, `RenderHandshake_proofs`, `Debugger_proofs` | the theorems of section 4, about the module and those it is made of | |
| `MC...` | values of the constants for TLC | |

State is named as in the code where TLA+ allows it, and each action is a whole
handler or instruction; `map` in PROJECT.json gives the lines of each
definition. Some definitions have a neighbour marked *Slip*: the same
definition with a plausible mistake. The slips take no part in the
specifications. They are what each property has been tried against.

`Cpu`, `Devices`, `Sound` and `Video` put several components beside each
other. A variable `unit` says which one a behaviour is about; the others rest. The
components of one such module share no variable that a property relates, so
that the sum of their states shows what their product would. Where components do
act on one another the composition is a module: `CpuControl` (interrupts, stack
and sanitizer), `Dma` (CPU, memory, LCD modes), `Timers` (CPU loop, timers,
HALT), `DivClock` (CPU loop, divider, sound unit), `Ports` (threads, serial port,
IF), `RenderHandshake` and `Debugger`.

Notes on correspondence:

* **CallFrames.** An instruction that throws is one step that leaves behind
  exactly what was done before the throw. `options` is what `main` read from
  the command line. Memory is a function from cells; `Cell` maps two addresses
  to one cell (echo RAM) and `Writable` leaves ROM out. The assertion in `RET`
  (1169) is evaluated in `int`: `Abort` is its failure. The DMA conflict and
  undefined bytes are in modules of their own.
* **CpuControl.** A clock is two steps, the interrupts and the instruction. A
  handler is entered in the order of the code: the queue emptied, the request
  taken, the CALL, whose push may be reported. `mainStack` has the bytes of the main
  program's stack by their cells, as memory has. `bases`, `handlers` and `asked`
  are no state of the program; they are the frames as the program means them, the
  ones that are handlers', and the last instruction that bears on interrupts (EI,
  DI, RETI, or the RET that left a handler).
* **Interrupts.** One step is one `CPU::clock`: the test of the interrupts and
  the instruction after it. RETI fills the queue wherever it is executed: it may leave
  a handler, or a subroutine of a handler or of the main program, whose context
  goes on. `context` is no state of the program; it records what each handler asked
  for, so that properties can speak of it.
* **Alu.** One action per instruction, on the accumulator, or on HL and SP. `decimal`
  remembers what decimal arithmetic makes of the last addition or subtraction. The
  operators `&`, `|` and `^` are those of sets, a byte being the set of its bits
  (`Bits`, `ByteOf`). BC and DE are treated as HL, a register r as A.
* **Opcodes.** The groups and tables of the switch become functions of the distance
  to the first opcode of a group; `Cycles` is what an instruction does cycle by cycle:
  a read, a write or neither. `InstrTiming` states the same from the other end: the
  fields of the byte, and what the test ROMs' documentation says.
* **Undefined.** `machines` is a pair. An action is one instruction executed by
  both; `r` has A, F, H and L, where H and L stand for B to E as well. What
  arithmetic computes is a constant, `Result`, so that the claims hold for any. `Use` is
  `throw_error`: without permission the rest of an instruction is not executed.
* **Dma.** `startDMA` copies everything at once, up to the first undefined byte;
  `transfer` is a history variable that remembers the source and the OAM before, from
  which the refinement mapping takes the slow transfer's memory. A permitted conflict
  ends the comparison (`"lost"`): afterwards the two machines do differ.
* **Timers.** An instruction is a number of `Cycle` steps with accesses in
  between; `Update` is `IO::update`. `reduceTimer` is in closed form
  (`Incremented`), and an assumption that TLC evaluates compares the closed
  form with the loop.
* **DivClock.** Three counters that wrap at different times: cycles, clocks (four to a
  cycle) and DIV. `m_last_div_value` is sampled at updates only; the events counted
  are compared with the falls of the bit.
* **Lcd.** Dots advance by any number in `Steps` between two updates. A frame
  is scheduled or not as the front end pleases.
* **Pixels.** A step is a line, the end of a frame, the LCD switched off before it, or
  a write of attributes or registers. `Promised` states the picture from the other
  end: by the rows and columns of sprites that fall on a point, the sprites that are
  seen there, and the columns and rows of the window. It says of the code what
  differs from the machine that is emulated (section 5): mirrored rows are one off
  (`SpritePoint`), and the window starts on the line before WY when no frame has been
  switched off. `ahead` is no state of the program; it says how many rows the window is
  ahead of the screen. The LCD may be switched off in the vertical blank alone: another
  time is an error that no command line permits (io.cpp:119, main.cpp:60-69).
* **Apu, Pulse, Wave, Noise.** The registers are the fields they hold. One
  `DivEvent` is one fall of bit 4 of DIV, with all that it causes, in the order of
  the code; one `Tick` is one round of the loop of `clock_to`.
* **Audio.** `Update` looks at the queue of the device and `QueueBatch` uses what it
  saw; the device plays in between. What samples sound like is left out.
* **Ports.** A key event edits the newest state of the queue, a poll takes the oldest.
  The program writes the whole of IF, the CPU takes one request back. A write of SC that
  starts nothing goes to SB, as in the code.
* **RenderHandshake.** Each step of a thread is one access to a shared member
  or one call of SDL. `draw_frame` declares a mutex with the name of the member
  (180), which therefore protects nothing; unlocking it is a step without
  effect. The accesses are taken to be atomic and in program order; on a machine
  that reorders them more could go wrong.
* **Debugger.** `wire`, `buffer` and `replies` are the connection: what the client
  sends is delayed, run together and split in the middle of a packet (`cut`), but not
  reordered. `phase` tells how the server has ended, if it has: a parser that refuses
  several packets or a part of one (`"split"`), a null pointer, an assertion,
  an exception that nobody catches, a connection that is gone, the reset that does
  not return. The machine moves PC as it likes, may stick, and may fault half way. A turn
  of the main loop ends after whole clocks, in which the instruction at PC and those at
  the vectors of interrupts are executed; `executed` and `fresh` are no state of the
  program but record which one was, and whether PC is where the client resumed.

## 3. The runs

| Run | Module | Question | Bounds |
|---|---|---|---|
| `callframes` | MCCallFrames | Do records and memory agree, do calls nest, is the sanitizer invisible when permitted? | 8 addresses, 1-bit bytes, 2 recorded calls, three command lines |
| `control` | MCCpuControl | Is a disciplined program with interrupts ever reported; do handlers leave a trace; are interrupts as the program asked for last? | 16 addresses, 3 frames, 2 lines |
| `cpu` | Cpu | Are handlers shielded and is the queue a delay; is the arithmetic exact; are opcodes decoded and timed as documented? | 2 lines and 3 nested contexts; all A and F with 10 operands; 6 words and what is one step from them; all opcodes |
| `undefined` | MCUndefined | Can two machines that differ in undefined bytes be told apart? | 1-bit bytes, 4 addresses, one of them a device; all pairs of machines |
| `devices` | MCDevices | Is DMA a slow transfer; is bank 0 ever selected; can lazy timers be told from eager ones, and do they wake a halted CPU; are keys seen; is every fall of DIV an event? | see the module's comment |
| `sound` | MCSound | Do channels keep their widths, DACs, power and locks, fall silent when they should and go on otherwise; are samples kept? | see the module's comment |
| `video` | MCVideo | Are lines drawn once, is the coincidence current, do frames keep coming, is a line the right one? | 3+1 lines of 10 dots, at most 2 dots between updates; 4 sprites on a 4 by 3 screen; the LCD is switched off while the window has counted at most 4 lines |
| `render` | RenderHandshake | Safety of the hand-over and progress of the speed-up mode | frames of 2 lines |
| `debugger` | Debugger | Is a session a dialogue; are stops true and in time; is the client served? | 2 addresses, one of them a vector, two ^C |
| `render_lost` | RenderHandshake | Does the emulator always get its buffer? (no) | frames of 2 lines |
| `interrupts_di` | Interrupts | Does DI do what its description says? (no) | 2 lines, 3 contexts |
| `noise_period` | MCSound | Does a step of the noise take at most its period? (no) | a register of 4 bits, a counter of 16 |

Why the bounds are enough. *callframes*: two records show every relation of one
record to the next; eight addresses hold ROM, an echo, both ends of the address
space and room for two frames that overlap, so that wrapping, clobbering and
writes without effect all happen. *control*: three frames, so that a handler
interrupts a handler that interrupts a function; two lines, so that a request
waits while another is served. *cpu*: a handler on a handler on the main program,
so that priority and simultaneous requests happen; the operands are both ends of
both digits, the words the ends of a byte, of twelve bits, of the signed and of the
unsigned range. *undefined*: the two machines have to differ in something, and one bit
is enough for that; nothing in the code looks at a byte's value otherwise than by
arithmetic, which the theorem has for all functions. *devices*: a transfer of two
bytes has a first and a last cycle, and time is left for a second transfer over the
first; the bank bytes include each masked neighbour of 0; the cycle counters of
the timers and of the sound unit wrap, several overflows fall between two
updates, and TMA is next to the overflow as well as far from it; two keys and four
key events make every order of presses and releases of both, and `MaxEvents` lets the
user's hands rest, so that "comes to" has a meaning. *sound*: the period overflows
at the first and at the second test; the wave has a period that is
rewritten by halves while it counts; the shift register has two feedback places; two
batches fit the sample buffer as in the program. *video*: a first, a middle and a
last line, steps that jump over the end of every mode; one sprite more than a
line may show, twice. *render*: two lines, so that something is between the first
pixel and the commit. *debugger*: a breakpoint can be set where the machine is and
where it is not, at a vector and elsewhere; two ^C cross a stop and arrive together.

Deadlock is checked but for five runs, whose systems really end: the emulator at an
error (`callframes`, `control`), the comparison of two machines at a permitted report
(`undefined`), both threads at the closing of the window (`render`,
`render_lost`), the server (`debugger`). The memory of `devices` rests in an explicit
stutter when its cycles are used up or a report was left unheeded.

### Fairness

* `Timers`: `WF(Update)`, `WF(HaltedCycle)`. The driver calls `clock` in a loop
  without a condition that the model could withhold. No fairness is assumed
  of the program.
* `DivClock`: `WF(Update)`, from the same loop, and `SF(Cycle)`: no instruction is
  without a cycle, so that a cycle that is enabled again and again is taken.
* `Lcd`: the update of the LCD is called by the same loop, with some dots.
* `Apu`, `Wave`: `WF(DivEvent)`, which is what `DivClock` shows of the events;
  `LengthEnds` excepts programs that load lengths for ever.
* `Pulse`, `Wave`, `Noise`: `WF(Tick)`, the loop of `clock_to`. Their properties
  except programs that trigger the channel for ever.
* `Audio`: `WF(Emulate)`, the emulator's thread, and `WF(Play)`, the device's.
* `Ports`: `WF(Poll)`, since frames end again and again (`FramesKeepComing`
  in `Lcd`).
* `RenderHandshake`: weak fairness of each thread, which the scheduler of the
  operating system gives. Nothing is assumed of the user, and nothing of
  spurious wakeups.
* `Debugger`: weak fairness of the arrival of what was sent, of the server, of the
  machine's execution and of the client's reading. The client never has to send.

### What the three violations show

* `render_lost`: `draw_frame` sets the buffer and notifies without the mutex
  that `commitRender` waits with. When both fall between the emulator's test
  of the predicate and its block, nobody notifies again: the render thread
  finds the buffer set for ever and shows "Emulator lagging render".
* `interrupts_di`: `DI` writes the end of the queue only. An interrupt in the
  window before it takes effect is accepted (the window is documented), the
  entry clears the queue, and the RETI of its handler fills it with `true`. The
  `DI` is forgotten and the program is interrupted although it disabled
  interrupts.
* `noise_period`: a trigger leaves the counter of channel 4 at 0, and so does a
  divider of 0; the next tick decrements it before it compares. The counter then
  has to come round, 2^64 ticks in the program, before the noise steps again.

## 4. The theorems

| Theorem | Says | Assumes |
|---|---|---|
| `CpuControl_proofs!TypeCorrect`, `ShadowCorrect` | `TypeOK` of `CallFrames`, `ShadowMatchesStack` | any memory layout, command line and program |
| `CpuControl_proofs!CallsReturn`, `PermittedIsInvisible` | `CallsNest` and `SanitizerInvisible`, the refinements of `CallStack` and `HardwareStack` | the same |
| `CpuControl_proofs!NeverReportedFalsely`, `ProgramIsObeyed`, `HandlersInvisible` | `NoFalseReport`, `ProgramDecides`, `InterruptsInvisible` | a private stack region of any size, any finite set of lines |
| `Cpu_proofs!Shielded` | `HandlerShielded` | nothing of the lines or the depth |
| `Cpu_proofs!DelayCorrect` | `QueueIsDelay`, the refinement of `ImeDelay` | the same |
| `Cpu_proofs!ArithmeticCorrect` | `ResultsExact` | operands are bytes, words are words; all of them, if one likes |
| `Cpu_proofs!OpcodesDocumented` | `InstructionsAsDocumented` | none |
| `Cpu_proofs!PartsBehave` | a behaviour of `Cpu` is one of each part | none |
| `Undefined_proofs!TypeCorrect`, `Indistinguishability`, `OutsideStaysDefined` | machines keep their type; `Indistinguishable`; `OutsideIsDefined` | bytes of any width, any set of devices, any arithmetic; `And` gives 0 with a 0 |
| `Devices_proofs!TypeCorrect`, `DevicesStayDefined`, `Refinement` | `TypeOK` of `Dma`, `DevicesDefined`, the refinement of `Transfer` | a transfer of any length but 0, any bytes |
| `Devices_proofs!BankTypes`, `BankZeroHidden` | registers in range; bank 0 never selected | bytes are 0 to 255 |
| `Devices_proofs!TimersAreEager` | `LazyIsEager`, the refinement of `EagerTimer` | counters of any size, periods of any length; an instruction is shorter than the cycle counter |
| `Devices_proofs!EventsAreFalls` | `EventsCounted` | counters of any size whose wrapping does not break a period; two updates are less than half a period apart |
| `Devices_proofs!PartsBehave` | a behaviour of the parts is one of each | none |
| `Sound_proofs!TypesCorrect` | `SoundTypeOK`, the types of all four channels | any widths of the registers, any settings within them |
| `Sound_proofs!SamplesStay` | `SamplesKept` | batches and frames of any size; an instruction is not longer than a sample |
| `Sound_proofs!DacHeard`, `WaveHeard`, `ClearWithoutPower`, `SweepLocked` | `SoundsThroughDac` of channels 1 and 3, `UnpoweredIsClear`, `ActiveIsLocked` | the same as `TypesCorrect` |
| `Video_proofs!TypeCorrect`, `EachLineOnce`, `ComparisonCurrent`, `WindowBounded` | `TypeOK`, `LinesDrawnOnce`, `CoincidenceCurrent`, `WindowWithinFrame` of `Lcd` | any screen; no step outlasts a mode |
| `Video_proofs!LinesCorrect` | `LinesPainted` | screens, tiles and maps of any size, any number of sprites |
| `RenderHandshake_proofs!TypeCorrect`, `PixelsHaveBuffer`, `ShownApart`, `PixelsLocked`, `FullFrames` | `TypeOK`, `NoNullPixel`, `ShownFrameNotDrawn`, `PixelsInLockedTexture`, `SwapsFullFrame` | frames of any number of lines but 0 |
| `Debugger_proofs!TypeCorrect`, `TrueStops`, `PoliteIsParsed` | `TypeOK`, `StopsAreTrue`, `PoliteSessionParses` | any addresses, vectors and number of ^C |
| `Debugger_proofs!NeverRunsPast`, `IsADialogue` | `StopsInTime`; `IsDialogue`, the refinement of `Dialogue` | the same |

The assumptions are the named `ASSUME`s of the modules, which TLC evaluates for the
values of each run; for the values of the program they hold as well.

*ShadowCorrect.* `ShadowMatchesStack` says that the two vectors have one
record per call and that each return address in private RAM is still where CALL
pushed it. It is inductive together with `TypeOK`. The argument: memory changes
in one place only, the checked write; when clobbering is thrown, a write to a
recorded address does not happen, and a write elsewhere leaves the recorded words
alone (`StoreElsewhere`, `PushElsewhere`), because private RAM has one address
per cell. A call that completes adds two pointers and one word that the push has
just written (`PushThere`, `FrameRecorded`, `WrapDistinct`). RET drops a
suffix of both vectors or clears both (`DropLastType`). An instruction that
throws may leave the vectors apart, but then the machine has stopped: this is why
the invariant is conditional on `Running` and why the debugger is excluded.

*CallsReturn, PermittedIsInvisible.* For `CallsNest` each instruction keeps one of four
promises (`NestingStep`): it stops, stays, calls or returns to the last address.
What a RET finds in memory decides where it goes, and `StrictStep` says that it is
the recorded address or reported. For `SanitizerInvisible` nothing throws
(`NothingThrows`), so that each instruction is the bare one (`BareStep`); `Remainder`
and `OffsetIsWrap` are the arithmetic of SP.

*NeverReportedFalsely, HandlersInvisible.* `NoFalseReport` speaks of the records; that
the next instruction is not reported follows from memory. `IInv` adds that the
program's frames lie apart, in order and inside the stack region (`Frames`), that
each begins with a valid address which is still the one recorded (`Intact`), and that
the handlers' frames are among them, in order (`Handled`). Then nothing the
discipline allows touches a recorded address (`Unrecorded`, `PushRoom`), a push or a
write keeps what `Intact` speaks of (`PushKeeps`, `KeptIntact`), CALL adds a frame
(`CallSound`), RET finds the address it needs (`RetFacts`) and removes one
(`RetSound`). That there is a request to serve is `Lowest`, from the order of numbers.
`HandlersInvisible` needs more of a step than the invariant: memory from the base of
the running frame up is not written (`Kept`), and the first handler's frame is left
where it was entered (`ReturnInvisible`).

*ProgramIsObeyed.* The last two places of the queue agree between two instructions
(`Queued`), so that EI, DI and RETI decide both. An entry clears the queue without the
program's asking; `ProgramDecides` outlasts it because a handler runs from then on, and
the handler ends by RETI, which fills the queue, or by RET, which the program's account
records. That a request which is not accepted leaves the queue alone is the other half.

*Interrupts.* Neither property is inductive. `IInv` adds three facts about the
state between two clocks: the last two values of the queue of IME are the same;
every context below the running one has enabled interrupts, which is why it could
be interrupted; and one that has not keeps the current value FALSE, and the
queued ones too unless EI is what it asked for (`Shields`). The first half of a
clock (`Checked`) leaves this true, by a fresh context over a cleared queue when a
handler is entered; then each instruction either stays in its context
(`StaysStep`, with what it makes of the queue in `QueueStep`) or returns to one that has
enabled (`ReturnsStep`). For the refinement, the equal last two values are what
makes the shift of three places a delay of one instruction (`DelayStep`).

*Alu.* Integers and bits are looked at apart. A byte is the sum of its bits in one way
(`SumOfBits`, `ByteHasBits`, `ByteOfBits`); from the sum follows where each bit goes when
the number is doubled, halved or its digits exchanged (`Left`, `Right`, `Swapped`), and a
logical instruction is a statement about each bit (`Logic`). What is cut off an addition or
a subtraction is the carry (`Added`, `Subtracted`). These need nothing of the state
but that A is a byte. `DecimalAdjusted` does, for DAA sees the flags and the
result only: `Recalls` says that as long as an operation is remembered, A, N, H and C are
the binary sum or difference of two decimal numbers. That is left by an
addition or a subtraction (`RecallsSum`, `RecallsDifference`) and forgotten by everything
else; with the digits named (`Digits`) the adjustment is an equation between them
(`Adjusted`). For words `WordInv` has the ranges; the carry of the low bytes, with the
sign of the operand, gives the high byte (`SignedSum`).

*Opcodes.* `CodeInv` says that the instruction is what the fields of the bytes taken so far
say (`CodesInit`, `CodesNext`); the rest is about one state. That the
switch agrees with the fields is the case of each of the 256 opcodes, sixteen
rows of sixteen (`Decodes`), and of the operations after the prefix (`PrefixedDecodes`);
each case also says that no other group of the switch takes the opcode. The cycles
are computed by the form of the instruction and not by its opcode (`CyclesByName`
and the lemmas after it), the entries of the table by the fields (`ByFieldsFits`), so that
the two meet in the forms of an instruction. The order of the accesses is one of nine
shapes (`CyclesShape`, `ShapesAre`); in none a cycle follows the last access.

*Undefined.* The property compares two runs, which the specification has side by
side, so that it is an invariant of one state. `IInv` is the type of both
machines and `Similar`: as long as no permitted report has been passed, the machines
have the same marks and the same defined bytes, and the same SP, jump and
report. Each operator that builds a machine has a lemma that it keeps one sound
(`SetRSound` and so on) and one that it keeps two similar; an instruction is a
composition of these, so that its case cites a handful of lemmas. The step of a
report is `UseSound` and `UseSimilar`: what decides whether a report is made is a
mark, and marks agree.

*Dma (in `Devices_proofs`).* `IInv` is `TypeOK` and, while the slow transfer has bytes
left, that the OAM of the code is what the slow transfer will have made of it, from the
sources as they are now: nobody can have changed them, because what would is a conflict.
From it `CopiedIs` and `PassCopied` give the abstract memory after a cycle, `FreeNow`
the equality of both memories once the bus is free, and `BusyIsInDMA` that the window
computed from two counters is the time in which bytes are left.

*Timers.* The abstract timer counts each cycle, the code what has passed since the last
look. The refinement mapping applies what an update would do now (`Counts`), and the
proof has two halves: a cycle moves the mapped timer by one eager step
(`CycleIsEager`), and an update does not move it (`Settled`). For the first one the
increments of n + 1 periods are those of n and one more, also across an overflow
and a reload of TMA (`IncrementedNext`). `TimersInv` adds to the types that the
cycles not yet counted are no more than those of one instruction, and none
when an instruction is fetched: without it the counter of cycles could wrap between two
looks and the difference would be too small.

*DivClock.* DIV, the clock of the sound unit and the event counter are functions of
the cycles (`DivOf`, `ClockOf`, `EventsOf`), through divisions of one another
(`NestedDiv`, `Congruent`). `ClocksInv` says for each place of the loop of which moment
the sampled values are, and that this moment is at most an update ago. The bit
of DIV that is looked at is the parity of half periods (`BitIs`, `NextHalf`), so that
less than half a period cannot hide a fall (`FallIsEvent`), and an update after which
the clock is the same has counted nothing (`SameClock`).

*Lcd.* `LinesDrawnOnce` alone says nothing of what mode 0 or 3 of the next line
will do. `IInv` adds `Phase`, the relation of the dots, the mode and the lines
drawn, `Compared`, the comparison of this line, and `WindowLeft`. An update adds
dots and divides: `Division`, `LinesBefore`, `Advance` and `Moves` say that it
stays on a line or enters the next and never skips a mode, because a step does
not outlast one; `UpdateStep` goes through the modes.

*Pixels.* `LinesPainted` needs one fact about earlier states: that the window has counted
as many lines as the frame has drawn, and those that it is ahead (`LineInv`). Lines on
which the window is out of reach put it back, a frame that was switched off puts it
forward; from this the row of the code is the row of the rules (`WindowIs`). The
rest is about one state. Where a sprite has a point, a column and a color in the code it
has one by the rules (`RowsAre`, `ColumnsAre`, `PointIs`, `ColorsAre`). The loop over
the sprites is a recursive function: that there is one is `LoopExists`, by the least
number of sprites for which there would be none, and what it has found after n
sprites is `LoopFinds`, by the least n for which it would be wrong. A step of the
loop (`LookFinds`) either counts a sprite (`OneMore`) or finds the first one that is
seen (`SeenIs`, `FirstIs`). `Repeats` says that the remainders of the code and the map that
repeats are the same, `TilesExist` and `ColumnsExist` that nothing is looked up beside
a table.

*RenderHandshake.* The threads share no lock that works, so that the argument is one
of ownership: `m_data_to_render` is set by the render thread alone and cleared by
the emulator alone, and `Ownership` says which texture is whose at which place of both
threads. `Flags` pins the flags each thread has read, `Progress` that the emulator does
not draw without a buffer, `Filled` that a buffer is given up when it is full or the
speed-up key was released. Every access is a step of its own in the proof
(`RenderStep`, `EmulatorStep`, `SpeedUpStep`).

*Mbc1 (in `Devices_proofs`).* The strengthening `IInv` adds that the low five bits of `romBank`
are not 0. This is what the write of the upper bits keeps; the range alone
is not inductive.

*Sound.* `SoundsThroughDac`, `UnpoweredIsClear` and `ActiveIsLocked` are inductive
together, with the shape of two records: `UnpoweredIsClear` is needed for the steps of
the divider, which write registers, and `ActiveIsLocked` rests on `Rearmed` giving a
countdown that is not 0 whenever it gives an active sweep (`RearmedInvariant`). The
types need more than their ranges: an envelope that runs has a countdown between 1 and
its pace (`Typed`), a period that is written by halves stays in range whichever half
comes first (`LowWritten`, `HighWritten`), a sweep that would leave the range is not
written back (`SweptInRange`), and the bit that the shift register feeds back is set in
a register where it was clear (`BitSet`). For the samples, `AudioInv` says what
the two places of the emulator know: less than two batches while it runs, exactly two
when it flushes, and no more in the queue than it saw there. Samples have names modulo
a number, and `Round` that consecutive ones stay consecutive.

*Debugger.* One of three is under way: a request, an answer, or the machine. `IInv` says
so from each end: of the bytes between client and server (`Stream`: at most one request,
an acknowledgement only in front of it, ^C only behind), of the server (`Turns`), of
what the client believes (`Beliefs`), of the phase (`Phases`) and of the breakpoints the
client wants and the server has (`Breakpoints`). `StopsAreTrue` and
`PoliteSessionParses` are parts of it, because what the server does next depends on
them. `Passed` is what `StopsInTime` needs: a machine that runs on and is at a
breakpoint of the client was resumed there, because each turn of the loop that moves PC
compares it with the breakpoints, which are those of the client while it runs. The
messages are taken one by one (`Taking`, `RequestRead`), each handler is a lemma; for
`IsDialogue` each step has one for the floor (`FloorIs`, `ServeFloor`, `ExecuteFloor`,
`ClientFloor`).

The `TypeCorrect` theorems but that of the sound unit, `BankTypes`, `WaveHeard`,
`PixelsHaveBuffer` and `WindowBounded` stand alone: they are proved and in no run.

What the proofs have found in the model. The stack of the main program was first a
function from addresses, of which two may be one cell; the theorem needs what the code
has, cells. Guards of a CASE overlapped in `Dialogue`'s mapping, `Alu` and `Opcodes`:
TLC takes the first, a proof may not; they exclude one another now. The rows of
arithmetic in `Opcodes` were found by a choice among tables, which said less clearly what
the switch says: they are arms like its own. An event counter of
one value would make every fall invisible, and a counter of the noise channel
needs a value: `DivClock` and `Noise` assume so.

Every invariant, action property and refinement of a passing run is a theorem. Only
model-checked is the rest:

* Liveness: `TimeGoesOn`, `KeysSeen`, `FallsSilent`, `ChannelsGoOn`, `FramesGoOn`,
  `SpeedUpShowsFrames`, `ClientServed`. Fairness and ENABLED are beyond the prover. The
  abstract specifications that are refined are without fairness for the same reason.

## 5. Observations

Met while reading and modelling, not pursued by a run. The models do what the
code does.

* `GB::reset` does not return once a cycle has passed: the sound unit is clocked
  to 0 by a loop that tests for equality (apu.cpp:243). The kill request of the
  debugger calls it. What it forgets comes after that: `dmaStartTime` and the
  records of the sanitizer.
* A request is lost if the push of its handler is reported and the debugger goes
  on (cpu.cpp:153-157).
* Outside strict mode, permitting `call_frame_violation` alone makes a RET
  from elsewhere report a clobbered address instead. The assertion of RET (1169) fails
  for a call that pushed its return address with SP at 1.
* A sprite that is mirrored vertically shows row `height - tileY` (gpu.cpp:309), one
  beyond the mirrored one; its first line shows the first row (of the second tile, if
  it is tall). The window's row is counted (166) before it is used (393), so that its
  first row appears on the line before WY. Switching the LCD off in the vertical blank
  (212-217) leaves `windowOffsetY` as it is: the window of the next frame is as many
  rows ahead.
* SUB, SBC, CP and DEC set H and C when there is a borrow, which is what DAA expects;
  the comments (instructions.cpp:370-371, 396-397, 464-465, 501 and 504) say "if no
  borrow". That of CP also says "Set if A < n", which is a borrow. `ResultsExact` states
  the borrow.
* The debugging server takes what one `recv` returns for one packet
  (remote_server.cpp:94-132). A packet that arrives in two parts ends it, as do two
  packets at once: `PoliteSessionParses` shows that a client which waits for its answers
  never has two on their way; whether one is split is up to the network.
* A breakpoint at the vector of an interrupt is run through: one clock enters the
  handler and executes the instruction there (cpu.cpp:157, 166-175) before PC is
  compared (gdb_server.cpp:144, 168). A step, too, executes that instruction with the
  entry.
* `tick_channel4` and the trigger: see `noise_period`. A trigger sets a counter to
  0 (567). Losing power leaves sounding channels on.
* A sample is taken every 176 clocks, one more than the count that is loaded. The
  index of the filter loop hides the one that skips samples (sdl_io.cpp:310); the right
  side is taken from the left (312); the low-pass filter changes nothing (323);
  giving up happens at five frames and the comment says three (298).
* MBC1: a write of the low bank bits clears the high ones; `ramEnabled` is never
  read; a bank beyond the file is not masked.
* A write of SC that starts nothing overwrites SB.
* Releasing the speed-up key in a skipped frame shows a texture that was not
  filled; a key pressed and released between two frames is lost, because
  `m_last_keypress_was_down` is never assigned (145); `draw_frame` unlocks a mutex
  that nobody locked (187).
* The test driver extends its timeout by `gcount()` (tests/main.cpp:62), which is 0 as long as
  the stream is not read unformatted: it never does.

## 6. Not modelled

* `GB::reset` beyond the point where it hangs: no state after it is reached.
* The filters and levels of the sound, panning, register masks: they feed nothing
  back. The text of the debugger's replies and of reports, for the same reason.
* Loading a cartridge (`Cartridge`, `main`), apart from the options that permit
  errors: input and output. The controller without banks has no state.
* The headless front end has no state that is read back; the test driver and the
  benchmark are sequential loops around `GB::clock`. What the tests expect of
  instructions is in `InstrTiming`.
* The unusable area of memory and the addresses within a cartridge bank.

## 7. What is open

Every component above is modelled as far as section 6 allows, each hazard but three has a
property (PROJECT.json says why these have none), and what the passing runs check is
proved, but for liveness. What would say more:

1. What liveness rests on and can be proved without fairness: that no counter of a
   channel jumps over its overflow, so that `ChannelsGoOn` needs the ticks alone; that each
   update brings the frame nearer to its end (`FramesGoOn`); that the key queue grows
   shorter with each poll (`KeysSeen`).
2. `noise_period` from the other end: with a divider and a counter that are not 0, a
   step of the noise takes at most its period.
3. That the modules which are about one piece of state agree on it: the stack of
   `Undefined` with that of `HardwareStack`, the queue of IME in `CpuControl` with that of
   `Interrupts`.
