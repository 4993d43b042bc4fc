------------------------------- MODULE Devices -------------------------------
(* What is at the bus and is clocked by IO::update.  A behaviour is one of the   *)
(* memory with OAM DMA, of the cartridge controller, of the timers, of the ports *)
(* or of the clocks of the sound unit: no property relates two of them.         *)
EXTENDS Dma, Mbc1

CONSTANTS
  DivStep, DivCount,                                       \* of DIV
  CycleCount, TimaCount, Period, TacValues, TmaValues, MaxInstruction, MaxBacklog,
                                                           \* of Timers
  ClockCount, Half, EventCount, MaxUpdate,                 \* of DivClock
  Keys, Unmapped, SerialBytes, Controls, MaxEvents         \* of Ports

VARIABLES
  unit,
  clock, lastCycle, tCycleCount, DIV, TIMA, TMA, TAC, requested, halt, stage,
  reconfigured,                                            \* of Timers
  m_key_events, inputs, SERIAL_DATA, SERIAL_CTL, output, IFreg, held, events,
                                                           \* of Ports
  machine, counted, divider, m_last_clock, m_last_div_value, m_div_apu_counter,
  emu                                                      \* of DivClock

timerVars == <<clock, lastCycle, tCycleCount, DIV, TIMA, TMA, TAC, requested, halt, stage,
               reconfigured>>
portVars == <<m_key_events, inputs, SERIAL_DATA, SERIAL_CTL, output, IFreg, held, events>>
clockVars == <<machine, counted, divider, m_last_clock, m_last_div_value,
               m_div_apu_counter, emu>>

Timer == INSTANCE Timers WITH cycle <- clock
Port == INSTANCE Ports WITH Bytes <- SerialBytes
Clock == INSTANCE DivClock WITH
  cycle <- machine, lastCycle <- counted, DIV <- divider,
  CycleCount <- ClockCount, MaxInstruction <- MaxUpdate

ASSUME TimerAssumptions ==
  /\ Timer!TimaAssumption /\ Timer!CounterAssumption
  /\ Timer!PeriodAssumption /\ Timer!ProgramAssumption
ASSUME PortAssumptions == Port!KeyAssumption /\ Port!SerialAssumption
ASSUME ClockAssumptions == Clock!DivAssumption /\ Clock!InstructionAssumption

-----------------------------------------------------------------------------
DevicesInit ==
  /\ unit \in {"dma", "cartridge", "timers", "ports", "clocks"}
  /\ Init /\ MbcInit /\ Timer!Init /\ Port!Init /\ Clock!Init
  /\ unit # "dma" => mode = 0 /\ ~permitted

(* A memory rests when its cycles are used up or a report was left unheeded.     *)
DevicesNext ==
  /\ UNCHANGED unit
  /\ \/ /\ unit = "dma" /\ (Next \/ ((cycle = MaxCycle \/ answer = "lost") /\ UNCHANGED vars))
        /\ UNCHANGED <<mbcVars, timerVars, portVars, clockVars>>
     \/ /\ unit = "cartridge" /\ MbcNext
        /\ UNCHANGED <<vars, timerVars, portVars, clockVars>>
     \/ /\ unit = "timers" /\ Timer!Next
        /\ UNCHANGED <<vars, mbcVars, portVars, clockVars>>
     \/ /\ unit = "ports" /\ Port!Next
        /\ UNCHANGED <<vars, mbcVars, timerVars, clockVars>>
     \/ /\ unit = "clocks" /\ Clock!Next
        /\ UNCHANGED <<vars, mbcVars, timerVars, portVars>>

(* The fairness of Timers, Ports and DivClock.                                 *)
DevicesSpec ==
  /\ DevicesInit
  /\ [][DevicesNext]_<<unit, vars, mbcVars, timerVars, portVars, clockVars>>
  /\ WF_timerVars(unit = "timers" /\ Timer!Update)
  /\ WF_timerVars(unit = "timers" /\ Timer!HaltedCycle)
  /\ WF_portVars(unit = "ports" /\ Port!Poll)
  /\ WF_clockVars(unit = "clocks" /\ Clock!Update)
  /\ SF_clockVars(unit = "clocks" /\ Clock!Cycle)

-----------------------------------------------------------------------------
(* A program cannot tell the lazy timers from eager ones (updateTimers).        *)
LazyIsEager == Timer!LazyIsEager

(* The program comes to see each key that stays down, and all keys as they are   *)
(* when the hands rest (process_events, getKeyPressState).                     *)
KeysSeen == Port!InputsSettle /\ Port!PressSeen

(* Each fall of the bit of DIV makes one event of the sound unit                *)
(* (tick_div_apu, clock_to).                                                   *)
EventsCounted == unit = "clocks" => Clock!TypeOK /\ Clock!EventsCounted

(* A CPU that is halted while the timer runs wakes up (clock, updateTimers), and *)
(* the events of the sound unit do not cease (clock_to).                       *)
TimeGoesOn == Timer!HaltWakes /\ (unit = "clocks" => Clock!EventsKeepComing)
=============================================================================
