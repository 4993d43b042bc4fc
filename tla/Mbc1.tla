-------------------------------- MODULE Mbc1 --------------------------------
(* The MBC1 memory bank controller of a cartridge: libgb/controller/mbc1.cpp. *)
(* A write to the ROM area moves the controller's registers, a write to the   *)
(* RAM area goes to the selected RAM bank.  RAM is modelled by one cell per    *)
(* bank: no register write moves an access inside its bank.                   *)
EXTENDS Integers

CONSTANTS
  Bytes,    \* bytes the program writes to the controller
  Contents  \* contents of a RAM cell; contains 0

ASSUME ByteAssumption == Bytes \subseteq 0 .. 255
ASSUME ContentsAssumption == 0 \in Contents

RamBanks == 0 .. 3  \* the 32 KByte of ram

VARIABLES
  bankedRamMode,
  ramEnabled,
  romBank,      \* bank read at 0x4000 - 0x7FFF
  ramBank,      \* bank read and written at 0xA000 - 0xBFFF
  ram

registers == <<bankedRamMode, ramEnabled, romBank, ramBank>>
mbcVars == <<registers, ram>>

MbcInit ==
  /\ bankedRamMode = FALSE /\ ramEnabled = TRUE
  /\ romBank = 1 /\ ramBank = 0
  /\ ram = [b \in RamBanks |-> 0]

(* value & 0x1F, value & 0x03, and (value & 0x0A) == 0x0A: bits 1 and 3.      *)
(* (Slip: the test for bank 0 looks at the whole byte.)                       *)
Low5(value) == value % 32
Low2(value) == value % 4
Bit(value, n) == (value \div 2 ^ n) % 2 = 1

(* 0x0000 - 0x1FFF *)
WriteRamEnable(value) ==
  /\ ramEnabled' = IF bankedRamMode THEN Bit(value, 1) /\ Bit(value, 3) ELSE ramEnabled
  /\ UNCHANGED <<bankedRamMode, romBank, ramBank, ram>>

(* 0x2000 - 0x3FFF *)
SelectedWholeByte(value) == IF value # 0 THEN Low5(value) ELSE 1
Selected(value) == IF Low5(value) # 0 THEN Low5(value) ELSE 1
WriteRomBank(value) ==
  /\ romBank' = Selected(value)
  /\ UNCHANGED <<bankedRamMode, ramEnabled, ramBank, ram>>

(* 0x4000 - 0x5FFF.                                      *)
RamSelected(value) == Low2(value)
WriteUpperBank(value) ==
  /\ IF bankedRamMode
     THEN ramBank' = RamSelected(value) /\ UNCHANGED romBank
     ELSE romBank' = 32 * Low2(value) + Low5(romBank) /\ UNCHANGED ramBank
  /\ UNCHANGED <<bankedRamMode, ramEnabled, ram>>

(* 0x6000 - 0x7FFF *)
WriteMode(value) ==
  /\ bankedRamMode' = Bit(value, 0)
  /\ UNCHANGED <<ramEnabled, romBank, ramBank, ram>>

(* 0xA000 - 0xBFFF *)
WriteRam(content) ==
  /\ ram' = [ram EXCEPT ![ramBank] = content]
  /\ UNCHANGED registers

MbcNext ==
  \/ \E value \in Bytes :
       \/ WriteRamEnable(value) \/ WriteRomBank(value)
       \/ WriteUpperBank(value) \/ WriteMode(value)
  \/ \E content \in Contents : WriteRam(content)

MbcSpec == MbcInit /\ [][MbcNext]_mbcVars

-----------------------------------------------------------------------------
MbcTypeOK ==
  /\ bankedRamMode \in BOOLEAN /\ ramEnabled \in BOOLEAN
  /\ romBank \in 0 .. 127
  /\ ramBank \in RamBanks
  /\ ram \in [RamBanks -> Contents]

(* Bank 0 is not selectable: no sequence of writes to the two bank registers, *)
(* in either mode, makes the low five bits of the ROM bank 0 (write).         *)
NeverBankZero == Low5(romBank) # 0
=============================================================================
