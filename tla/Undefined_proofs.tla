--------------------------- MODULE Undefined_proofs ---------------------------
(* Two runs that differ in undefined bytes alone stay indistinguishable, for  *)
(* all byte widths, device addresses and arithmetic: Indistinguishable is an  *)
(* invariant of Undefined.                                                    *)
(*                                                                            *)
(* The instructions are built from a few operators, so the proof is too: each *)
(* operator takes a pair of machines that are similar (alike, or permitted    *)
(* and reported) to a similar pair, Use among them when both runs make a bad  *)
(* use or none does.                                                          *)
EXTENDS Undefined, TLAPS

Sound(m) ==
  /\ m \in Machine
  /\ ~m.r["f"].undefined
  /\ \A at \in Devices : ~m.memory[at].undefined

Similar(m, n) ==
  /\ Sound(m) /\ Sound(n)
  /\ AlikeMachines(m, n) \/ (permitted /\ m.reported /\ n.reported)

-----------------------------------------------------------------------------
(* Addresses wrap inside Addr. *)
LEMMA UpType == \A at \in Addr : Up(at) \in Addr
  BY RadixAssumption DEF Up, Addr, Byte

LEMMA DownType == \A at \in Addr : Down(at) \in Addr
  BY RadixAssumption DEF Down, Addr, Byte

LEMMA DefinedType == \A x \in Byte : Defined(x) \in Checked /\ ~Defined(x).undefined /\ Defined(x).data = x
  BY DEF Defined, Checked

LEMMA CheckedType == \A x \in Checked : x.data \in Byte /\ x.undefined \in BOOLEAN
  BY DEF Checked

LEMMA AddrType == \A at \in Addr : at = <<at[1], at[2]>> /\ at[1] \in Byte /\ at[2] \in Byte
  BY DEF Addr

LEMMA PartsType ==
  ASSUME NEW m, Sound(m)
  PROVE  /\ \A reg \in Register : m.r[reg] \in Checked
         /\ \A at \in Addr : m.memory[at] \in Checked
         /\ m.sp \in Addr /\ HL(m) \in Addr /\ UndefinedHL(m) \in BOOLEAN
         /\ m.reported \in BOOLEAN
  BY DEF Sound, HL, UndefinedHL, Machine, Checked, Addr, Register

LEMMA ZeroByte == 0 \in Byte
  BY RadixAssumption DEF Byte

-----------------------------------------------------------------------------
(* Steps inside an instruction keep a machine sound. *)
LEMMA SetRSound ==
  ASSUME NEW m, NEW reg \in Register, NEW x \in Checked, Sound(m), reg # "f" \/ ~x.undefined
  PROVE  Sound(SetR(m, reg, x))
  BY DEF SetR, Sound, Machine, Register

LEMMA SetHLSound ==
  ASSUME NEW m, NEW at \in Addr, Sound(m)
  PROVE  Sound(SetHL(m, at))
  <1>1. Defined(at[1]) \in Checked /\ Defined(at[2]) \in Checked
    BY DefinedType, AddrType
  <1> QED BY <1>1, SetRSound DEF SetHL, Register

LEMMA SpSound ==
  ASSUME NEW m, NEW at \in Addr, Sound(m)
  PROVE  Sound([m EXCEPT !.sp = at])
  BY DEF Sound, Machine

LEMMA JumpSound ==
  ASSUME NEW m, NEW at \in Addr, Sound(m)
  PROVE  Sound([m EXCEPT !.jump = at])
  BY DEF Sound, Machine

LEMMA MemorySound ==
  ASSUME NEW m, NEW at \in Addr, NEW x \in Checked, Sound(m), at \in Devices => ~x.undefined
  PROVE  Sound([m EXCEPT !.memory[at] = x])
  BY DeviceAssumption DEF Sound, Machine

LEMMA UseSound ==
  ASSUME NEW m, NEW next, NEW bad \in BOOLEAN, Sound(m), Sound(next)
  PROVE  Sound(Use(m, bad, next))
  BY DEF Use, Sound, Machine

LEMMA ThenSound ==
  ASSUME NEW m, NEW next, Sound(m), Sound(next)
  PROVE  Sound(Then(m, next))
  BY DEF Then

-----------------------------------------------------------------------------
(* The same steps of a similar pair keep it similar, given alike values. *)
LEMMA SetRSimilar ==
  ASSUME NEW m, NEW n, NEW reg \in Register, NEW x \in Checked, NEW y \in Checked,
         Similar(m, n), AlikeMachines(m, n) => Alike(x, y),
         reg # "f" \/ (~x.undefined /\ ~y.undefined)
  PROVE  Similar(SetR(m, reg, x), SetR(n, reg, y))
  <1>1. Sound(SetR(m, reg, x)) /\ Sound(SetR(n, reg, y))
    BY SetRSound DEF Similar
  <1>2. CASE AlikeMachines(m, n)
    BY <1>1, <1>2 DEF Similar, Sound, SetR, AlikeMachines, Machine
  <1>3. CASE permitted /\ m.reported /\ n.reported
    BY <1>1, <1>3 DEF Similar, Sound, SetR, Machine
  <1> QED BY <1>2, <1>3 DEF Similar

LEMMA SetHLSimilar ==
  ASSUME NEW m, NEW n, NEW at \in Addr, NEW to \in Addr, Similar(m, n),
         AlikeMachines(m, n) => at = to
  PROVE  Similar(SetHL(m, at), SetHL(n, to))
  <1>1. /\ \A x, y \in Byte : x = y => Alike(Defined(x), Defined(y))
        /\ Defined(at[1]) \in Checked /\ Defined(at[2]) \in Checked
        /\ Defined(to[1]) \in Checked /\ Defined(to[2]) \in Checked
    BY DefinedType, AddrType DEF Alike
  <1>3. Similar(SetR(m, "h", Defined(at[1])), SetR(n, "h", Defined(to[1])))
    BY <1>1, SetRSimilar, AddrType DEF Register
  <1>4. CASE AlikeMachines(m, n)
    BY <1>1, <1>3, <1>4, SetRSimilar, AddrType DEF SetHL, Register
  <1>5. CASE permitted /\ m.reported /\ n.reported
    <2>1. Sound(SetHL(m, at)) /\ Sound(SetHL(n, to))
      BY SetHLSound DEF Similar
    <2>2. SetHL(m, at).reported = m.reported /\ SetHL(n, to).reported = n.reported
      BY DEF SetHL, SetR, Similar, Sound, Machine
    <2> QED BY <1>5, <2>1, <2>2 DEF Similar
  <1> QED BY <1>4, <1>5 DEF Similar

LEMMA SpSimilar ==
  ASSUME NEW m, NEW n, NEW at \in Addr, NEW to \in Addr, Similar(m, n), AlikeMachines(m, n) => at = to
  PROVE  Similar([m EXCEPT !.sp = at], [n EXCEPT !.sp = to])
  <1>1. Sound([m EXCEPT !.sp = at]) /\ Sound([n EXCEPT !.sp = to])
    BY SpSound DEF Similar
  <1> QED BY <1>1 DEF Similar, Sound, Machine, AlikeMachines

LEMMA JumpSimilar ==
  ASSUME NEW m, NEW n, NEW at \in Addr, NEW to \in Addr, Similar(m, n), AlikeMachines(m, n) => at = to
  PROVE  Similar([m EXCEPT !.jump = at], [n EXCEPT !.jump = to])
  <1>1. Sound([m EXCEPT !.jump = at]) /\ Sound([n EXCEPT !.jump = to])
    BY JumpSound DEF Similar
  <1> QED BY <1>1 DEF Similar, Sound, Machine, AlikeMachines

LEMMA UseSimilar ==
  ASSUME NEW m, NEW n, NEW nextM, NEW nextN, NEW bad \in BOOLEAN, NEW badN \in BOOLEAN,
         Similar(m, n), Sound(nextM), Sound(nextN), bad = badN,
         ~bad => Similar(nextM, nextN)
  PROVE  Similar(Use(m, bad, nextM), Use(n, badN, nextN))
  <1>1. Sound(Use(m, bad, nextM)) /\ Sound(Use(n, badN, nextN))
    BY UseSound DEF Similar
  <1>2. CASE ~bad
    BY <1>2 DEF Use
  <1>3. CASE bad /\ permitted
    BY <1>1, <1>3 DEF Use, Similar, Sound, Machine
  <1>4. CASE bad /\ ~permitted
    BY <1>1, <1>4 DEF Use, Similar, Sound, Machine, AlikeMachines
  <1> QED BY <1>2, <1>3, <1>4

LEMMA ThenSimilar ==
  ASSUME NEW m, NEW n, NEW nextM, NEW nextN, Similar(m, n), Similar(nextM, nextN)
  PROVE  Similar(Then(m, nextM), Then(n, nextN))
  BY DEF Then, Similar, AlikeMachines

(* Defined addresses and bytes of machines that are alike are equal. *)
LEMMA HLAlike ==
  ASSUME NEW m, NEW n, AlikeMachines(m, n)
  PROVE  UndefinedHL(m) = UndefinedHL(n) /\ (~UndefinedHL(m) => HL(m) = HL(n))
  BY DEF AlikeMachines, Alike, HL, UndefinedHL, Register

LEMMA FlagsAlike ==
  ASSUME NEW m, NEW n, Sound(m), AlikeMachines(m, n)
  PROVE  m.r["f"].data = n.r["f"].data
  BY DEF AlikeMachines, Alike, Sound, Register

LEMMA ValuesAlike ==
  ASSUME NEW m, NEW n, NEW reg \in Register, NEW at \in Addr, AlikeMachines(m, n)
  PROVE  Alike(m.r[reg], n.r[reg]) /\ Alike(m.memory[at], n.memory[at])
  BY DEF AlikeMachines

-----------------------------------------------------------------------------
(* Accesses to memory. *)
LEMMA StoreSound ==
  ASSUME NEW m, NEW at \in Addr, NEW x \in Checked, Sound(m)
  PROVE  Sound(Store(m, at, x))
  <1>1. Defined(x.data) \in Checked /\ ~Defined(x.data).undefined /\ x.undefined \in BOOLEAN
    BY DefinedType, CheckedType
  <1>2. Sound([m EXCEPT !.memory[at] = Defined(x.data)])
    BY <1>1, MemorySound
  <1>3. at \notin Devices => Sound([m EXCEPT !.memory[at] = x])
    BY MemorySound
  <1> QED BY <1>1, <1>2, <1>3, UseSound DEF Store

LEMMA MemorySimilar ==
  ASSUME NEW m, NEW n, NEW at \in Addr, NEW x \in Checked, NEW y \in Checked, Similar(m, n),
         at \in Devices => ~x.undefined /\ ~y.undefined, AlikeMachines(m, n) => Alike(x, y)
  PROVE  Similar([m EXCEPT !.memory[at] = x], [n EXCEPT !.memory[at] = y])
  <1> DEFINE mm == [m EXCEPT !.memory[at] = x]
             nn == [n EXCEPT !.memory[at] = y]
  <1>1. Sound(mm) /\ Sound(nn)
    BY MemorySound DEF Similar
  <1>2. CASE AlikeMachines(m, n)
    BY <1>1, <1>2 DEF Similar, Sound, AlikeMachines, Machine
  <1>3. CASE permitted /\ m.reported /\ n.reported
    BY <1>1, <1>3 DEF Similar, Sound, Machine
  <1> QED BY <1>2, <1>3 DEF Similar

LEMMA StoreSimilar ==
  ASSUME NEW m, NEW n, NEW at \in Addr, NEW to \in Addr, NEW x \in Checked, NEW y \in Checked,
         Similar(m, n), AlikeMachines(m, n) => at = to /\ Alike(x, y)
  PROVE  Similar(Store(m, at, x), Store(n, to, y))
  <1>1. Sound(Store(m, at, x)) /\ Sound(Store(n, to, y))
    BY StoreSound DEF Similar
  <1>2. CASE permitted /\ m.reported /\ n.reported
    <2>1. Store(m, at, x).reported /\ Store(n, to, y).reported
      BY <1>2 DEF Store, Use, Similar, Sound, Machine
    <2> QED BY <1>1, <1>2, <2>1 DEF Similar
  <1>3. CASE AlikeMachines(m, n) /\ at \notin Devices
    BY <1>3, MemorySimilar DEF Store
  <1>4. CASE AlikeMachines(m, n) /\ at \in Devices
    <2> DEFINE dx == Defined(x.data)
               dy == Defined(y.data)
    <2>1. dx \in Checked /\ dy \in Checked /\ ~dx.undefined /\ ~dy.undefined
      BY DefinedType, CheckedType
    <2>2. Sound([m EXCEPT !.memory[at] = dx]) /\ Sound([n EXCEPT !.memory[at] = dy])
      BY <2>1, MemorySound DEF Similar
    <2>3. x.undefined \in BOOLEAN /\ y.undefined \in BOOLEAN /\ x.undefined = y.undefined /\ at = to
      BY <1>4, CheckedType DEF Alike
    <2>4. ~x.undefined => Alike(dx, dy)
      BY <1>4 DEF Alike, Defined
    <2>5. ~x.undefined => Similar([m EXCEPT !.memory[at] = dx], [n EXCEPT !.memory[at] = dy])
      BY <2>1, <2>4, MemorySimilar
    <2> QED BY <1>4, <2>2, <2>3, <2>5, UseSimilar DEF Store
  <1> QED BY <1>2, <1>3, <1>4 DEF Similar

LEMMA WriteSound ==
  ASSUME NEW m, NEW at \in Addr, NEW x \in Checked, Sound(m)
  PROVE  Sound(Write(m, at, x))
  BY StoreSound, UseSound, CheckedType DEF Write

LEMMA WriteSimilar ==
  ASSUME NEW m, NEW n, NEW at \in Addr, NEW to \in Addr, NEW x \in Checked, NEW y \in Checked,
         Similar(m, n), AlikeMachines(m, n), at = to, Alike(x, y)
  PROVE  Similar(Write(m, at, x), Write(n, to, y))
  <1>1. Similar(Store(m, at, x), Store(n, to, y))
    BY StoreSimilar
  <1> QED BY <1>1, UseSimilar, CheckedType DEF Write, Alike, Similar

LEMMA ReadSound ==
  ASSUME NEW m, NEW reg \in Register \ {"f"}, NEW at \in Addr, Sound(m)
  PROVE  Sound(ReadInto(m, reg, at))
  <1>1. m.memory[at] \in Checked /\ m.memory[at].undefined \in BOOLEAN
    BY PartsType, CheckedType
  <1> QED BY <1>1, SetRSound, UseSound DEF ReadInto

LEMMA ReadSimilar ==
  ASSUME NEW m, NEW n, NEW reg \in Register \ {"f"}, NEW at \in Addr, NEW to \in Addr,
         Similar(m, n), AlikeMachines(m, n), at = to
  PROVE  Similar(ReadInto(m, reg, at), ReadInto(n, reg, to))
  <1>1. /\ m.memory[at] \in Checked /\ m.memory[at].undefined \in BOOLEAN
        /\ n.memory[at] \in Checked /\ n.memory[at].undefined \in BOOLEAN
        /\ Alike(m.memory[at], n.memory[at]) /\ Sound(m) /\ Sound(n)
    BY PartsType, CheckedType, ValuesAlike DEF Similar
  <1>2. Similar(SetR(m, reg, m.memory[at]), SetR(n, reg, n.memory[at]))
    BY <1>1, SetRSimilar
  <1> QED BY <1>1, <1>2, UseSimilar DEF ReadInto, Alike, Similar

-----------------------------------------------------------------------------
(* The instructions: a pair that is alike is taken to a pair that is similar. *)
Start(m, n) == Similar(m, n) /\ AlikeMachines(m, n)

LEMMA StartFacts ==
  ASSUME NEW m, NEW n, Start(m, n)
  PROVE  /\ Sound(m) /\ Sound(n) /\ Similar(m, n) /\ AlikeMachines(m, n)
         /\ UndefinedHL(m) \in BOOLEAN /\ UndefinedHL(n) \in BOOLEAN /\ UndefinedHL(m) = UndefinedHL(n)
         /\ HL(m) \in Addr /\ HL(n) \in Addr /\ (~UndefinedHL(m) => HL(m) = HL(n))
         /\ \A reg \in Register :
              /\ m.r[reg] \in Checked /\ n.r[reg] \in Checked /\ Alike(m.r[reg], n.r[reg])
              /\ m.r[reg].data \in Byte /\ n.r[reg].data \in Byte
              /\ m.r[reg].undefined \in BOOLEAN /\ n.r[reg].undefined \in BOOLEAN
         /\ \A at \in Addr :
              /\ m.memory[at] \in Checked /\ n.memory[at] \in Checked /\ Alike(m.memory[at], n.memory[at])
              /\ m.memory[at].data \in Byte /\ n.memory[at].data \in Byte
              /\ m.memory[at].undefined \in BOOLEAN /\ n.memory[at].undefined \in BOOLEAN
         /\ m.sp \in Addr /\ m.sp = n.sp
         /\ m.r["f"].data = n.r["f"].data
  <1>1. Sound(m) /\ Sound(n) /\ Similar(m, n) /\ AlikeMachines(m, n)
    BY DEF Start, Similar
  <1> QED BY <1>1, PartsType, CheckedType, HLAlike, FlagsAlike, AddrType DEF AlikeMachines

LEMMA LoadByteSimilar ==
  ASSUME NEW m, NEW n, Start(m, n), NEW reg \in {"a", "h", "l"}
  PROVE  /\ \A x \in Byte : Similar(LD_r_n(m, reg, x), LD_r_n(n, reg, x))
         /\ \A r2 \in {"a", "h", "l"} : Similar(LD_r1_r2(m, reg, r2), LD_r1_r2(n, reg, r2))
         /\ \A at \in Addr : Similar(LD_r_nn(m, reg, at), LD_r_nn(n, reg, at))
         /\ \A at \in Addr : Similar(LD_nn_r(m, reg, at), LD_nn_r(n, reg, at))
         /\ Similar(LD_r_HL(m, reg), LD_r_HL(n, reg))
         /\ Similar(LD_HL_r(m, reg), LD_HL_r(n, reg))
  <1>1. reg \in Register \ {"f"} /\ {"a", "h", "l"} \subseteq Register
    BY DEF Register
  <1>2. ASSUME NEW x \in Byte PROVE Similar(LD_r_n(m, reg, x), LD_r_n(n, reg, x))
    BY <1>1, StartFacts, SetRSimilar, DefinedType DEF LD_r_n, Alike
  <1>3. ASSUME NEW r2 \in {"a", "h", "l"} PROVE Similar(LD_r1_r2(m, reg, r2), LD_r1_r2(n, reg, r2))
    BY <1>1, StartFacts, SetRSimilar DEF LD_r1_r2
  <1>4. ASSUME NEW at \in Addr PROVE Similar(LD_r_nn(m, reg, at), LD_r_nn(n, reg, at))
    BY <1>1, StartFacts, ReadSimilar DEF LD_r_nn
  <1>5. ASSUME NEW at \in Addr PROVE Similar(LD_nn_r(m, reg, at), LD_nn_r(n, reg, at))
    BY <1>1, StartFacts, WriteSimilar DEF LD_nn_r
  <1>6. Similar(LD_r_HL(m, reg), LD_r_HL(n, reg))
    <2>1. Sound(ReadInto(m, reg, HL(m))) /\ Sound(ReadInto(n, reg, HL(n)))
      BY <1>1, StartFacts, ReadSound
    <2>2. ~UndefinedHL(m) => Similar(ReadInto(m, reg, HL(m)), ReadInto(n, reg, HL(n)))
      BY <1>1, StartFacts, ReadSimilar
    <2> QED BY <2>1, <2>2, StartFacts, UseSimilar DEF LD_r_HL
  <1>7. Similar(LD_HL_r(m, reg), LD_HL_r(n, reg))
    <2>1. Sound(Write(m, HL(m), m.r[reg])) /\ Sound(Write(n, HL(n), n.r[reg]))
      BY <1>1, StartFacts, WriteSound
    <2>2. ~UndefinedHL(m) => Similar(Write(m, HL(m), m.r[reg]), Write(n, HL(n), n.r[reg]))
      BY <1>1, StartFacts, WriteSimilar
    <2> QED BY <2>1, <2>2, StartFacts, UseSimilar DEF LD_HL_r
  <1> QED BY <1>2, <1>3, <1>4, <1>5, <1>6, <1>7

LEMMA LoadAndMoveSimilar ==
  ASSUME NEW m, NEW n, Start(m, n), NEW at \in Addr, NEW to \in Addr, ~UndefinedHL(m) => at = to
  PROVE  /\ Similar(LoadAndMove(m, at), LoadAndMove(n, to))
         /\ Similar(StoreAndMove(m, at), StoreAndMove(n, to))
  <1>0. "a" \in Register \ {"f"}
    BY DEF Register
  <1>1. Similar(LoadAndMove(m, at), LoadAndMove(n, to))
    <2> DEFINE readM == ReadInto(m, "a", HL(m))
               readN == ReadInto(n, "a", HL(n))
    <2>1. Sound(readM) /\ Sound(readN)
      BY <1>0, StartFacts, ReadSound
    <2>2. Sound(Then(readM, SetHL(readM, at))) /\ Sound(Then(readN, SetHL(readN, to)))
      BY <2>1, SetHLSound, ThenSound
    <2>3. ASSUME ~UndefinedHL(m)
          PROVE  Similar(Then(readM, SetHL(readM, at)), Then(readN, SetHL(readN, to)))
      <3>1. Similar(readM, readN)
        BY <1>0, <2>3, StartFacts, ReadSimilar
      <3> HIDE DEF readM, readN
      <3> QED BY <2>3, <3>1, SetHLSimilar, ThenSimilar
    <2> QED BY <2>2, <2>3, StartFacts, UseSimilar DEF LoadAndMove
  <1>2. Similar(StoreAndMove(m, at), StoreAndMove(n, to))
    <2> DEFINE writtenM == Write(m, HL(m), m.r["a"])
               writtenN == Write(n, HL(n), n.r["a"])
    <2>1. Sound(writtenM) /\ Sound(writtenN)
      BY <1>0, StartFacts, WriteSound
    <2>2. Sound(Then(writtenM, SetHL(writtenM, at))) /\ Sound(Then(writtenN, SetHL(writtenN, to)))
      BY <2>1, SetHLSound, ThenSound
    <2>3. ASSUME ~UndefinedHL(m)
          PROVE  Similar(Then(writtenM, SetHL(writtenM, at)), Then(writtenN, SetHL(writtenN, to)))
      <3>1. Similar(writtenM, writtenN)
        BY <1>0, <2>3, StartFacts, WriteSimilar
      <3> HIDE DEF writtenM, writtenN
      <3> QED BY <2>3, <3>1, SetHLSimilar, ThenSimilar
    <2> QED BY <2>2, <2>3, StartFacts, UseSimilar DEF StoreAndMove
  <1> QED BY <1>1, <1>2

LEMMA LoadAndStepSimilar ==
  ASSUME NEW m, NEW n, Start(m, n)
  PROVE  /\ Similar(LDI_A_HL(m), LDI_A_HL(n)) /\ Similar(LDD_A_HL(m), LDD_A_HL(n))
         /\ Similar(LDI_HL_A(m), LDI_HL_A(n)) /\ Similar(LDD_HL_A(m), LDD_HL_A(n))
  <1>1. /\ Up(HL(m)) \in Addr /\ Up(HL(n)) \in Addr /\ Down(HL(m)) \in Addr /\ Down(HL(n)) \in Addr
        /\ ~UndefinedHL(m) => Up(HL(m)) = Up(HL(n)) /\ Down(HL(m)) = Down(HL(n))
    BY StartFacts, UpType, DownType
  <1> QED BY <1>1, LoadAndMoveSimilar DEF LDI_A_HL, LDD_A_HL, LDI_HL_A, LDD_HL_A

LEMMA SetFlagsSimilar ==
  ASSUME NEW m, NEW n, Similar(m, n), NEW x \in Byte, NEW y \in Byte, NEW v \in Byte, NEW w \in Byte,
         AlikeMachines(m, n) => x = v /\ y = w
  PROVE  Similar(SetFlags(m, x, y), SetFlags(n, v, w))
  <1>1. Sound(m) /\ Sound(n) /\ m.r["f"].data \in Byte /\ n.r["f"].data \in Byte /\ "f" \in Register
    BY PartsType, CheckedType DEF Similar, Register
  <1> DEFINE fm == Defined(Flags(x, y, m.r["f"].data))
             fn == Defined(Flags(v, w, n.r["f"].data))
  <1>2. fm \in Checked /\ fn \in Checked /\ ~fm.undefined /\ ~fn.undefined
    BY <1>1, ResultAssumption, DefinedType
  <1>3. AlikeMachines(m, n) => Alike(fm, fn)
    BY <1>1, FlagsAlike DEF Alike
  <1> HIDE DEF fm, fn
  <1>4. Similar(SetR(m, "f", fm), SetR(n, "f", fn))
    BY <1>1, <1>2, <1>3, SetRSimilar
  <1> QED BY <1>4 DEF SetFlags, fm, fn

LEMMA SetFlagsSound ==
  ASSUME NEW m, Sound(m), NEW x \in Byte, NEW y \in Byte
  PROVE  Sound(SetFlags(m, x, y)) /\ SetFlags(m, x, y).sp = m.sp
  <1>1. m.r["f"].data \in Byte /\ "f" \in Register
    BY PartsType, CheckedType DEF Register
  <1>2. Defined(Flags(x, y, m.r["f"].data)) \in Checked /\ ~Defined(Flags(x, y, m.r["f"].data)).undefined
    BY <1>1, ResultAssumption, DefinedType
  <1> QED BY <1>1, <1>2, SetRSound DEF SetFlags, SetR, Sound, Machine

LEMMA WordSimilar ==
  ASSUME NEW m, NEW n, Start(m, n)
  PROVE  /\ Similar(INC16_HL(m), INC16_HL(n)) /\ Similar(DEC16_HL(m), DEC16_HL(n))
         /\ Similar(LD16_SP_HL(m), LD16_SP_HL(n)) /\ Similar(JP_HL(m), JP_HL(n))
  <1>1. /\ Up(HL(m)) \in Addr /\ Up(HL(n)) \in Addr /\ Down(HL(m)) \in Addr /\ Down(HL(n)) \in Addr
        /\ ~UndefinedHL(m) => Up(HL(m)) = Up(HL(n)) /\ Down(HL(m)) = Down(HL(n))
    BY StartFacts, UpType, DownType
  <1>2. Similar(INC16_HL(m), INC16_HL(n)) /\ Similar(DEC16_HL(m), DEC16_HL(n))
    BY <1>1, StartFacts, SetHLSound, SetHLSimilar, UseSimilar DEF INC16_HL, DEC16_HL
  <1>3. Similar(LD16_SP_HL(m), LD16_SP_HL(n))
    BY StartFacts, SpSound, SpSimilar, UseSimilar DEF LD16_SP_HL
  <1>4. Similar(JP_HL(m), JP_HL(n))
    BY StartFacts, JumpSound, JumpSimilar, UseSimilar DEF JP_HL
  <1> QED BY <1>2, <1>3, <1>4

(* ADD HL,SP sets flags before it reports, which both runs do alike. *)
LEMMA PresetSimilar ==
  ASSUME NEW m, NEW n, Start(m, n)
  PROVE  Similar(SetR(m, "f", Defined(Preset(m.r["f"].data))), SetR(n, "f", Defined(Preset(n.r["f"].data))))
  <1>1. "f" \in Register
    BY DEF Register
  <1> DEFINE fm == Defined(Preset(m.r["f"].data))
             fn == Defined(Preset(n.r["f"].data))
  <1>2. fm \in Checked /\ fn \in Checked /\ ~fm.undefined /\ ~fn.undefined /\ Alike(fm, fn)
    BY <1>1, StartFacts, PresetAssumption, DefinedType DEF Alike
  <1> HIDE DEF fm, fn
  <1>3. Similar(SetR(m, "f", fm), SetR(n, "f", fn))
    BY <1>1, <1>2, StartFacts, SetRSimilar
  <1> QED BY <1>3 DEF fm, fn

LEMMA SumSimilar ==
  ASSUME NEW m, NEW n, Start(m, n), NEW x \in Byte
  PROVE  /\ Similar(ADD16_HL_SP(m), ADD16_HL_SP(n))
         /\ Similar(ADD16_SP_n(m, x), ADD16_SP_n(n, x))
         /\ Similar(LDHL_SP_n(m, x), LDHL_SP_n(n, x))
  <1>0. "h" \in Register /\ "l" \in Register /\ m.sp[1] \in Byte /\ m.sp[2] \in Byte /\ n.sp[1] \in Byte
    BY StartFacts, AddrType DEF Register
  <1>1. Similar(ADD16_HL_SP(m), ADD16_HL_SP(n))
    <2> DEFINE hm == m.r["h"].data
               hn == n.r["h"].data
               sumM == <<Result(hm, m.sp[1]), Result(m.r["l"].data, m.sp[2])>>
               sumN == <<Result(hn, n.sp[1]), Result(n.r["l"].data, n.sp[2])>>
    <2>1. sumM \in Addr /\ sumN \in Addr /\ hm \in Byte /\ hn \in Byte
      BY <1>0, StartFacts, ResultAssumption DEF Addr
    <2>2. ~UndefinedHL(m) => sumM = sumN /\ hm = hn
      BY <1>0, StartFacts DEF UndefinedHL, Alike
    <2>3. Sound(SetFlags(m, hm, m.sp[1])) /\ Sound(SetFlags(n, hn, n.sp[1]))
      BY <1>0, <2>1, StartFacts, SetFlagsSound
    <2>4. ~UndefinedHL(m) => Similar(SetFlags(m, hm, m.sp[1]), SetFlags(n, hn, n.sp[1]))
      BY <1>0, <2>1, <2>2, StartFacts, SetFlagsSimilar
    <2> HIDE DEF sumM, sumN, hm, hn
    <2>5. /\ Sound(SetHL(SetFlags(m, hm, m.sp[1]), sumM)) /\ Sound(SetHL(SetFlags(n, hn, n.sp[1]), sumN))
          /\ ~UndefinedHL(m) => Similar(SetHL(SetFlags(m, hm, m.sp[1]), sumM), SetHL(SetFlags(n, hn, n.sp[1]), sumN))
      BY <2>1, <2>2, <2>3, <2>4, SetHLSound, SetHLSimilar
    <2> DEFINE presetM == SetR(m, "f", Defined(Preset(m.r["f"].data)))
               presetN == SetR(n, "f", Defined(Preset(n.r["f"].data)))
               doneM == SetHL(SetFlags(m, hm, m.sp[1]), sumM)
               doneN == SetHL(SetFlags(n, hn, n.sp[1]), sumN)
               badM == UndefinedHL(m)
               badN == UndefinedHL(n)
    <2>6. badM \in BOOLEAN /\ badN \in BOOLEAN /\ badM = badN
      BY StartFacts
    <2>7. Similar(presetM, presetN)
      BY PresetSimilar
    <2>8. Sound(doneM) /\ Sound(doneN) /\ (~badM => Similar(doneM, doneN))
      BY <2>5
    <2> HIDE DEF presetM, presetN, doneM, doneN, badM, badN
    <2>9. Similar(Use(presetM, badM, doneM), Use(presetN, badN, doneN))
      BY <2>6, <2>7, <2>8, UseSimilar
    <2> QED BY <2>9 DEF ADD16_HL_SP, presetM, presetN, doneM, doneN, badM, badN, sumM, sumN, hm, hn
  <1>2. /\ AddedToSP(m, x) \in Addr /\ AddedToSP(m, x) = AddedToSP(n, x)
        /\ Similar(SetFlags(m, m.sp[2], x), SetFlags(n, n.sp[2], x))
    <2>1. AddedToSP(m, x) \in Addr /\ AddedToSP(m, x) = AddedToSP(n, x)
      BY <1>0, StartFacts, ResultAssumption DEF AddedToSP, Addr
    <2>2. m.sp[2] = n.sp[2] /\ Similar(m, n)
      BY StartFacts
    <2>3. Similar(SetFlags(m, m.sp[2], x), SetFlags(n, m.sp[2], x))
      BY <1>0, <2>2, SetFlagsSimilar
    <2> QED BY <2>1, <2>2, <2>3
  <1>3. Similar(ADD16_SP_n(m, x), ADD16_SP_n(n, x))
    BY <1>2, SpSimilar DEF ADD16_SP_n
  <1>4. Similar(LDHL_SP_n(m, x), LDHL_SP_n(n, x))
    BY <1>2, SetHLSimilar DEF LDHL_SP_n
  <1> QED BY <1>1, <1>3, <1>4

-----------------------------------------------------------------------------
(* The stack. *)
LEMMA WriteWordSound ==
  ASSUME NEW m, Sound(m), NEW at \in Addr, NEW upper \in Checked, NEW lower \in Checked
  PROVE  Sound(WriteWord(m, at, upper, lower))
  BY StoreSound, ThenSound, UpType DEF WriteWord

LEMMA WriteWordSimilar ==
  ASSUME NEW m, NEW n, NEW at \in Addr, NEW to \in Addr, NEW upper \in Checked, NEW lower \in Checked,
         NEW upperN \in Checked, NEW lowerN \in Checked, Similar(m, n), at = to,
         Alike(upper, upperN), Alike(lower, lowerN)
  PROVE  Similar(WriteWord(m, at, upper, lower), WriteWord(n, to, upperN, lowerN))
  <1> DEFINE firstM == Store(m, at, lower)
             firstN == Store(n, to, lowerN)
  <1>1. Similar(firstM, firstN)
    BY StoreSimilar
  <1> HIDE DEF firstM, firstN
  <1>2. Similar(Store(firstM, Up(at), upper), Store(firstN, Up(to), upperN))
    BY <1>1, StoreSimilar, UpType
  <1> QED BY <1>1, <1>2, ThenSimilar DEF WriteWord, firstM, firstN

LEMMA MovedSimilar ==
  ASSUME NEW m, NEW n, Start(m, n)
  PROVE  LET mm == [m EXCEPT !.sp = Down(Down(@))]
             nn == [n EXCEPT !.sp = Down(Down(@))]
         IN Similar(mm, nn) /\ Sound(mm) /\ Sound(nn) /\ mm.sp = nn.sp /\ mm.sp \in Addr
  <1>1. Down(Down(m.sp)) \in Addr /\ Down(Down(m.sp)) = Down(Down(n.sp))
    BY StartFacts, DownType
  <1>2. Similar([m EXCEPT !.sp = Down(Down(m.sp))], [n EXCEPT !.sp = Down(Down(n.sp))])
    BY <1>1, StartFacts, SpSimilar
  <1> QED BY <1>1, <1>2, StartFacts DEF Similar, Sound, Machine

LEMMA PairType ==
  ASSUME NEW pair \in Pair
  PROVE  Upper(pair) \in Register \ {"f"} /\ Lower(pair) \in Register
  BY DEF Upper, Lower, Register

LEMMA PushSimilar ==
  ASSUME NEW m, NEW n, Start(m, n), NEW pair \in Pair
  PROVE  Similar(PUSH(m, pair), PUSH(n, pair))
  <1> DEFINE mm == [m EXCEPT !.sp = Down(Down(@))]
             nn == [n EXCEPT !.sp = Down(Down(@))]
             um == m.r[Upper(pair)]
             un == n.r[Upper(pair)]
             lm == m.r[Lower(pair)]
             ln == n.r[Lower(pair)]
  <1>1. Similar(mm, nn) /\ Sound(mm) /\ Sound(nn) /\ mm.sp = nn.sp /\ mm.sp \in Addr
    BY MovedSimilar
  <1>2. /\ um \in Checked /\ un \in Checked /\ Alike(um, un) /\ um.undefined \in BOOLEAN
        /\ lm \in Checked /\ ln \in Checked /\ Alike(lm, ln) /\ lm.undefined \in BOOLEAN
    BY StartFacts, PairType
  <1> HIDE DEF mm, nn, um, un, lm, ln
  <1>3. /\ Sound(WriteWord(mm, mm.sp, um, lm)) /\ Sound(WriteWord(nn, nn.sp, un, ln))
        /\ Similar(WriteWord(mm, mm.sp, um, lm), WriteWord(nn, nn.sp, un, ln))
    BY <1>1, <1>2, WriteWordSound, WriteWordSimilar
  <1>4. (um.undefined /\ lm.undefined) = (un.undefined /\ ln.undefined)
    BY <1>2 DEF Alike
  <1>5. /\ (um.undefined /\ lm.undefined) \in BOOLEAN /\ (un.undefined /\ ln.undefined) \in BOOLEAN
    OBVIOUS
  <1>6. Similar(Use(mm, um.undefined /\ lm.undefined, WriteWord(mm, mm.sp, um, lm)),
                Use(nn, un.undefined /\ ln.undefined, WriteWord(nn, nn.sp, un, ln)))
    BY <1>1, <1>3, <1>4, <1>5, UseSimilar
  <1> QED BY <1>6 DEF PUSH, mm, nn, um, un, lm, ln

LEMMA SetFlagBitsSimilar ==
  ASSUME NEW m, NEW n, Similar(m, n), NEW x \in Checked, NEW y \in Checked, Alike(x, y)
  PROVE  Similar(SetFlagBits(m, x), SetFlagBits(n, y))
  <1> DEFINE fm == Defined(And(x.data, FlagBits))
             fn == Defined(And(y.data, FlagBits))
  <1>1. /\ "f" \in Register /\ fm \in Checked /\ fn \in Checked /\ ~fm.undefined /\ ~fn.undefined
        /\ x.undefined \in BOOLEAN /\ y.undefined \in BOOLEAN /\ x.undefined = y.undefined
    BY CheckedType, AndAssumption, FlagBitsAssumption, DefinedType DEF Alike, Register
  <1>2. ~x.undefined => Alike(fm, fn)
    BY DEF Alike
  <1> HIDE DEF fm, fn
  <1>3. Sound(SetR(m, "f", fm)) /\ Sound(SetR(n, "f", fn))
    BY <1>1, SetRSound DEF Similar
  <1>4. ~x.undefined => Similar(SetR(m, "f", fm), SetR(n, "f", fn))
    BY <1>1, <1>2, SetRSimilar
  <1>5. Similar(Use(m, x.undefined, SetR(m, "f", fm)), Use(n, y.undefined, SetR(n, "f", fn)))
    BY <1>1, <1>3, <1>4, UseSimilar
  <1> QED BY <1>5 DEF SetFlagBits, fm, fn

LEMMA PoppedSimilar ==
  ASSUME NEW m, NEW n, Similar(m, n), NEW pair \in Pair,
         NEW upper \in Checked, NEW lower \in Checked, NEW upperN \in Checked, NEW lowerN \in Checked,
         Alike(upper, upperN), Alike(lower, lowerN)
  PROVE  Similar(Popped(m, pair, upper, lower), Popped(n, pair, upperN, lowerN))
  <1> DEFINE halfM == SetR(m, Upper(pair), upper)
             halfN == SetR(n, Upper(pair), upperN)
  <1>1. Similar(halfM, halfN)
    BY SetRSimilar, PairType
  <1> HIDE DEF halfM, halfN
  <1>2. Similar(SetFlagBits(halfM, lower), SetFlagBits(halfN, lowerN))
    BY <1>1, SetFlagBitsSimilar
  <1>3. Similar(SetR(halfM, "l", lower), SetR(halfN, "l", lowerN))
    BY <1>1, SetRSimilar DEF Register
  <1> QED BY <1>2, <1>3 DEF Popped, halfM, halfN

LEMMA PoppedSound ==
  ASSUME NEW m, Sound(m), NEW pair \in Pair, NEW upper \in Checked, NEW lower \in Checked
  PROVE  Sound(Popped(m, pair, upper, lower))
  <1>1. Sound(SetR(m, Upper(pair), upper))
    BY SetRSound, PairType
  <1>2. Defined(And(lower.data, FlagBits)) \in Checked /\ ~Defined(And(lower.data, FlagBits)).undefined
    BY CheckedType, AndAssumption, FlagBitsAssumption, DefinedType
  <1> QED BY <1>1, <1>2, SetRSound, UseSound, CheckedType DEF Popped, SetFlagBits, Register

LEMMA PopSimilar ==
  ASSUME NEW m, NEW n, Start(m, n), NEW pair \in Pair
  PROVE  Similar(POP(m, pair), POP(n, pair))
  <1> DEFINE um == m.memory[Up(m.sp)]
             un == n.memory[Up(n.sp)]
             lm == m.memory[m.sp]
             ln == n.memory[n.sp]
             poppedM == Popped(m, pair, um, lm)
             poppedN == Popped(n, pair, un, ln)
             doneM == [poppedM EXCEPT !.sp = Up(Up(@))]
             doneN == [poppedN EXCEPT !.sp = Up(Up(@))]
  <1>1. /\ um \in Checked /\ un \in Checked /\ Alike(um, un) /\ um.undefined \in BOOLEAN
        /\ lm \in Checked /\ ln \in Checked /\ Alike(lm, ln) /\ lm.undefined \in BOOLEAN
    BY StartFacts, UpType
  <1> HIDE DEF um, un, lm, ln
  <1>2. Similar(poppedM, poppedN) /\ Sound(poppedM) /\ Sound(poppedN)
    BY <1>1, StartFacts, PoppedSimilar, PoppedSound
  <1> HIDE DEF poppedM, poppedN
  <1>3. /\ Up(Up(poppedM.sp)) \in Addr /\ Up(Up(poppedN.sp)) \in Addr
        /\ AlikeMachines(poppedM, poppedN) => Up(Up(poppedM.sp)) = Up(Up(poppedN.sp))
    BY <1>2, PartsType, UpType DEF AlikeMachines
  <1>4. Similar(doneM, doneN)
    BY <1>2, <1>3, SpSimilar
  <1> HIDE DEF doneM, doneN
  <1>5. Similar(Then(poppedM, doneM), Then(poppedN, doneN))
    BY <1>2, <1>4, ThenSimilar
  <1> DEFINE endM == Then(poppedM, doneM)
             endN == Then(poppedN, doneN)
             badM == um.undefined /\ lm.undefined
             badN == un.undefined /\ ln.undefined
  <1>6. badM \in BOOLEAN /\ badN \in BOOLEAN /\ badM = badN
    BY <1>1 DEF Alike
  <1>7. Similar(endM, endN) /\ Sound(endM) /\ Sound(endN)
    BY <1>5 DEF Similar
  <1> HIDE DEF endM, endN, badM, badN
  <1>8. Similar(Use(m, badM, endM), Use(n, badN, endN))
    BY <1>6, <1>7, StartFacts, UseSimilar
  <1> QED BY <1>8 DEF POP, endM, endN, badM, badN, um, un, lm, ln, poppedM, poppedN, doneM, doneN

LEMMA CallSimilar ==
  ASSUME NEW m, NEW n, Start(m, n), NEW from \in Addr, NEW to \in Addr
  PROVE  Similar(CALL_nn(m, from, to), CALL_nn(n, from, to))
  <1> DEFINE mm == [m EXCEPT !.sp = Down(Down(@))]
             nn == [n EXCEPT !.sp = Down(Down(@))]
             upper == Defined(from[1])
             lower == Defined(from[2])
             pushedM == WriteWord(mm, mm.sp, upper, lower)
             pushedN == WriteWord(nn, nn.sp, upper, lower)
  <1>1. Similar(mm, nn) /\ Sound(mm) /\ Sound(nn) /\ mm.sp = nn.sp /\ mm.sp \in Addr
    BY MovedSimilar
  <1>2. upper \in Checked /\ lower \in Checked /\ Alike(upper, upper) /\ Alike(lower, lower)
    BY AddrType, DefinedType DEF Alike
  <1> HIDE DEF mm, nn, upper, lower
  <1>3. Similar(pushedM, pushedN)
    BY <1>1, <1>2, WriteWordSimilar
  <1> HIDE DEF pushedM, pushedN
  <1>4. Similar([pushedM EXCEPT !.jump = to], [pushedN EXCEPT !.jump = to])
    BY <1>3, JumpSimilar
  <1> QED BY <1>3, <1>4, ThenSimilar DEF CALL_nn, pushedM, pushedN, mm, nn, upper, lower

LEMMA CallSound ==
  ASSUME NEW m, Sound(m), NEW from \in Addr, NEW to \in Addr
  PROVE  Sound(CALL_nn(m, from, to))
  <1> DEFINE mm == [m EXCEPT !.sp = Down(Down(@))]
             upper == Defined(from[1])
             lower == Defined(from[2])
             pushedM == WriteWord(mm, mm.sp, upper, lower)
  <1>1. Sound(mm) /\ mm.sp \in Addr
    BY PartsType, DownType, SpSound DEF Sound, Machine
  <1>2. upper \in Checked /\ lower \in Checked
    BY AddrType, DefinedType
  <1> HIDE DEF mm, upper, lower
  <1>3. Sound(pushedM)
    BY <1>1, <1>2, WriteWordSound
  <1> HIDE DEF pushedM
  <1> QED BY <1>3, JumpSound, ThenSound DEF CALL_nn, pushedM, mm, upper, lower

LEMMA ReturnSimilar ==
  ASSUME NEW m, NEW n, Start(m, n)
  PROVE  Similar(RET(m), RET(n))
  <1> DEFINE um == m.memory[Up(m.sp)]
             un == n.memory[Up(n.sp)]
             lm == m.memory[m.sp]
             ln == n.memory[n.sp]
             upM == [m EXCEPT !.sp = Up(Up(@))]
             upN == [n EXCEPT !.sp = Up(Up(@))]
             toM == <<um.data, lm.data>>
             toN == <<un.data, ln.data>>
             doneM == [upM EXCEPT !.jump = toM]
             doneN == [upN EXCEPT !.jump = toN]
             badM == um.undefined \/ lm.undefined
             badN == un.undefined \/ ln.undefined
  <1>1. /\ um \in Checked /\ un \in Checked /\ Alike(um, un) /\ um.undefined \in BOOLEAN
        /\ lm \in Checked /\ ln \in Checked /\ Alike(lm, ln) /\ lm.undefined \in BOOLEAN
    BY StartFacts, UpType
  <1> HIDE DEF um, un, lm, ln
  <1>2. toM \in Addr /\ toN \in Addr
    BY <1>1, CheckedType DEF Addr
  <1>3. badM \in BOOLEAN /\ badN \in BOOLEAN /\ badM = badN /\ (~badM => toM = toN)
    BY <1>1 DEF Alike
  <1> HIDE DEF toM, toN, badM, badN
  <1>4. Similar(upM, upN) /\ Sound(upM) /\ Sound(upN)
    <2>1. Up(Up(m.sp)) \in Addr /\ Up(Up(m.sp)) = Up(Up(n.sp))
      BY StartFacts, UpType
    <2>2. Similar([m EXCEPT !.sp = Up(Up(m.sp))], [n EXCEPT !.sp = Up(Up(n.sp))])
      BY <2>1, StartFacts, SpSimilar
    <2> QED BY <2>2, StartFacts DEF Similar, Sound, Machine
  <1>5. /\ doneM = [m EXCEPT !.sp = Up(Up(@)), !.jump = toM]
        /\ doneN = [n EXCEPT !.sp = Up(Up(@)), !.jump = toN]
    BY StartFacts DEF Sound, Machine
  <1> HIDE DEF upM, upN
  <1>6. Sound(doneM) /\ Sound(doneN) /\ (~badM => Similar(doneM, doneN))
    BY <1>2, <1>3, <1>4, JumpSound, JumpSimilar
  <1> HIDE DEF doneM, doneN
  <1>7. Similar(Use(m, badM, doneM), Use(n, badN, doneN))
    BY <1>3, <1>6, StartFacts, UseSimilar
  <1> QED BY <1>5, <1>7 DEF RET, um, un, lm, ln, toM, toN, badM, badN

-----------------------------------------------------------------------------
(* A & of alike values is well defined in both runs or in none; it is then    *)
(* the same byte, and bytes that are not alike are known to give 0.           *)
LEMMA AndAlike ==
  ASSUME NEW x \in Checked, NEW y \in Checked, NEW v \in Checked, NEW w \in Checked,
         Alike(x, v), Alike(y, w)
  PROVE  /\ IsWellDefined(x, y) \in BOOLEAN /\ IsWellDefined(x, y) = IsWellDefined(v, w)
         /\ IsWellDefined(x, y) => And(x.data, y.data) = And(v.data, w.data)
         /\ And(x.data, y.data) \in Byte
         /\ IsWellDefined(x, y) /\ And(x.data, y.data) # 0 => x.data = v.data /\ y.data = w.data
  BY CheckedType, AndAssumption DEF IsWellDefined, Alike

LEMMA InterruptSimilar ==
  ASSUME NEW m, NEW n, Start(m, n), NEW from \in Addr
  PROVE  Similar(HandleInterrupts(m, from), HandleInterrupts(n, from))
  <1> DEFINE em == m.memory[Enable]
             en == n.memory[Enable]
             rm == m.memory[Requested]
             rn == n.memory[Requested]
             tm == And(em.data, rm.data)
             tn == And(en.data, rn.data)
             xm == Defined(Result(rm.data, tm))
             xn == Defined(Result(rn.data, tn))
             servedM == [m EXCEPT !.memory[Requested] = xm]
             servedN == [n EXCEPT !.memory[Requested] = xn]
             nextM == IF tm = 0 THEN m ELSE CALL_nn(servedM, from, <<0, tm>>)
             nextN == IF tn = 0 THEN n ELSE CALL_nn(servedN, from, <<0, tn>>)
             good == IsWellDefined(em, rm)
             goodN == IsWellDefined(en, rn)
  <1>1. /\ em \in Checked /\ en \in Checked /\ Alike(em, en)
        /\ rm \in Checked /\ rn \in Checked /\ Alike(rm, rn)
        /\ Requested \in Addr
    BY StartFacts, DeviceAssumption
  <1> HIDE DEF em, en, rm, rn
  <1>2. /\ good \in BOOLEAN /\ goodN \in BOOLEAN /\ good = goodN
        /\ tm \in Byte /\ tn \in Byte /\ (good => tm = tn)
        /\ (good /\ tm # 0 => rm.data = rn.data)
    <2>1. tn \in Byte
      BY <1>1, CheckedType, AndAssumption
    <2> QED BY <1>1, <2>1, AndAlike
  <1> HIDE DEF good, goodN, tm, tn
  <1>3. /\ xm \in Checked /\ xn \in Checked /\ ~xm.undefined /\ ~xn.undefined
        /\ (good /\ tm # 0 => xm = xn)
    BY <1>1, <1>2, CheckedType, ResultAssumption, DefinedType
  <1> HIDE DEF xm, xn
  <1>4. Sound(servedM) /\ Sound(servedN)
    BY <1>1, <1>3, StartFacts, MemorySound
  <1>5. ASSUME good, tm # 0 PROVE Start(servedM, servedN)
    <2>1. Similar(servedM, servedN)
      BY <1>1, <1>3, <1>5, StartFacts, MemorySimilar DEF Alike
    <2>2. AlikeMachines(servedM, servedN)
      BY <1>1, <1>3, <1>5, StartFacts DEF AlikeMachines, Alike, Sound, Machine
    <2> QED BY <2>1, <2>2 DEF Start
  <1> HIDE DEF servedM, servedN
  <1>6. <<0, tm>> \in Addr /\ <<0, tn>> \in Addr
    BY <1>2, ZeroByte DEF Addr
  <1>7. Sound(nextM) /\ Sound(nextN)
    BY <1>4, <1>6, StartFacts, CallSound
  <1>8. good => Similar(nextM, nextN)
    BY <1>2, <1>5, <1>6, StartFacts, CallSimilar
  <1> HIDE DEF nextM, nextN
  <1>9. (~good) \in BOOLEAN /\ (~goodN) \in BOOLEAN /\ (~good) = (~goodN)
    BY <1>2
  <1>10. Similar(Use(m, ~good, nextM), Use(n, ~goodN, nextN))
    BY <1>7, <1>8, <1>9, StartFacts, UseSimilar
  <1> QED BY <1>10 DEF HandleInterrupts, em, en, rm, rn, tm, tn, xm, xn, servedM, servedN, nextM, nextN, good, goodN

-----------------------------------------------------------------------------
(* Arithmetic. *)
LEMMA AndSimilar ==
  ASSUME NEW m, NEW n, Start(m, n), NEW y \in Checked, NEW w \in Checked, Alike(y, w)
  PROVE  Similar(AND_n(m, y), AND_n(n, w))
  <1> DEFINE am == m.r["a"]
             an == n.r["a"]
             tm == And(am.data, y.data)
             tn == And(an.data, w.data)
             setM == SetR(m, "a", Defined(tm))
             setN == SetR(n, "a", Defined(tn))
             nextM == SetFlags(setM, tm, tm)
             nextN == SetFlags(setN, tn, tn)
             good == IsWellDefined(am, y)
             goodN == IsWellDefined(an, w)
  <1>1. am \in Checked /\ an \in Checked /\ Alike(am, an) /\ "a" \in Register
    BY StartFacts DEF Register
  <1> HIDE DEF am, an
  <1>2. /\ good \in BOOLEAN /\ goodN \in BOOLEAN /\ good = goodN
        /\ tm \in Byte /\ tn \in Byte /\ (good => tm = tn)
    BY <1>1, AndAlike, CheckedType, AndAssumption
  <1> HIDE DEF good, goodN, tm, tn
  <1>3. Sound(setM) /\ Sound(setN)
    BY <1>1, <1>2, StartFacts, SetRSound, DefinedType
  <1>4. good => Similar(setM, setN)
    BY <1>1, <1>2, StartFacts, SetRSimilar, DefinedType DEF Alike
  <1> HIDE DEF setM, setN
  <1>5. Sound(nextM) /\ Sound(nextN) /\ (good => Similar(nextM, nextN))
    BY <1>2, <1>3, <1>4, SetFlagsSound, SetFlagsSimilar
  <1> HIDE DEF nextM, nextN
  <1>6. (~good) \in BOOLEAN /\ (~goodN) \in BOOLEAN /\ (~good) = (~goodN)
    BY <1>2
  <1>7. Similar(Use(m, ~good, nextM), Use(n, ~goodN, nextN))
    BY <1>5, <1>6, StartFacts, UseSimilar
  <1> QED BY <1>7 DEF AND_n, am, an, tm, tn, setM, setN, nextM, nextN, good, goodN

LEMMA OperateSimilar ==
  ASSUME NEW m, NEW n, Start(m, n), NEW reg \in Register \ {"f"}, NEW x \in Checked, NEW y \in Checked,
         NEW v \in Checked, NEW w \in Checked, Alike(x, v), Alike(y, w)
  PROVE  /\ Similar(Operate(m, reg, x, y), Operate(n, reg, v, w))
         /\ Similar(CP_n(m, x, y), CP_n(n, v, w))
  <1> DEFINE xm == Defined(Result(x.data, y.data))
             xn == Defined(Result(v.data, w.data))
             setM == SetR(m, reg, xm)
             setN == SetR(n, reg, xn)
             bad == x.undefined \/ y.undefined
             badN == v.undefined \/ w.undefined
  <1>1. /\ bad \in BOOLEAN /\ badN \in BOOLEAN /\ bad = badN /\ (~bad => x.data = v.data /\ y.data = w.data)
        /\ x.data \in Byte /\ y.data \in Byte /\ v.data \in Byte /\ w.data \in Byte
    BY CheckedType DEF Alike
  <1>2. xm \in Checked /\ xn \in Checked /\ (~bad => Alike(xm, xn))
    BY <1>1, ResultAssumption, DefinedType DEF Alike
  <1> HIDE DEF xm, xn, bad, badN
  <1>3. Sound(setM) /\ Sound(setN) /\ (~bad => Similar(setM, setN))
    BY <1>2, StartFacts, SetRSound, SetRSimilar
  <1> HIDE DEF setM, setN
  <1>4. /\ Sound(SetFlags(setM, x.data, y.data)) /\ Sound(SetFlags(setN, v.data, w.data))
        /\ ~bad => Similar(SetFlags(setM, x.data, y.data), SetFlags(setN, v.data, w.data))
    BY <1>1, <1>3, SetFlagsSound, SetFlagsSimilar
  <1>5. Similar(Use(m, bad, SetFlags(setM, x.data, y.data)), Use(n, badN, SetFlags(setN, v.data, w.data)))
    BY <1>1, <1>4, StartFacts, UseSimilar
  <1>6. /\ Sound(SetFlags(m, x.data, y.data)) /\ Sound(SetFlags(n, v.data, w.data))
        /\ ~bad => Similar(SetFlags(m, x.data, y.data), SetFlags(n, v.data, w.data))
    BY <1>1, StartFacts, SetFlagsSound, SetFlagsSimilar
  <1>7. Similar(Use(m, bad, SetFlags(m, x.data, y.data)), Use(n, badN, SetFlags(n, v.data, w.data)))
    BY <1>1, <1>6, StartFacts, UseSimilar
  <1> QED BY <1>5, <1>7 DEF Operate, CP_n, xm, xn, setM, setN, bad, badN

LEMMA ComplementSimilar ==
  ASSUME NEW m, NEW n, Start(m, n)
  PROVE  Similar(CPL(m), CPL(n))
  <1> DEFINE am == m.r["a"]
             an == n.r["a"]
             presetM == SetR(m, "f", Defined(Preset(m.r["f"].data)))
             presetN == SetR(n, "f", Defined(Preset(n.r["f"].data)))
             xm == Defined(Result(am.data, am.data))
             xn == Defined(Result(an.data, an.data))
             nextM == SetR(presetM, "a", xm)
             nextN == SetR(presetN, "a", xn)
  <1>1. /\ am \in Checked /\ an \in Checked /\ Alike(am, an) /\ "a" \in Register
        /\ am.undefined \in BOOLEAN /\ an.undefined \in BOOLEAN /\ am.data \in Byte /\ an.data \in Byte
    BY StartFacts DEF Register
  <1>2. Similar(presetM, presetN) /\ Sound(presetM) /\ Sound(presetN)
    BY PresetSimilar DEF Similar
  <1> HIDE DEF am, an, presetM, presetN
  <1>3. xm \in Checked /\ xn \in Checked /\ (~am.undefined => Alike(xm, xn))
    BY <1>1, ResultAssumption, DefinedType DEF Alike
  <1> HIDE DEF xm, xn
  <1>4. Sound(nextM) /\ Sound(nextN) /\ (~am.undefined => Similar(nextM, nextN))
    BY <1>1, <1>2, <1>3, SetRSound, SetRSimilar
  <1> HIDE DEF nextM, nextN
  <1>5. Similar(Use(presetM, am.undefined, nextM), Use(presetN, an.undefined, nextN))
    BY <1>1, <1>2, <1>4, UseSimilar DEF Alike
  <1> QED BY <1>5 DEF CPL, am, an, presetM, presetN, xm, xn, nextM, nextN

-----------------------------------------------------------------------------
(* The inductive invariant: both machines are sound, and they are similar. *)
IInv ==
  /\ permitted \in BOOLEAN
  /\ machines \in [Run -> Machine]
  /\ Similar(machines[1], machines[2])

(* A step of both runs by one instruction that keeps pairs similar. *)
LEMMA StepFacts ==
  ASSUME IInv, Promised
  PROVE  Start(M(1), M(2))
  <1>1. AlikeMachines(machines[1], machines[2]) /\ Sound(machines[1]) /\ Sound(machines[2])
    BY DEF IInv, Promised, Similar, Run
  <1>2. Sound(M(1)) /\ Sound(M(2)) /\ AlikeMachines(M(1), M(2))
    BY <1>1 DEF M, Begin, Sound, Machine, AlikeMachines
  <1> QED BY <1>2 DEF Start, Similar

LEMMA Stepped ==
  ASSUME IInv, UNCHANGED permitted, machines' = [run \in Run |-> machines'[run]],
         Similar(machines'[1], machines'[2])
  PROVE  IInv'
  <1>1. machines'[1] \in Machine /\ machines'[2] \in Machine
    BY DEF Similar, Sound
  <1>2. machines' \in [Run -> Machine]
    BY <1>1 DEF Run
  <1>3. Similar(machines[1], machines[2])'
    BY DEF Similar, Sound
  <1> QED BY <1>2, <1>3 DEF IInv

LEMMA InitInvariant == Init => IInv
  <1> SUFFICES ASSUME Init PROVE IInv
    OBVIOUS
  <1>1. PICK registers \in [Register -> Byte], sp \in Addr, contents \in [Run -> [Addr -> Byte]] :
          /\ \A at \in Devices \cup {Enable} : contents[1][at] = contents[2][at]
          /\ machines = [run \in Run |-> PowerUp(registers, sp, contents[run])]
    BY DEF Init
  <1>2. contents[1] \in [Addr -> Byte] /\ contents[2] \in [Addr -> Byte]
    BY DEF Run
  <1>3. ASSUME NEW bytes \in [Addr -> Byte] PROVE Sound(PowerUp(registers, sp, bytes))
    BY DeviceAssumption DEF PowerUp, Sound, Machine, Checked, Defined, Register
  <1>4. machines[1] = PowerUp(registers, sp, contents[1]) /\ machines[2] = PowerUp(registers, sp, contents[2])
    BY <1>1 DEF Run
  <1>5. AlikeMachines(machines[1], machines[2])
    <2>1. \A reg \in Register : Alike(machines[1].r[reg], machines[2].r[reg])
      BY <1>4 DEF PowerUp, Alike
    <2>2. ASSUME NEW at \in Addr PROVE Alike(machines[1].memory[at], machines[2].memory[at])
      <3>1. machines[1].memory[at] = [data |-> contents[1][at], undefined |-> at \notin Devices \cup {Enable}]
        BY <1>4 DEF PowerUp
      <3>2. machines[2].memory[at] = [data |-> contents[2][at], undefined |-> at \notin Devices \cup {Enable}]
        BY <1>4 DEF PowerUp
      <3> DEFINE u == at \notin Devices \cup {Enable}
      <3>3. machines[1].memory[at].data = contents[1][at] /\ machines[1].memory[at].undefined = u
        BY <3>1
      <3>4. machines[2].memory[at].data = contents[2][at] /\ machines[2].memory[at].undefined = u
        BY <3>2
      <3>5. ~u => contents[1][at] = contents[2][at]
        BY <1>1
      <3> QED BY <3>3, <3>4, <3>5 DEF Alike
    <2> QED BY <1>4, <2>1, <2>2 DEF PowerUp, AlikeMachines
  <1>6. Sound(machines[1]) /\ Sound(machines[2])
    BY <1>2, <1>3, <1>4
  <1>7. machines \in [Run -> Machine]
    BY <1>1, <1>4, <1>6 DEF Sound, Run
  <1>8. permitted \in BOOLEAN
    BY DEF Init
  <1> QED BY <1>5, <1>6, <1>7, <1>8 DEF IInv, Similar

LEMMA StepInvariant == IInv /\ [Next]_vars => IInv'
  <1> SUFFICES ASSUME IInv, [Next]_vars PROVE IInv'
    OBVIOUS
  <1>0. CASE UNCHANGED vars
    BY <1>0 DEF IInv, vars, Similar, Sound
  <1>1. CASE Next
    <2>0. Promised /\ UNCHANGED permitted /\ Start(M(1), M(2))
      BY <1>1, StepFacts DEF Next
    <2>1. SUFFICES machines' = [run \in Run |-> machines'[run]] /\ Similar(machines'[1], machines'[2])
      BY <2>0, Stepped
    <2>2. CASE LoadByte
      <3>1. PICK reg \in {"a", "h", "l"} :
              \/ \E x \in Byte : machines' = [run \in Run |-> LD_r_n(M(run), reg, x)]
              \/ \E r2 \in {"a", "h", "l"} : machines' = [run \in Run |-> LD_r1_r2(M(run), reg, r2)]
              \/ \E at \in Addr : machines' = [run \in Run |-> LD_r_nn(M(run), reg, at)]
              \/ \E at \in Addr : machines' = [run \in Run |-> LD_nn_r(M(run), reg, at)]
              \/ machines' = [run \in Run |-> LD_r_HL(M(run), reg)]
              \/ machines' = [run \in Run |-> LD_HL_r(M(run), reg)]
        BY <2>2 DEF LoadByte
      <3>2. CASE \E x \in Byte : machines' = [run \in Run |-> LD_r_n(M(run), reg, x)]
        BY <2>0, <3>2, LoadByteSimilar DEF Run
      <3>3. CASE \E r2 \in {"a", "h", "l"} : machines' = [run \in Run |-> LD_r1_r2(M(run), reg, r2)]
        BY <2>0, <3>3, LoadByteSimilar DEF Run
      <3>4. CASE \E at \in Addr : machines' = [run \in Run |-> LD_r_nn(M(run), reg, at)]
        BY <2>0, <3>4, LoadByteSimilar DEF Run
      <3>5. CASE \E at \in Addr : machines' = [run \in Run |-> LD_nn_r(M(run), reg, at)]
        BY <2>0, <3>5, LoadByteSimilar DEF Run
      <3>6. CASE machines' = [run \in Run |-> LD_r_HL(M(run), reg)]
        BY <2>0, <3>6, LoadByteSimilar DEF Run
      <3>7. CASE machines' = [run \in Run |-> LD_HL_r(M(run), reg)]
        BY <2>0, <3>7, LoadByteSimilar DEF Run
      <3> QED BY <3>1, <3>2, <3>3, <3>4, <3>5, <3>6, <3>7
    <2>3. CASE LoadAndStep
      BY <2>0, <2>3, LoadAndStepSimilar DEF LoadAndStep, Run
    <2>4. CASE Word
      <3>1. ASSUME NEW x \in Byte,
                   \/ machines' = [run \in Run |-> ADD16_SP_n(M(run), x)]
                   \/ machines' = [run \in Run |-> LDHL_SP_n(M(run), x)]
            PROVE  machines' = [run \in Run |-> machines'[run]] /\ Similar(machines'[1], machines'[2])
        BY <2>0, <3>1, SumSimilar DEF Run
      <3>2. CASE machines' = [run \in Run |-> ADD16_HL_SP(M(run))]
        BY <2>0, <3>2, SumSimilar, ZeroByte DEF Run
      <3>3. ASSUME NEW at \in Addr, machines' = [run \in Run |-> LD_nn_SP(M(run), at)]
            PROVE  machines' = [run \in Run |-> machines'[run]] /\ Similar(machines'[1], machines'[2])
        <4>1. Similar(LD_nn_SP(M(1), at), LD_nn_SP(M(2), at))
          <5>1. M(1).sp = M(2).sp /\ M(1).sp \in Addr /\ Similar(M(1), M(2))
            BY <2>0, StartFacts
          <5>2. \A x \in Byte : Defined(x) \in Checked /\ Alike(Defined(x), Defined(x))
            BY DefinedType DEF Alike
          <5> QED BY <5>1, <5>2, AddrType, WriteWordSimilar DEF LD_nn_SP
        <4> QED BY <3>3, <4>1 DEF Run
      <3>4. CASE \/ machines' = [run \in Run |-> INC16_HL(M(run))]
                 \/ machines' = [run \in Run |-> DEC16_HL(M(run))]
                 \/ machines' = [run \in Run |-> LD16_SP_HL(M(run))]
                 \/ machines' = [run \in Run |-> JP_HL(M(run))]
        BY <2>0, <3>4, WordSimilar DEF Run
      <3> QED BY <2>4, <3>1, <3>2, <3>3, <3>4 DEF Word
    <2>5. CASE Stack
      <3>1. ASSUME NEW pair \in Pair,
                   \/ machines' = [run \in Run |-> PUSH(M(run), pair)]
                   \/ machines' = [run \in Run |-> POP(M(run), pair)]
            PROVE  machines' = [run \in Run |-> machines'[run]] /\ Similar(machines'[1], machines'[2])
        BY <2>0, <3>1, PushSimilar, PopSimilar DEF Run
      <3>2. ASSUME NEW from \in Addr, NEW to \in Addr,
                   machines' = [run \in Run |-> CALL_nn(M(run), from, to)]
            PROVE  machines' = [run \in Run |-> machines'[run]] /\ Similar(machines'[1], machines'[2])
        BY <2>0, <3>2, CallSimilar DEF Run
      <3>3. ASSUME NEW from \in Addr, machines' = [run \in Run |-> HandleInterrupts(M(run), from)]
            PROVE  machines' = [run \in Run |-> machines'[run]] /\ Similar(machines'[1], machines'[2])
        BY <2>0, <3>3, InterruptSimilar DEF Run
      <3>4. CASE machines' = [run \in Run |-> RET(M(run))]
        BY <2>0, <3>4, ReturnSimilar DEF Run
      <3> QED BY <2>5, <3>1, <3>2, <3>3, <3>4 DEF Stack
    <2>6. CASE Arithmetic
      <3>0. /\ {"a", "h", "l"} \subseteq Register \ {"f"}
            /\ \A x \in Byte : Defined(x) \in Checked /\ Alike(Defined(x), Defined(x))
        BY DefinedType DEF Register, Alike
      <3>1. ASSUME NEW reg \in {"a", "h", "l"},
                   \/ machines' = [run \in Run |-> AND_n(M(run), M(run).r[reg])]
                   \/ machines' = [run \in Run |-> Operate(M(run), "a", M(run).r["a"], M(run).r[reg])]
                   \/ machines' = [run \in Run |-> Operate(M(run), reg, M(run).r[reg], M(run).r[reg])]
                   \/ machines' = [run \in Run |-> CP_n(M(run), M(run).r["a"], M(run).r[reg])]
            PROVE  machines' = [run \in Run |-> machines'[run]] /\ Similar(machines'[1], machines'[2])
        <4>1. /\ M(1).r[reg] \in Checked /\ M(2).r[reg] \in Checked /\ Alike(M(1).r[reg], M(2).r[reg])
              /\ M(1).r["a"] \in Checked /\ M(2).r["a"] \in Checked /\ Alike(M(1).r["a"], M(2).r["a"])
          BY <2>0, <3>0, StartFacts
        <4>2. /\ Similar(AND_n(M(1), M(1).r[reg]), AND_n(M(2), M(2).r[reg]))
              /\ Similar(Operate(M(1), "a", M(1).r["a"], M(1).r[reg]), Operate(M(2), "a", M(2).r["a"], M(2).r[reg]))
              /\ Similar(Operate(M(1), reg, M(1).r[reg], M(1).r[reg]), Operate(M(2), reg, M(2).r[reg], M(2).r[reg]))
              /\ Similar(CP_n(M(1), M(1).r["a"], M(1).r[reg]), CP_n(M(2), M(2).r["a"], M(2).r[reg]))
          BY <2>0, <3>0, <4>1, AndSimilar, OperateSimilar
        <4> QED BY <3>1, <4>2 DEF Run
      <3>2. ASSUME NEW x \in Byte,
                   \/ machines' = [run \in Run |-> AND_n(M(run), Defined(x))]
                   \/ machines' = [run \in Run |-> Operate(M(run), "a", M(run).r["a"], Defined(x))]
            PROVE  machines' = [run \in Run |-> machines'[run]] /\ Similar(machines'[1], machines'[2])
        <4>1. M(1).r["a"] \in Checked /\ M(2).r["a"] \in Checked /\ Alike(M(1).r["a"], M(2).r["a"])
          BY <2>0, <3>0, StartFacts
        <4>2. /\ Similar(AND_n(M(1), Defined(x)), AND_n(M(2), Defined(x)))
              /\ Similar(Operate(M(1), "a", M(1).r["a"], Defined(x)), Operate(M(2), "a", M(2).r["a"], Defined(x)))
          BY <2>0, <3>0, <4>1, AndSimilar, OperateSimilar
        <4> QED BY <3>2, <4>2 DEF Run
      <3>3. CASE machines' = [run \in Run |-> CPL(M(run))]
        BY <2>0, <3>3, ComplementSimilar DEF Run
      <3> QED BY <2>6, <3>1, <3>2, <3>3 DEF Arithmetic
    <2> QED BY <1>1, <2>2, <2>3, <2>4, <2>5, <2>6 DEF Next
  <1> QED BY <1>0, <1>1 DEF vars

LEMMA Invariant == Spec => []IInv
  BY InitInvariant, StepInvariant, PTL DEF Spec

(* Every operation keeps registers, memory, SP and the target of a jump in    *)
(* their types; setU8, setU16, readU8 and writeU8 of all instructions.        *)
THEOREM TypeCorrect == Spec => []TypeOK
  <1>1. IInv => TypeOK
    BY DEF IInv, TypeOK
  <1> QED BY <1>1, Invariant, PTL

(* Machines that differ in undefined bytes alone report, jump and compute     *)
(* alike until a permitted report, through CheckedInt and throw_error.        *)
THEOREM Indistinguishability == Spec => []Indistinguishable
  <1>1. IInv => Indistinguishable
    BY DEF IInv, Indistinguishable, Promised, Similar, Run
  <1> QED BY <1>1, Invariant, PTL

(* The flags, POP AF included, and the bytes given to devices are defined.    *)
THEOREM OutsideStaysDefined == Spec => []OutsideIsDefined
  <1>1. IInv => OutsideIsDefined
    BY DEF IInv, OutsideIsDefined, Similar, Sound, Run
  <1> QED BY <1>1, Invariant, PTL
=============================================================================
