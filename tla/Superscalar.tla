----------------------------- MODULE Superscalar -----------------------------
(***************************************************************************)
(* The generator of SuperscalarHash programs, crypto/randomx/superscalar.  *)
(*                                                                         *)
(* It plays a processor that decodes 16 bytes of code each cycle: it picks *)
(* a division of the 16 bytes into slots, fills the slots with macro-ops   *)
(* of random instructions, and places their micro-ops on three ports at    *)
(* the first cycle at which operands and a port are free.                  *)
(*                                                                         *)
(* What the random generator returns is any value.  Immediates and shifts  *)
(* are left out: they decide nothing.                                      *)
(***************************************************************************)
EXTENDS Integers, Sequences, FiniteSetsExt

CONSTANTS
  Latency,        \* RandomX_CurrentConfig.SuperscalarLatency
  Regs, Displaced,    \* r0..r7, and r5 among them: RegisterNeedsDisplacement
  LookForward,    \* LOOK_FORWARD_CYCLES
  MaxThrowaway,   \* MAX_THROWAWAY_COUNT
  Draws           \* values of the 32 random bits kept as parameter of IMULH

NoReg == -1

ASSUME SuperscalarAssumption ==
  /\ Latency \in Nat /\ LookForward \in Nat /\ MaxThrowaway \in Nat
  /\ Displaced \in Regs /\ NoReg \notin Regs

-----------------------------------------------------------------------------
(* Macro-ops, instructions and the divisions of the 16 bytes.              *)

Mop(size, latency, uops) == [size |-> size, latency |-> latency, uops |-> uops, dependent |-> FALSE]

P015 == {"P0", "P1", "P5"}

Alu3     == Mop(3, 1, <<P015>>)             \* sub, xor
Lea_sib  == Mop(4, 1, <<{"P0", "P1"}>>)
Ror_ri   == Mop(4, 1, <<{"P0", "P5"}>>)
Alu7     == Mop(7, 1, <<P015>>)             \* add, xor with an immediate
Imul_rr  == Mop(4, 3, <<{"P1"}>>)
Mul_r    == Mop(3, 4, <<{"P1"}, {"P5"}>>)   \* mul, imul
Mov_rr   == Mop(3, 0, << >>)                \* eliminated
Mov_ri64 == Mop(10, 1, <<P015>>)
Imul_dep == [size |-> 4, latency |-> 3, uops |-> <<{"P1"}>>, dependent |-> TRUE]

\* The micro-ops it decodes to: a move that needs no port is still decoded.
MicroOps(mop) == IF Len(mop.uops) = 0 THEN 1 ELSE Len(mop.uops)

\* ops; which of them needs the source, the destination, and writes the result
\* (0: none); the group that may not be repeated.
Info(ops, src, dst, result, group) ==
  [ops |-> ops, srcOp |-> src, dstOp |-> dst, resultOp |-> result, group |-> group]

InfoOf ==
  [ ISUB_R   |-> Info(<<Alu3>>, 1, 1, 1, "IADD_RS"),
    IXOR_R   |-> Info(<<Alu3>>, 1, 1, 1, "IXOR_R"),
    IADD_RS  |-> Info(<<Lea_sib>>, 1, 1, 1, "IADD_RS"),
    IMUL_R   |-> Info(<<Imul_rr>>, 1, 1, 1, "IMUL_R"),
    IROR_C   |-> Info(<<Ror_ri>>, 0, 1, 1, "IROR_C"),
    IADD_C   |-> Info(<<Alu7>>, 0, 1, 1, "IADD_C7"),
    IXOR_C   |-> Info(<<Alu7>>, 0, 1, 1, "IXOR_C7"),
    IMULH_R  |-> Info(<<Mov_rr, Mul_r, Mov_rr>>, 2, 1, 2, "IMULH_R"),
    ISMULH_R |-> Info(<<Mov_rr, Mul_r, Mov_rr>>, 2, 1, 2, "ISMULH_R"),
    IMUL_RCP |-> Info(<<Mov_ri64, Imul_dep>>, 0, 2, 2, "IMUL_RCP"),
    INVALID  |-> Info(<< >>, 0, 0, 0, "INVALID") ]

High           == {"IMULH_R", "ISMULH_R"}
Multiplication == High \cup {"IMUL_R", "IMUL_RCP"}
FromSource     == {"ISUB_R", "IXOR_R", "IADD_RS", "IMUL_R"}    \* groupParIsSource_

B484  == <<4, 8, 4>>
B7333 == <<7, 3, 3, 3>>
B3733 == <<3, 7, 3, 3>>
B493  == <<4, 9, 3>>
B4444 == <<4, 4, 4, 4>>
B3310 == <<3, 3, 10>>

VARIABLES
  at,            \* "fetch": the head of the outer loop; "fill", "place"; "done"
  buffer, slot,  \* decodeBuffer, << >> for Default, and bufferIndex + 1
  instr,         \* currentInstruction
  op,            \* macroOpIndex + 1
  busy,          \* portBusy: pairs of a cycle and a port
  ready, lastOp, \* RegisterInfo: latency; lastOpGroup and lastOpPar
  cycle, topCycle, when,     \* when is scheduleCycle
  depCycle, decodeCycle, saturated, throwAways, programSize, mulCount,
  decoded,       \* history: micro-ops decoded from this buffer
  hasty          \* history: instructions that were executed before an operand was ready

superVars == <<at, buffer, slot, instr, op, busy, ready, lastOp, cycle, topCycle, when, depCycle,
               decodeCycle, saturated, throwAways, programSize, mulCount, decoded, hasty>>

placement == <<busy, ready, lastOp, depCycle, mulCount, programSize, decoded, hasty>>

\* A program has room for an instruction of each port and cycle, and two more.
MaxSize == 3 * Latency + 2
Horizon == Latency + 3               \* the last cycle of portBusy that is used
Null == [kind |-> "INVALID", src |-> NoReg, dst |-> NoReg, par |-> 0]

InstrInfo == InfoOf[instr.kind]
Issued == op > Len(InstrInfo.ops)    \* all macro-ops of the instruction are

-----------------------------------------------------------------------------
(* The outer loop: a decode cycle for each buffer.                         *)

\* DecoderBuffer::fetchNext
NextBuffersFaulty ==                 \* multiplications are caught up with first
  IF mulCount < decodeCycle + 1 THEN {B4444}
  ELSE IF instr.kind \in High THEN {B3310}
  ELSE IF instr.kind = "IMUL_RCP" THEN {B484, B493}
  ELSE {B484, B7333, B3733, B493}
NextBuffers ==
  IF instr.kind \in High THEN {B3310}
  ELSE IF mulCount < decodeCycle + 1 THEN {B4444}
  ELSE IF instr.kind = "IMUL_RCP" THEN {B484, B493}
  ELSE {B484, B7333, B3733, B493}

Fetch ==
  /\ at = "fetch"
  /\ decodeCycle < Latency /\ ~saturated /\ programSize < MaxSize
  /\ buffer' \in NextBuffers
  /\ slot' = 1 /\ decoded' = 0
  /\ at' = "fill"
  /\ UNCHANGED <<instr, op, busy, ready, lastOp, cycle, topCycle, when, depCycle, decodeCycle,
                 saturated, throwAways, programSize, mulCount, hasty>>

Finish ==
  /\ at = "fetch"
  /\ decodeCycle >= Latency \/ saturated \/ programSize >= MaxSize
  /\ at' = "done"
  /\ UNCHANGED <<buffer, slot, instr, op, placement, cycle, topCycle, when, decodeCycle,
                 saturated, throwAways>>

\* The inner loop goes on, or the buffer is full.
GoOn(c) ==
  IF slot' > Len(buffer)
  THEN at' = "fetch" /\ cycle' = c + 1 /\ decodeCycle' = decodeCycle + 1
  ELSE at' = "fill" /\ cycle' = c /\ UNCHANGED decodeCycle

\* break
Break ==
  /\ at' = "fetch" /\ cycle' = cycle + 1 /\ decodeCycle' = decodeCycle + 1
  /\ when' = 0
  /\ UNCHANGED <<buffer, slot, op, placement, topCycle>>

Saturate ==
  /\ saturated' = TRUE
  /\ Break

-----------------------------------------------------------------------------
(* The inner loop: a macro-op for each slot.                               *)

\* SuperscalarInstruction::createForSlot
ForSlot ==
  LET size == buffer[slot]
      isLast == slot = Len(buffer)
  IN CASE size = 3 -> {"ISUB_R", "IXOR_R"} \cup (IF isLast THEN High ELSE {})
       [] size = 4 -> IF buffer = B4444 /\ ~isLast THEN {"IMUL_R"} ELSE {"IROR_C", "IADD_RS"}
       [] size \in {7, 8, 9} -> {"IADD_C", "IXOR_C"}
       [] size = 10 -> {"IMUL_RCP"}

Create ==
  /\ at = "fill" /\ Issued
  /\ ~saturated /\ programSize < MaxSize
  /\ \E kind \in ForSlot :
       \E par \in (IF kind \in High THEN Draws ELSE {-1}) :
         instr' = [kind |-> kind, src |-> NoReg, dst |-> NoReg, par |-> par]
  /\ op' = 1
  /\ UNCHANGED <<at, buffer, slot, placement, cycle, topCycle, when, decodeCycle, saturated, throwAways>>

CreateNoMore ==
  /\ at = "fill" /\ Issued
  /\ saturated \/ programSize >= MaxSize
  /\ Break
  /\ UNCHANGED <<instr, saturated, throwAways>>

\* scheduleMop and scheduleUop: the first cycle with free ports for all
\* micro-ops, or a number beyond the horizon.
Fits(mop, c) == \A u \in DOMAIN mop.uops : \E port \in mop.uops[u] : <<c, port>> \notin busy

Schedule(mop, c) ==
  IF mop.uops = << >> THEN c
  ELSE Min({n \in c..Horizon : Fits(mop, n)} \cup {Max({c, Horizon + 1})})

Fails(mop, c) == mop.uops # << >> /\ c > Horizon

\* The port a micro-op takes: P5, then P0, then P1.
PortFor(uop, c) ==
  CHOOSE port \in uop :
    /\ <<c, port>> \notin busy
    /\ port = "P0" => "P5" \notin uop \/ <<c, "P5">> \in busy
    /\ port = "P1" => \A q \in uop \ {"P1"} : <<c, q>> \in busy

Ready(c) == {r \in Regs : ready[r] <= c}

\* selectSource: r5 cannot be the destination of IADD_RS.
Sources(c) ==
  IF instr.kind = "IADD_RS" /\ Cardinality(Ready(c)) = 2 /\ Displaced \in Ready(c)
  THEN {Displaced} ELSE Ready(c)

\* selectDestination
Destinations(c) ==
  {r \in Ready(c) :
     /\ instr.kind \in High \/ r # instr.src
     /\ throwAways > 0 \/ instr.kind # "IMUL_R" \/ lastOp[r].group # "IMUL_R"
     /\ lastOp[r] # [group |-> InstrInfo.group, par |-> instr.par]
     /\ instr.kind = "IADD_RS" => r # Displaced}

\* How long to wait for a register: the next cycles that have any to select from.
SourceWaits(c) == {n \in 0..(LookForward - 1) : Sources(c + n) # {}}
DestinationWaits(c) == {n \in 0..(LookForward - 1) : Destinations(c + n) # {}}

\* No register in sight: the instruction is thrown away, its slot is filled
\* anew; after too many attempts the buffer is given up.
ThrowAway ==
  /\ throwAways < MaxThrowaway
  /\ throwAways' = throwAways + 1
  /\ op' = Len(InstrInfo.ops) + 1
  /\ cycle' = cycle + LookForward
  /\ at' = "fill"
  /\ when' = 0
  /\ UNCHANGED <<buffer, slot, instr, placement, topCycle, decodeCycle, saturated>>

GiveUp ==
  /\ throwAways >= MaxThrowaway
  /\ instr' = Null
  /\ at' = "fetch" /\ cycle' = cycle + LookForward + 1 /\ decodeCycle' = decodeCycle + 1
  /\ when' = 0
  /\ UNCHANGED <<buffer, slot, op, placement, topCycle, saturated, throwAways>>

\* When the macro-op can be scheduled, and a source that is ready then.
Source ==
  LET mop   == InstrInfo.ops[op]
      first == Schedule(mop, IF mop.dependent THEN Max({cycle, depCycle}) ELSE cycle)
      wait  == SourceWaits(first)
  IN /\ at = "fill" /\ ~Issued
     /\ \/ Fails(mop, first) /\ Saturate /\ UNCHANGED <<instr, throwAways>>
        \/ /\ ~Fails(mop, first) /\ op # InstrInfo.srcOp
           /\ at' = "place" /\ when' = first /\ topCycle' = cycle
           /\ UNCHANGED <<buffer, slot, instr, op, placement, cycle, decodeCycle, saturated, throwAways>>
        \/ /\ ~Fails(mop, first) /\ op = InstrInfo.srcOp /\ wait # {}
           /\ \E r \in Sources(first + Min(wait)) :
                instr' = [instr EXCEPT !.src = r, !.par = IF instr.kind \in FromSource THEN r ELSE @]
           /\ at' = "place" /\ when' = first + Min(wait)
           /\ cycle' = cycle + Min(wait) /\ topCycle' = cycle
           /\ UNCHANGED <<buffer, slot, op, placement, decodeCycle, saturated, throwAways>>
        \/ /\ ~Fails(mop, first) /\ op = InstrInfo.srcOp /\ wait = {}
           /\ ThrowAway \/ GiveUp

\* The macro-op is placed at cycle n, and its result noted.
Issue(mop, n, dst) ==
  LET last == op = Len(InstrInfo.ops)
  IN /\ busy' = busy \cup {<<n, PortFor(mop.uops[u], n)>> : u \in DOMAIN mop.uops}
     /\ depCycle' = n + mop.latency
     /\ IF op = InstrInfo.resultOp
        THEN /\ ready' = [ready EXCEPT ![dst] = n + mop.latency]
             /\ lastOp' = [lastOp EXCEPT ![dst] = [group |-> InstrInfo.group, par |-> instr.par]]
             /\ hasty' = IF \E r \in {dst, instr.src} \cap Regs : ready[r] > n
                         THEN hasty \cup {instr.kind} ELSE hasty
        ELSE UNCHANGED <<ready, lastOp, hasty>>
     /\ decoded' = decoded + MicroOps(mop)
     /\ slot' = slot + 1 /\ op' = op + 1
     /\ saturated' = (saturated \/ n >= Latency)
     /\ programSize' = IF last THEN programSize + 1 ELSE programSize
     /\ mulCount' = IF last /\ instr.kind \in Multiplication THEN mulCount + 1 ELSE mulCount
     /\ GoOn(topCycle)
     /\ when' = 0
     /\ UNCHANGED <<buffer, topCycle>>

\* The macro-op's ports are searched for again: its operands may have to be waited for.
CommitFaulty(c, dst) ==              \* the search starts at topCycle
  LET mop == InstrInfo.ops[op]
      n   == Schedule(mop, topCycle)
  IN /\ throwAways' = 0
     /\ instr' = [instr EXCEPT !.dst = dst]
     /\ IF Fails(mop, n) THEN Saturate ELSE Issue(mop, n, dst)
Commit(c, dst) ==
  LET mop == InstrInfo.ops[op]
      n   == Schedule(mop, c)
  IN /\ throwAways' = 0
     /\ instr' = [instr EXCEPT !.dst = dst]
     /\ IF Fails(mop, n) THEN Saturate ELSE Issue(mop, n, dst)

Place ==
  LET wait == DestinationWaits(when)
  IN /\ at = "place"
     /\ \/ op # InstrInfo.dstOp /\ Commit(when, instr.dst)
        \/ /\ op = InstrInfo.dstOp /\ wait # {}
           /\ \E r \in Destinations(when + Min(wait)) : Commit(when + Min(wait), r)
        \/ op = InstrInfo.dstOp /\ wait = {} /\ (ThrowAway \/ GiveUp)

-----------------------------------------------------------------------------

SuperInit ==
  /\ at = "fetch" /\ buffer = << >> /\ slot = 1 /\ instr = Null /\ op = 1
  /\ busy = {} /\ ready = [r \in Regs |-> 0]
  /\ lastOp = [r \in Regs |-> [group |-> "INVALID", par |-> -1]]
  /\ cycle = 0 /\ topCycle = 0 /\ when = 0 /\ depCycle = 0 /\ decodeCycle = 0
  /\ saturated = FALSE /\ throwAways = 0 /\ programSize = 0 /\ mulCount = 0
  /\ decoded = 0 /\ hasty = {}

SuperDone == at = "done" /\ UNCHANGED superVars

SuperNext == Fetch \/ Create \/ CreateNoMore \/ Source \/ Place \/ Finish \/ SuperDone

SuperSpec == SuperInit /\ [][SuperNext]_superVars

-----------------------------------------------------------------------------

\* Every macro-op fits its slot, with a NOP in slots of 8 and 9 bytes only, though
\* all but the first of an instruction come in the next buffer; and a buffer
\* decodes to four micro-ops at most.
Decodable ==
  /\ at \in {"fill", "place"} /\ ~Issued =>
       \/ InstrInfo.ops[op].size = buffer[slot]
       \/ InstrInfo.ops[op].size = 7 /\ buffer[slot] \in {8, 9}
  /\ decoded <= 4

\* An instruction is executed when its operands are ready, though the destination
\* of IMULH is selected with its first macro-op and multiplied by the second, whose
\* cycle is searched for anew from that of the next buffer.
OperandsReady == hasty = {}
=============================================================================
