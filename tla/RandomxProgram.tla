---------------------------- MODULE RandomxProgram ----------------------------
(***************************************************************************)
(* The compilation of a RandomX program by the five back ends of           *)
(* crypto/randomx (the bytecode of the interpreter and the code generators *)
(* for x86, A64, RV64 and RV64 with vectors) and its execution.            *)
(*                                                                         *)
(* Each back end walks over the program once and keeps, per integer        *)
(* register, where it was last modified: a CBRANCH jumps back to just      *)
(* after the last modification of its register.  The interpreter and RV64  *)
(* remember an instruction's index, the others a position in the code,     *)
(* and an instruction may emit no code at all.  The x86 compiler also      *)
(* overwrites a CFROUND with NOPs when it meets another one and believes   *)
(* that no rounding happened in between; no other back end does.           *)
(*                                                                         *)
(* Code positions are counted in instructions that emit code; registers,   *)
(* immediates and operands appear only where control depends on them.      *)
(***************************************************************************)
EXTENDS Integers

CONSTANTS
  ProgramSize,   \* RandomX_CurrentConfig.ProgramSize: instructions in a program
  Registers,     \* the integer registers r0..r7
  HalfUnit,      \* 2^(shift - 1), where shift is the lowest bit that CBRANCH tests
  Fields         \* 2^JumpBits: the number of values of the tested bits

ASSUME RandomxAssumption ==
  /\ ProgramSize \in Nat
  /\ HalfUnit \in Nat \ {0}
  /\ Fields \in Nat \ {0, 1}

\* An instruction, as far as control flow and rounding go: the kind of its
\* operation and the integer registers that it modifies.
\*   arith    the integer instructions; ISWAP_R modifies two registers, and
\*            an ISWAP_R with itself and an IMUL_RCP by zero or by a power
\*            of two are arith on no register, for which nothing is emitted
\*   rotate   IROR_R or IROL_R by an immediate 0, for which A64 emits nothing
\*   fp       FADD, FSUB, FMUL, FDIV_M and FSQRT_R: they round
\*   plain    FSWAP_R, FSCAL_R, ISTORE, NOP: no register, no rounding
Instructions ==
  [op : {"arith"}, regs : {{}} \cup {{r, s} : r, s \in Registers}]
    \cup [op : {"rotate", "branch"}, regs : {{r} : r \in Registers}]
    \cup [op : {"fp", "cfround", "plain"}, regs : {{}}]

NotCompiled == [op |-> "plain", regs |-> {}]

VARIABLES
  tweak,      \* RandomX_CurrentConfig.Tweak_V2_CFROUND: CFROUND is conditional
  program,    \* the program; instructions from `size' on are not read yet
  size,       \* the number of instructions compiled so far
  bytecode,   \* the interpreter: registerUsage and ibc.target
  rv64,       \* RV64: registerUsage, instructionOffsets, codePos, target
  x86,        \* x86: registerUsage, start of each instruction, codePos, target
  a64,        \* A64: the same with reg_changed_offset
  vector,     \* RV64 with vectors: the same with last_modified and p
  rounding,   \* x86: prevCFROUND, prevFPOperation and the CFROUNDs overwritten
  pc,         \* the next instruction to execute
  loop,       \* the register of a branch that was just taken, and its low bits
  same        \* the x86 code has the rounding mode that the interpreter has

vars == <<tweak, program, size, bytecode, rv64, x86, a64, vector, rounding,
          pc, loop, same>>

compiler == <<bytecode, rv64, x86, a64, vector, rounding>>

Index == 0 .. ProgramSize - 1
Unknown == [reg |-> {}, low |-> 0]     \* nothing is known of any register

-----------------------------------------------------------------------------
(* Compilation.  Every back end marks the registers that an instruction    *)
(* modifies; a CBRANCH reads the mark of its register and marks all.       *)

MarksFaulty(ins) == ins.regs                  \* CBRANCH does not mark all
Marks(ins)       == IF ins.op = "branch" THEN Registers ELSE ins.regs

\* The code that ins emits: one unit or none.
Emits(ins)    == IF ins.op = "arith" /\ ins.regs = {} THEN 0 ELSE 1
A64Emits(ins) == IF ins.op = "rotate" THEN 0 ELSE Emits(ins)

Marked(usage, ins, mark) ==
  [r \in Registers |-> IF r \in Marks(ins) THEN mark ELSE usage[r]]

\* The mark of the register of a branch.  (Other instructions: no target.)
TargetOf(usage, ins) ==
  IF ins.op = "branch" THEN usage[CHOOSE r \in Registers : r \in ins.regs] ELSE 0

\* BytecodeMachine: marks and target are indices; execution goes on after it.
Bytecode(ins) ==
  bytecode' = [usage  |-> Marked(bytecode.usage, ins, size),
               target |-> [bytecode.target EXCEPT ![size] =
                                              TargetOf(bytecode.usage, ins)]]

\* JitCompilerRV64: marks are indices, instructionOffsets turns them into code
Rv64(ins) ==
  LET start == [rv64.start EXCEPT ![size] = rv64.pos]
      usage == TargetOf(rv64.usage, ins)
  IN rv64' = [usage  |-> Marked(rv64.usage, ins, size),
              start  |-> start,
              pos    |-> rv64.pos + Emits(ins),
              target |-> [rv64.target EXCEPT ![size] =
                            IF ins.op = "branch" THEN start[usage + 1] ELSE 0]]

\* JitCompilerX86, JitCompilerA64, the vector code: marks are the position after the code
Generated(jit, ins, length) ==
  [usage  |-> Marked(jit.usage, ins, jit.pos + length),
   start  |-> [jit.start EXCEPT ![size] = jit.pos],
   pos    |-> jit.pos + length,
   target |-> [jit.target EXCEPT ![size] = TargetOf(jit.usage, ins)]]

X86(ins) == x86' = Generated(x86, ins, Emits(ins))

\* JitCompilerX86: the bookkeeping of rounding.
FpOperation == rounding' = [rounding EXCEPT !.prevFPOperation = x86.pos]

CfRound ==
  LET t == rounding.prevCFROUND
  IN rounding' =
       [rounding EXCEPT
          !.prevCFROUND = x86.pos,
          !.dropped = IF t > rounding.prevFPOperation /\ ~tweak
                      THEN @ \cup {t} ELSE @]

BranchOverFaulty(ins) == UNCHANGED rounding   \* the jump back is forgotten
BranchOver(ins) ==
  rounding' = IF TargetOf(x86.usage, ins) <= rounding.prevFPOperation
              THEN [rounding EXCEPT !.prevFPOperation = x86.pos]
              ELSE rounding

Rounding(ins) ==
  \/ ins.op = "fp"      /\ FpOperation
  \/ ins.op = "cfround" /\ CfRound
  \/ ins.op = "branch"  /\ BranchOver(ins)
  \/ ins.op \in {"arith", "rotate", "plain"} /\ UNCHANGED rounding

A64(ins) == a64' = Generated(a64, ins, A64Emits(ins))

\* generateProgramVectorRV64
Vector(ins) == vector' = Generated(vector, ins, Emits(ins))

Compile ==
  /\ size < ProgramSize
  /\ \E ins \in Instructions :
       /\ program' = [program EXCEPT ![size] = ins]
       /\ Bytecode(ins) /\ Rv64(ins) /\ X86(ins) /\ A64(ins) /\ Vector(ins) /\ Rounding(ins)
  /\ size' = size + 1
  /\ UNCHANGED <<tweak, pc, loop, same>>

-----------------------------------------------------------------------------
(* Execution, by the interpreter and by the x86 code in step.              *)

Compiled == size = ProgramSize

\* CBRANCH adds an immediate to its register: bit `shift' of the immediate is
\* set and the bit below is clear, so that the low part (below `shift') grows
\* by less than HalfUnit and the tested field by an odd number.
LowBits == 0 .. 2 * HalfUnit - 1
ImmLow == 0 .. HalfUnit - 1
ImmFieldFaulty == 0 .. Fields - 1             \* bit `shift' is not set
ImmField       == {f \in 0 .. Fields - 1 : f % 2 = 1}

Carry(low, imm) == IF low + imm >= 2 * HalfUnit THEN 1 ELSE 0
LowAfter(low, imm) == low + imm - 2 * HalfUnit * Carry(low, imm)
FieldAfter(low, field, imm, f) == (field + f + Carry(low, imm)) % Fields

\* What is known of the registers after ins: nothing of a modified one.
Kept(ins) == IF loop.reg \cap ins.regs = {} THEN loop ELSE Unknown

Branch(ins) ==
  \E imm \in ImmLow, f \in ImmField, low \in LowBits, field \in 0 .. Fields - 1 :
    /\ loop.reg = ins.regs => low = loop.low /\ field = 0
    /\ IF FieldAfter(low, field, imm, f) = 0
       THEN /\ pc' = bytecode.target[pc] + 1
            /\ loop' = [reg |-> ins.regs, low |-> LowAfter(low, imm)]
       ELSE /\ pc' = pc + 1
            /\ loop' = Unknown
    /\ UNCHANGED same

\* The interpreter takes the new mode; the x86 code does if the CFROUND is
\* still there.  Tweak_V2_CFROUND makes CFROUND depend on its operand.
SetMode ==
  /\ \/ same' = (x86.start[pc] \notin rounding.dropped)
     \/ tweak /\ same' = same
  /\ UNCHANGED loop
  /\ pc' = pc + 1

Execute ==
  /\ Compiled /\ pc < ProgramSize
  /\ LET ins == program[pc]
     IN \/ ins.op = "branch"  /\ Branch(ins)
        \/ ins.op = "cfround" /\ SetMode
        \/ /\ ins.op \notin {"branch", "cfround"}
           /\ loop' = Kept(ins)
           /\ pc' = pc + 1
           /\ UNCHANGED same
  /\ UNCHANGED <<tweak, program, size, compiler>>

\* The next of the ProgramIterations rounds: the registers are loaded anew,
\* the rounding mode stays.
Iterate ==
  /\ Compiled /\ pc = ProgramSize
  /\ pc' = 0
  /\ loop' = Unknown
  /\ UNCHANGED <<tweak, program, size, compiler, same>>

-----------------------------------------------------------------------------
Zero == [i \in Index |-> 0]

Init ==
  /\ tweak \in BOOLEAN
  /\ program = [i \in Index |-> NotCompiled]
  /\ size = 0
  /\ bytecode = [usage |-> [r \in Registers |-> -1], target |-> Zero]
  /\ rv64 = [usage |-> [r \in Registers |-> -1], start |-> Zero, pos |-> 0,
             target |-> Zero]
  /\ x86 = [usage |-> [r \in Registers |-> 0], start |-> Zero, pos |-> 0,
            target |-> Zero]
  /\ a64 = x86 /\ vector = x86
  /\ rounding = [prevCFROUND |-> -1, prevFPOperation |-> -1, dropped |-> {}]
  /\ pc = 0
  /\ loop = Unknown
  /\ same = TRUE

Next == Compile \/ Execute \/ Iterate

Spec == Init /\ [][Next]_vars /\ WF_vars(Next)

-----------------------------------------------------------------------------
TypeOK ==
  /\ tweak \in BOOLEAN
  /\ program \in [Index -> Instructions]
  /\ size \in 0 .. ProgramSize
  /\ bytecode \in [usage : [Registers -> Int], target : [Index -> Int]]
  /\ rv64 \in [usage : [Registers -> Int], start : [Index -> Int],
               pos : Int, target : [Index -> Int]]
  /\ x86 \in [usage : [Registers -> Int], start : [Index -> Int],
              pos : Int, target : [Index -> Int]]
  /\ a64 \in [usage : [Registers -> Int], start : [Index -> Int],
              pos : Int, target : [Index -> Int]]
  /\ vector \in [usage : [Registers -> Int], start : [Index -> Int],
                 pos : Int, target : [Index -> Int]]
  /\ pc \in 0 .. ProgramSize
  /\ same \in BOOLEAN

\* The position at which instruction j starts, or will start
StartOf(jit, j) == IF j = size THEN jit.pos ELSE jit.start[j]

\* Where a branch on r at index i goes when instruction `from' is the first
\* one that it repeats: no instruction it repeats modifies r, and none is a
\* branch, so that loops never nest.
Repeats(from, i, r) ==
  \A j \in from .. i - 1 : r \notin program[j].regs /\ program[j].op # "branch"

(***************************************************************************)
(* The five back ends agree on the target of every CBRANCH, although they  *)
(* compute it from indices, from offsets and from code positions, and no   *)
(* instruction that the branch repeats modifies its register.  A hash      *)
(* depends on it, and a loop whose register changed might never end.       *)
(***************************************************************************)
TargetsAgree ==
  \A i \in 0 .. size - 1 : program[i].op = "branch" =>
    LET from == bytecode.target[i] + 1
    IN /\ from \in 0 .. i
       /\ rv64.target[i] = rv64.start[from]
       /\ x86.target[i] = x86.start[from]
       /\ a64.target[i] = a64.start[from]
       /\ vector.target[i] = vector.start[from]
       /\ \A r \in program[i].regs : Repeats(from, i, r)

(***************************************************************************)
(* Every instruction that rounds does so in the mode that the interpreter  *)
(* uses, although the x86 compiler removed CFROUNDs: also when a branch    *)
(* goes back over them, and in the next iteration of the program.          *)
(***************************************************************************)
RoundingAgrees ==
  Compiled /\ pc < ProgramSize /\ program[pc].op = "fp" => same

(***************************************************************************)
(* Every round of a program comes to its end: a branch is not taken for    *)
(* ever, whatever the registers and the immediates are.                    *)
(***************************************************************************)
IterationEnds == size > 0 ~> Compiled /\ pc = ProgramSize

=============================================================================
