------------------------ MODULE RandomxProgram_proofs ------------------------
(***************************************************************************)
(* For programs of any size over any set of registers: the back ends agree *)
(* on every branch, the x86 compiler removes a CFROUND only where nothing  *)
(* can round in its mode, and a branch is taken at most twice in a row.    *)
(***************************************************************************)
EXTENDS RandomxProgram, TLAPS

Jits == [usage : [Registers -> Int], start : [Index -> Int],
         pos : Int, target : [Index -> Int]]

-----------------------------------------------------------------------------
(* The inductive invariant.                                                *)

\* The marks mean the same in all back ends, and what comes after the mark of
\* a register leaves it alone.
MarksAgree ==
  \A r \in Registers :
    /\ bytecode.usage[r] \in -1 .. size - 1
    /\ rv64.usage[r] = bytecode.usage[r]
    /\ x86.usage[r] = StartOf(x86, bytecode.usage[r] + 1)
    /\ a64.usage[r] = StartOf(a64, bytecode.usage[r] + 1)
    /\ Repeats(bytecode.usage[r] + 1, size, r)

\* Later instructions have later code.
InOrder ==
  \A j, k \in 0 .. size : j <= k => StartOf(x86, j) <= StartOf(x86, k)

\* prevFPOperation is at or behind every instruction that rounds, and behind
\* every branch that jumps over one.
FpKnown ==
  \A j \in 0 .. size - 1 :
    /\ program[j].op = "fp" => x86.start[j] <= rounding.prevFPOperation
    /\ program[j].op = "branch" =>
         \/ x86.start[j] <= rounding.prevFPOperation
         \/ x86.target[j] > rounding.prevFPOperation

\* From p on, execution meets a CFROUND before anything that rounds, wherever
\* the branches on the way go.
Covered(p) ==
  \E e \in p .. size - 1 :
    /\ program[e].op = "cfround"
    /\ \A j \in p .. e - 1 :
         /\ program[j].op # "fp"
         /\ program[j].op = "branch" =>
              \A k \in bytecode.target[j] + 1 .. j : program[k].op # "fp"

DroppedCovered ==
  /\ rounding.prevCFROUND < x86.pos
  /\ \A t \in rounding.dropped : t < x86.pos
  /\ \A j \in 0 .. size - 1 :
       program[j].op = "cfround" /\ x86.start[j] \in rounding.dropped
         => Covered(j + 1)

Stale ==
  /\ ~same => Covered(pc)
  /\ tweak => same /\ rounding.dropped = {}
  /\ size < ProgramSize => pc = 0 /\ same

\* The two that keep the position of the same code.
VectorAsX86 == vector = x86

RoundingOK ==
  rounding \in [prevCFROUND : Int, prevFPOperation : Int, dropped : SUBSET Int]

IInv ==
  /\ TypeOK /\ RoundingOK /\ VectorAsX86
  /\ MarksAgree /\ TargetsAgree
  /\ InOrder /\ FpKnown /\ DroppedCovered /\ Stale

-----------------------------------------------------------------------------

LEMMA InitInv == Init => IInv
<1> SUFFICES ASSUME Init PROVE IInv
  OBVIOUS
<1>1. ProgramSize \in Nat /\ size = 0 /\ same = TRUE /\ pc = 0
  BY RandomxAssumption DEF Init
<1>2. Zero \in [Index -> Int]
  BY DEF Zero
<1>3. TypeOK
  <2>1. NotCompiled \in Instructions
    BY DEF NotCompiled, Instructions
  <2>2. program \in [Index -> Instructions]
    BY <2>1 DEF Init
  <2>3. [r \in Registers |-> -1] \in [Registers -> Int] /\ [r \in Registers |-> 0] \in [Registers -> Int]
    OBVIOUS
  <2> QED
    BY <1>1, <1>2, <2>2, <2>3 DEF TypeOK, Init
<1>4. RoundingOK /\ VectorAsX86
  BY DEF RoundingOK, VectorAsX86, Init
<1>5. MarksAgree
  <2> SUFFICES ASSUME NEW r \in Registers
               PROVE  /\ bytecode.usage[r] = -1 /\ rv64.usage[r] = -1
                      /\ x86.usage[r] = 0 /\ a64.usage[r] = 0
                      /\ x86.pos = 0 /\ a64.pos = 0
    BY <1>1 DEF MarksAgree, StartOf, Repeats
  <2> QED
    BY DEF Init
<1>6. TargetsAgree /\ InOrder /\ FpKnown
  <2>1. x86.pos = 0
    BY DEF Init
  <2> QED
    BY <1>1, <2>1 DEF TargetsAgree, InOrder, FpKnown, StartOf, Init
<1>7. DroppedCovered
  BY <1>1 DEF DroppedCovered, Init
<1>8. Stale
  BY <1>1 DEF Stale, Init
<1> QED
  BY <1>3, <1>4, <1>5, <1>6, <1>7, <1>8 DEF IInv

-----------------------------------------------------------------------------
(* Compilation                                                             *)

\* The target of a branch is the mark of the register it tests.
LEMMA TargetIsMark ==
  ASSUME NEW ins \in Instructions, ins.op = "branch", NEW usage
  PROVE  \E r \in Registers : ins.regs = {r} /\ TargetOf(usage, ins) = usage[r]
<1>1. PICK r \in Registers : ins.regs = {r}
  BY DEF Instructions
<1>2. (CHOOSE q \in Registers : q \in ins.regs) = r
  BY <1>1
<1> QED
  BY <1>1, <1>2 DEF TargetOf

LEMMA TargetTyped ==
  ASSUME NEW ins \in Instructions, NEW usage \in [Registers -> Int]
  PROVE  TargetOf(usage, ins) \in Int
<1>1. CASE ins.op = "branch"
  BY <1>1, TargetIsMark
<1>2. CASE ins.op # "branch"
  BY <1>2 DEF TargetOf
<1> QED
  BY <1>1, <1>2

\* What the compilation of one instruction leaves as it was and what it adds.
LEMMA CompileEffect ==
  ASSUME size \in Index, NEW ins \in Instructions,
         NEW jit \in Jits, NEW length \in {0, 1}, NEW new,
         new = Generated(jit, ins, length)
  PROVE  /\ new \in Jits
         /\ new.pos = jit.pos + length
         /\ new.start[size] = jit.pos
         /\ \A j \in 0 .. size - 1 : new.start[j] = jit.start[j] /\ new.target[j] = jit.target[j]
         /\ new.target[size] = TargetOf(jit.usage, ins)
         /\ \A r \in Registers : new.usage[r] = IF r \in Marks(ins) THEN jit.pos + length ELSE jit.usage[r]
<1>1. size \in Nat /\ ProgramSize \in Nat
  BY RandomxAssumption DEF Index
<1>2. TargetOf(jit.usage, ins) \in Int
  BY TargetTyped DEF Jits
<1>3. Marked(jit.usage, ins, jit.pos + length) \in [Registers -> Int]
  BY DEF Marked, Jits
<1>4. [jit.start EXCEPT ![size] = jit.pos] \in [Index -> Int]
  BY <1>1 DEF Jits
<1>5. [jit.target EXCEPT ![size] = TargetOf(jit.usage, ins)] \in [Index -> Int]
  BY <1>1, <1>2 DEF Jits
<1>6. new \in Jits
  BY <1>3, <1>4, <1>5 DEF Jits, Generated
<1>7. new.pos = jit.pos + length /\ new.start[size] = jit.pos
  BY <1>1 DEF Jits, Generated
<1>8. \A j \in 0 .. size - 1 : new.start[j] = jit.start[j] /\ new.target[j] = jit.target[j]
  BY <1>1 DEF Jits, Generated, Index
<1>9. new.target[size] = TargetOf(jit.usage, ins)
  BY <1>1 DEF Jits, Generated
<1>10. \A r \in Registers : new.usage[r] = IF r \in Marks(ins) THEN jit.pos + length ELSE jit.usage[r]
  BY DEF Generated, Marked
<1> QED
  BY <1>6, <1>7, <1>8, <1>9, <1>10

\* The compilation of one instruction: the facts that the conjuncts need.
LEMMA CompileInv == IInv /\ Compile => IInv'
<1> SUFFICES ASSUME IInv, Compile PROVE IInv'
  OBVIOUS
<1>1. PICK ins \in Instructions :
        /\ program' = [program EXCEPT ![size] = ins]
        /\ Bytecode(ins) /\ Rv64(ins) /\ X86(ins) /\ A64(ins) /\ Vector(ins) /\ Rounding(ins)
  BY DEF Compile
<1> DEFINE length == Emits(ins)
<1> DEFINE length64 == A64Emits(ins)
<1>2. /\ size \in Index /\ size \in Nat /\ ProgramSize \in Nat
      /\ size < ProgramSize /\ size' = size + 1 /\ size' \in 0 .. ProgramSize
      /\ UNCHANGED <<tweak, pc, loop, same>>
  BY RandomxAssumption DEF IInv, TypeOK, Index, Compile
<1>3. length \in {0, 1} /\ length64 \in {0, 1}
  BY DEF Emits, A64Emits
<1>4. /\ program' \in [Index -> Instructions]
      /\ program'[size] = ins
      /\ \A j \in 0 .. size - 1 : program'[j] = program[j]
  BY <1>1, <1>2 DEF IInv, TypeOK, Index
<1>5. x86 \in Jits /\ a64 \in Jits /\ rv64 \in Jits
  BY DEF IInv, TypeOK, Jits
<1>6. /\ x86' \in Jits
      /\ x86'.pos = x86.pos + length
      /\ x86'.start[size] = x86.pos
      /\ \A j \in 0 .. size - 1 : x86'.start[j] = x86.start[j] /\ x86'.target[j] = x86.target[j]
      /\ x86'.target[size] = TargetOf(x86.usage, ins)
      /\ \A r \in Registers : x86'.usage[r] = IF r \in Marks(ins) THEN x86.pos + length ELSE x86.usage[r]
  BY <1>1, <1>2, <1>3, <1>5, CompileEffect DEF X86
<1>7. /\ a64' \in Jits
      /\ a64'.pos = a64.pos + length64
      /\ a64'.start[size] = a64.pos
      /\ \A j \in 0 .. size - 1 : a64'.start[j] = a64.start[j] /\ a64'.target[j] = a64.target[j]
      /\ a64'.target[size] = TargetOf(a64.usage, ins)
      /\ \A r \in Registers : a64'.usage[r] = IF r \in Marks(ins) THEN a64.pos + length64 ELSE a64.usage[r]
  BY <1>1, <1>2, <1>3, <1>5, CompileEffect DEF A64
<1>8. /\ bytecode' \in [usage : [Registers -> Int], target : [Index -> Int]]
      /\ \A j \in 0 .. size - 1 : bytecode'.target[j] = bytecode.target[j]
      /\ bytecode'.target[size] = TargetOf(bytecode.usage, ins)
      /\ \A r \in Registers : bytecode'.usage[r] = IF r \in Marks(ins) THEN size ELSE bytecode.usage[r]
  <2>1. bytecode \in [usage : [Registers -> Int], target : [Index -> Int]]
    BY DEF IInv, TypeOK
  <2>2. TargetOf(bytecode.usage, ins) \in Int
    BY <2>1, TargetTyped
  <2>3. Marked(bytecode.usage, ins, size) \in [Registers -> Int]
    BY <1>2, <2>1 DEF Marked
  <2>4. [bytecode.target EXCEPT ![size] = TargetOf(bytecode.usage, ins)] \in [Index -> Int]
    BY <1>2, <2>1, <2>2
  <2> QED
    BY <1>1, <1>2, <2>1, <2>3, <2>4 DEF Bytecode, Marked, Index
<1>9. /\ rv64' \in Jits
      /\ rv64'.start[size] = rv64.pos
      /\ \A j \in 0 .. size - 1 : rv64'.start[j] = rv64.start[j] /\ rv64'.target[j] = rv64.target[j]
      /\ ins.op = "branch" => rv64'.target[size] = rv64'.start[TargetOf(rv64.usage, ins) + 1]
      /\ \A r \in Registers : rv64'.usage[r] = IF r \in Marks(ins) THEN size ELSE rv64.usage[r]
  <2> DEFINE start == [rv64.start EXCEPT ![size] = rv64.pos]
  <2> DEFINE target == IF ins.op = "branch" THEN start[TargetOf(rv64.usage, ins) + 1] ELSE 0
  <2>1. start \in [Index -> Int] /\ start[size] = rv64.pos
        /\ \A j \in 0 .. size - 1 : start[j] = rv64.start[j]
    BY <1>2, <1>5 DEF Jits, Index
  <2>2. target \in Int
    <3>1. CASE ins.op = "branch"
      <4>1. PICK r \in Registers : TargetOf(rv64.usage, ins) = rv64.usage[r]
        BY <3>1, TargetIsMark
      <4>2. rv64.usage[r] + 1 \in Index
        BY <1>2 DEF IInv, MarksAgree, Index
      <4> QED
        BY <2>1, <3>1, <4>1, <4>2
    <3> QED
      BY <3>1
  <2>3. Marked(rv64.usage, ins, size) \in [Registers -> Int]
    BY <1>2, <1>5 DEF Marked, Jits
  <2>4. [rv64.target EXCEPT ![size] = target] \in [Index -> Int]
        /\ [rv64.target EXCEPT ![size] = target][size] = target
        /\ \A j \in 0 .. size - 1 : [rv64.target EXCEPT ![size] = target][j] = rv64.target[j]
    BY <1>2, <1>5, <2>2 DEF Jits, Index
  <2>5. rv64' = [usage |-> Marked(rv64.usage, ins, size), start |-> start,
                 pos |-> rv64.pos + length,
                 target |-> [rv64.target EXCEPT ![size] = target]]
    BY <1>1 DEF Rv64
  <2>6. \A r \in Registers : Marked(rv64.usage, ins, size)[r] =
                               IF r \in Marks(ins) THEN size ELSE rv64.usage[r]
    BY DEF Marked
  <2> HIDE DEF start, target
  <2>7. rv64' \in Jits
    BY <1>3, <1>5, <2>1, <2>3, <2>4, <2>5 DEF Jits
  <2>8. rv64'.start = start /\ rv64'.target[size] = target
    BY <2>4, <2>5
  <2>9. ins.op = "branch" => target = start[TargetOf(rv64.usage, ins) + 1]
    BY DEF target
  <2> QED
    BY <2>1, <2>4, <2>5, <2>6, <2>7, <2>8, <2>9
<1>10. \A j \in 0 .. size :
         /\ StartOf(x86, j)' = StartOf(x86, j)
         /\ StartOf(a64, j)' = StartOf(a64, j)
  BY <1>2, <1>6, <1>7 DEF StartOf
<1>11. \A j \in Nat : j = size + 1 =>
         /\ StartOf(x86, j)' = x86.pos + length
         /\ StartOf(a64, j)' = a64.pos + length64
  BY <1>2, <1>6, <1>7 DEF StartOf
<1>11a. VectorAsX86'
  BY <1>1 DEF IInv, VectorAsX86, Vector, X86
<1>12. TypeOK'
  BY <1>2, <1>4, <1>6, <1>7, <1>8, <1>9, <1>11a DEF TypeOK, Jits, IInv, VectorAsX86
<1>13. /\ RoundingOK'
       /\ rounding'.prevFPOperation \in {rounding.prevFPOperation, x86.pos}
       /\ ins.op = "fp" => rounding'.prevFPOperation = x86.pos
       /\ ins.op = "branch" /\ TargetOf(x86.usage, ins) <= rounding.prevFPOperation
            => rounding'.prevFPOperation = x86.pos
       /\ ins.op # "cfround" => /\ rounding'.prevCFROUND = rounding.prevCFROUND
                                /\ rounding'.dropped = rounding.dropped
  <2>1. rounding \in [prevCFROUND : Int, prevFPOperation : Int, dropped : SUBSET Int]
        /\ x86.pos \in Int
    BY <1>5 DEF IInv, RoundingOK, Jits
  <2>2. CASE ins.op = "fp" /\ FpOperation
    BY <2>1, <2>2 DEF FpOperation, RoundingOK
  <2>3. CASE ins.op = "cfround" /\ CfRound
    BY <2>1, <2>3 DEF CfRound, RoundingOK
  <2>4. CASE ins.op = "branch" /\ BranchOver(ins)
    BY <2>1, <2>4 DEF BranchOver, RoundingOK
  <2>5. CASE ins.op \in {"arith", "rotate", "plain"} /\ UNCHANGED rounding
    BY <2>1, <2>5 DEF RoundingOK
  <2> QED
    BY <1>1, <2>2, <2>3, <2>4, <2>5 DEF Rounding
<1>14. MarksAgree'
  <2> SUFFICES ASSUME NEW r \in Registers
               PROVE  /\ bytecode'.usage[r] \in -1 .. size' - 1
                      /\ rv64'.usage[r] = bytecode'.usage[r]
                      /\ x86'.usage[r] = StartOf(x86, bytecode.usage[r] + 1)'
                      /\ a64'.usage[r] = StartOf(a64, bytecode.usage[r] + 1)'
                      /\ Repeats(bytecode.usage[r] + 1, size, r)'
    BY DEF MarksAgree
  <2>1. CASE r \in Marks(ins)
    <3>1. bytecode'.usage[r] = size
      BY <1>8, <2>1
    <3> QED
      BY <1>2, <1>6, <1>7, <1>9, <1>11, <2>1, <3>1 DEF StartOf, Repeats
  <2>2. CASE r \notin Marks(ins)
    <3>1. ins.op # "branch" /\ r \notin ins.regs
      BY <2>2 DEF Marks
    <3>2. /\ bytecode'.usage[r] = bytecode.usage[r]
          /\ bytecode.usage[r] + 1 \in 0 .. size
      BY <1>2, <1>8, <2>2 DEF IInv, MarksAgree
    <3>3. /\ rv64.usage[r] = bytecode.usage[r]
          /\ x86.usage[r] = StartOf(x86, bytecode.usage[r] + 1)
          /\ a64.usage[r] = StartOf(a64, bytecode.usage[r] + 1)
          /\ Repeats(bytecode.usage[r] + 1, size, r)
      BY DEF IInv, MarksAgree
    <3>4. Repeats(bytecode.usage[r] + 1, size, r)'
      BY <1>2, <1>4, <3>1, <3>2, <3>3 DEF Repeats
    <3>5. PICK from \in 0 .. size : from = bytecode.usage[r] + 1
      BY <3>2
    <3>6. /\ x86.usage[r] = StartOf(x86, from)'
          /\ a64.usage[r] = StartOf(a64, from)'
      BY <1>10, <3>3, <3>5
    <3>7. from = (bytecode.usage[r] + 1)'
      BY <3>2, <3>5
    <3>8. /\ StartOf(x86, from)' = StartOf(x86, bytecode.usage[r] + 1)'
          /\ StartOf(a64, from)' = StartOf(a64, bytecode.usage[r] + 1)'
      BY <3>7 DEF StartOf
    <3>9. Repeats(bytecode.usage[r] + 1, size, r)'
      BY <3>4
    <3>10. x86'.usage[r] = x86.usage[r] /\ a64'.usage[r] = a64.usage[r]
           /\ rv64'.usage[r] = rv64.usage[r]
      BY <1>6, <1>7, <1>9, <2>2
    <3>11. bytecode'.usage[r] \in -1 .. size' - 1
      BY <1>2, <3>2 DEF IInv, MarksAgree
    <3> QED
      BY <3>2, <3>3, <3>6, <3>8, <3>9, <3>10, <3>11
  <2> QED
    BY <2>1, <2>2
<1>15. TargetsAgree'
  <2> SUFFICES ASSUME NEW i \in 0 .. size, program'[i].op = "branch"
               PROVE  LET from == bytecode'.target[i] + 1
                      IN /\ from \in 0 .. i
                         /\ rv64'.target[i] = rv64'.start[from]
                         /\ x86'.target[i] = x86'.start[from]
                         /\ a64'.target[i] = a64'.start[from]
                         /\ \A r \in program'[i].regs, j \in from .. i - 1 :
                              r \notin program'[j].regs /\ program'[j].op # "branch"
    BY <1>2, <1>11a DEF TargetsAgree, VectorAsX86, Repeats
  <2>1. CASE i < size
    <3>1. i \in 0 .. size - 1 /\ program[i].op = "branch"
      BY <1>2, <1>4, <2>1
    <3>2. PICK from \in 0 .. i :
            /\ from = bytecode.target[i] + 1
            /\ rv64.target[i] = rv64.start[from]
            /\ x86.target[i] = x86.start[from]
            /\ a64.target[i] = a64.start[from]
            /\ \A r \in program[i].regs, j \in from .. i - 1 :
                 r \notin program[j].regs /\ program[j].op # "branch"
      BY <3>1 DEF IInv, TargetsAgree, Repeats
    <3>3. from \in 0 .. size - 1 /\ \A j \in from .. i - 1 : j \in 0 .. size - 1
      BY <1>2, <3>1, <3>2
    <3>4. bytecode'.target[i] + 1 = from
      BY <1>8, <3>1, <3>2
    <3> QED
      BY <1>4, <1>6, <1>7, <1>9, <3>1, <3>2, <3>3, <3>4
  <2>2. CASE i = size
    <3>1. program'[i] = ins /\ ins.op = "branch"
      BY <1>4, <2>2
    <3>2. PICK r \in Registers :
            /\ ins.regs = {r}
            /\ TargetOf(bytecode.usage, ins) = bytecode.usage[r]
            /\ TargetOf(rv64.usage, ins) = rv64.usage[r]
            /\ TargetOf(x86.usage, ins) = x86.usage[r]
            /\ TargetOf(a64.usage, ins) = a64.usage[r]
      BY <3>1, TargetIsMark
    <3>3. PICK from \in 0 .. size :
            /\ from = bytecode.usage[r] + 1
            /\ rv64.usage[r] + 1 = from
            /\ x86.usage[r] = StartOf(x86, from)
            /\ a64.usage[r] = StartOf(a64, from)
            /\ Repeats(from, size, r)
      BY <1>2 DEF IInv, MarksAgree
    <3>4. x86'.start[from] = StartOf(x86, from) /\ a64'.start[from] = StartOf(a64, from)
      BY <1>2, <1>6, <1>7 DEF StartOf
    <3>5. \A j \in from .. i - 1 : r \notin program'[j].regs /\ program'[j].op # "branch"
      BY <1>2, <1>4, <2>2, <3>3 DEF Repeats
    <3> QED
      BY <1>6, <1>7, <1>8, <1>9, <2>2, <3>1, <3>2, <3>3, <3>4, <3>5
  <2> QED
    BY <1>2, <2>1, <2>2
<1>16. InOrder'
  <2> SUFFICES ASSUME NEW j \in 0 .. size + 1, NEW k \in 0 .. size + 1, j <= k
               PROVE  StartOf(x86, j)' <= StartOf(x86, k)'
    BY <1>2 DEF InOrder
  <2>1. CASE k <= size
    BY <1>2, <1>10, <2>1 DEF IInv, InOrder
  <2>2. CASE k = size + 1 /\ j = size + 1
    BY <1>2, <1>3, <1>5, <1>11, <2>2 DEF Jits
  <2>3. CASE k = size + 1 /\ j <= size
    <3>1. StartOf(x86, j) <= StartOf(x86, size) /\ StartOf(x86, size) = x86.pos
      BY <1>2, <2>3 DEF IInv, InOrder, StartOf
    <3>2. StartOf(x86, j) \in Int
      BY <1>2, <1>5, <2>3 DEF StartOf, Jits, Index
    <3>3. StartOf(x86, j)' = StartOf(x86, j) /\ StartOf(x86, k)' = x86.pos + length
      BY <1>2, <1>10, <1>11, <2>3
    <3> QED
      BY <1>3, <1>5, <3>1, <3>2, <3>3 DEF Jits
  <2> QED
    BY <1>2, <2>1, <2>2, <2>3
<1>17. FpKnown'
  <2> SUFFICES ASSUME NEW j \in 0 .. size
               PROVE  /\ program'[j].op = "fp" => x86'.start[j] <= rounding'.prevFPOperation
                      /\ program'[j].op = "branch" =>
                           \/ x86'.start[j] <= rounding'.prevFPOperation
                           \/ x86'.target[j] > rounding'.prevFPOperation
    BY <1>2 DEF FpKnown
  <2>1. x86.pos \in Int /\ rounding.prevFPOperation \in Int
    BY <1>5 DEF IInv, RoundingOK, Jits
  <2>2. CASE j < size
    <3>1. /\ program[j].op = "fp" => x86.start[j] <= rounding.prevFPOperation
          /\ program[j].op = "branch" =>
               \/ x86.start[j] <= rounding.prevFPOperation
               \/ x86.target[j] > rounding.prevFPOperation
      BY <1>2, <2>2 DEF IInv, FpKnown
    <3>2. x86.start[j] <= x86.pos
      BY <1>2, <2>2 DEF IInv, InOrder, StartOf
    <3> QED
      BY <1>2, <1>4, <1>6, <1>13, <2>1, <2>2, <3>1, <3>2
  <2>3. CASE j = size
    <3>1. x86'.start[j] = x86.pos /\ program'[j] = ins
          /\ x86'.target[j] = TargetOf(x86.usage, ins)
      BY <1>4, <1>6, <2>3
    <3>2. TargetOf(x86.usage, ins) \in Int
      BY <1>5, TargetTyped DEF Jits
    <3> QED
      BY <1>13, <2>1, <3>1, <3>2
  <2> QED
    BY <1>2, <2>2, <2>3
\* What was covered stays so: it does not depend on what follows.
<1>18. ASSUME NEW p \in Nat, Covered(p) PROVE Covered(p)'
  <2>1. PICK e \in p .. size - 1 :
          /\ program[e].op = "cfround"
          /\ \A j \in p .. e - 1 :
               /\ program[j].op # "fp"
               /\ program[j].op = "branch" =>
                    \A k \in bytecode.target[j] + 1 .. j : program[k].op # "fp"
    BY <1>18 DEF Covered
  <2>2. e \in 0 .. size - 1 /\ e \in p .. size' - 1 /\ program'[e].op = "cfround"
    BY <1>2, <1>4, <2>1
  <2>3. SUFFICES ASSUME NEW j \in p .. e - 1
                 PROVE  /\ program'[j].op # "fp"
                        /\ program'[j].op = "branch" =>
                             \A k \in bytecode'.target[j] + 1 .. j : program'[k].op # "fp"
    BY <2>2 DEF Covered
  <2>4. j \in 0 .. size - 1 /\ program'[j] = program[j] /\ bytecode'.target[j] = bytecode.target[j]
    BY <1>2, <1>4, <1>8, <2>2
  <2>5. program[j].op = "branch" => bytecode.target[j] + 1 \in 0 .. j
    BY <2>4 DEF IInv, TargetsAgree
  <2>6. program[j].op = "branch" =>
          \A k \in bytecode.target[j] + 1 .. j : program'[k] = program[k]
    BY <1>2, <1>4, <2>4, <2>5
  <2> QED
    BY <2>1, <2>4, <2>6
\* A CFROUND that is overwritten is covered by the one that overwrites it.
<1>19. DroppedCovered'
  <2>1. x86.pos \in Int /\ rounding.prevFPOperation \in Int /\ rounding.prevCFROUND \in Int
        /\ \A t \in rounding.dropped : t \in Int
    BY <1>5 DEF IInv, RoundingOK, Jits
  <2>1a. \A j \in 0 .. size - 1 : x86.start[j] \in Int
    BY <1>2, <1>5 DEF Jits, Index
  <2>1b. \A j \in 0 .. size - 1 :
           program[j].op = "fp" => x86.start[j] <= rounding.prevFPOperation
    BY DEF IInv, FpKnown
  <2>2. /\ rounding.prevCFROUND < x86.pos
        /\ \A t \in rounding.dropped : t < x86.pos
        /\ \A j \in 0 .. size - 1 :
             program[j].op = "cfround" /\ x86.start[j] \in rounding.dropped
               => Covered(j + 1)
    BY DEF IInv, DroppedCovered
  <2>3. ASSUME NEW j \in 0 .. size - 1,
               program'[j].op = "cfround", x86'.start[j] \in rounding.dropped
        PROVE  Covered(j + 1)'
    <3>1. Covered(j + 1)
      BY <1>4, <1>6, <2>2, <2>3
    <3>2. j + 1 \in Nat
      BY <1>2
    <3> QED
      BY <1>18, <3>1, <3>2
  <2>4. CASE ins.op # "cfround"
    <3>1. x86'.start[size] \notin rounding'.dropped
      BY <1>6, <1>13, <2>1, <2>2, <2>4
    <3>2. \A j \in 0 .. size' - 1 : j \in 0 .. size - 1 \/ j = size
      BY <1>2
    <3> QED
      BY <1>3, <1>6, <1>13, <2>1, <2>2, <2>3, <2>4, <3>1, <3>2 DEF DroppedCovered
  <2>5. CASE ins.op = "cfround"
    <3> DEFINE t == rounding.prevCFROUND
    <3>1. /\ rounding'.prevCFROUND = x86.pos
          /\ rounding'.dropped = IF t > rounding.prevFPOperation /\ ~tweak
                                 THEN rounding.dropped \cup {t} ELSE rounding.dropped
      BY <1>1, <2>5 DEF Rounding, CfRound, IInv, RoundingOK
    <3>2. x86'.pos = x86.pos + 1
      BY <1>6, <2>5 DEF Emits
    <3>3. \A u \in rounding'.dropped : u < x86.pos
      BY <2>1, <2>2, <3>1
    <3>4. x86'.start[size] \notin rounding'.dropped
      BY <1>6, <2>1, <3>3
    <3>5. ASSUME NEW j \in 0 .. size - 1, x86.start[j] = t, t > rounding.prevFPOperation
          PROVE  Covered(j + 1)'
      <4>1. size \in j + 1 .. size' - 1 /\ program'[size].op = "cfround"
        BY <1>2, <1>4, <2>5
      <4>2. SUFFICES ASSUME NEW k \in j + 1 .. size - 1
                     PROVE  /\ program'[k].op # "fp"
                            /\ program'[k].op = "branch" =>
                                 \A m \in bytecode'.target[k] + 1 .. k : program'[m].op # "fp"
        BY <4>1 DEF Covered
      <4>3. k \in 0 .. size - 1 /\ j <= k /\ program'[k] = program[k]
            /\ bytecode'.target[k] = bytecode.target[k]
        BY <1>2, <1>4, <1>8
      <4>4. x86.start[k] > rounding.prevFPOperation
        <5>1. x86.start[j] <= x86.start[k]
          BY <1>2, <4>3 DEF IInv, InOrder, StartOf
        <5>2. x86.start[k] \in Int
          <6>1. k \in 0 .. ProgramSize - 1
            BY <1>2, <4>3 DEF Index
          <6> QED
            BY <1>5, <6>1 DEF Jits, Index
        <5> QED
          BY <2>1, <3>5, <5>1, <5>2
      <4>5. program[k].op # "fp"
        BY <1>2, <2>1, <2>1a, <2>1b, <4>3, <4>4
      <4>6. ASSUME program[k].op = "branch", NEW m \in bytecode.target[k] + 1 .. k
            PROVE  program'[m].op # "fp"
        <5>1. PICK from \in 0 .. k :
                from = bytecode.target[k] + 1 /\ x86.target[k] = x86.start[from]
          BY <4>3, <4>6 DEF IInv, TargetsAgree
        <5>2. m \in 0 .. size - 1 /\ from <= m /\ from \in 0 .. size - 1
          BY <1>2, <4>3, <5>1
        <5>3. x86.start[from] <= x86.start[m]
          BY <1>2, <5>2 DEF IInv, InOrder, StartOf
        <5>4. x86.target[k] > rounding.prevFPOperation
          BY <1>2, <1>5, <2>1, <4>3, <4>4, <4>6 DEF IInv, FpKnown, Jits, Index
        <5>5. x86.start[m] \in Int /\ x86.start[from] \in Int
          BY <2>1a, <5>2
        <5>6. x86.start[from] > rounding.prevFPOperation
          BY <5>1, <5>4
        <5>7. rounding.prevFPOperation \in Int
          BY <2>1
        <5>8. x86.start[m] > rounding.prevFPOperation
          BY <5>3, <5>5, <5>6, <5>7
        <5>9. program[m].op # "fp"
          BY <2>1, <2>1a, <2>1b, <5>2, <5>8
        <5> QED
          BY <1>4, <5>2, <5>9
      <4> QED
        BY <4>3, <4>5, <4>6
    <3>6. ASSUME NEW j \in 0 .. size' - 1,
                 program'[j].op = "cfround", x86'.start[j] \in rounding'.dropped
          PROVE  Covered(j + 1)'
      <4>1. j \in 0 .. size - 1
        BY <1>2, <3>4, <3>6
      <4>2. x86'.start[j] = x86.start[j]
        BY <1>6, <4>1
      <4>3. CASE x86.start[j] \in rounding.dropped
        BY <2>3, <3>6, <4>1, <4>2, <4>3
      <4>4. CASE x86.start[j] \notin rounding.dropped
        BY <3>1, <3>5, <3>6, <4>1, <4>2, <4>4
      <4> QED
        BY <4>3, <4>4
    <3>7. \A u \in rounding'.dropped : u < x86'.pos
      BY <2>1, <2>2, <3>1, <3>2
    <3>8. rounding'.prevCFROUND < x86'.pos
      BY <2>1, <3>1, <3>2
    <3> QED
      BY <3>6, <3>7, <3>8 DEF DroppedCovered
  <2> QED
    BY <2>4, <2>5
<1>20. Stale'
  <2>1. pc = 0 /\ same /\ (tweak => rounding.dropped = {})
    BY <1>2 DEF IInv, Stale
  <2>2. tweak => rounding'.dropped = {}
    <3>1. ins.op = "cfround" => CfRound
      BY <1>1 DEF Rounding
    <3>2. ASSUME ins.op = "cfround", tweak PROVE rounding'.dropped = rounding.dropped
      BY <3>1, <3>2 DEF CfRound, IInv, RoundingOK
    <3> QED
      BY <1>13, <2>1, <3>2
  <2> QED
    BY <1>2, <2>1, <2>2 DEF Stale
<1> QED
  BY <1>12, <1>13, <1>14, <1>15, <1>11a, <1>16, <1>17, <1>19, <1>20 DEF IInv

-----------------------------------------------------------------------------
(* Execution                                                               *)

\* Execution changes nothing of what the compilers left.
LEMMA ExecuteKeeps ==
  ASSUME IInv, UNCHANGED <<tweak, program, size, compiler>>,
         pc' \in 0 .. ProgramSize, same' \in BOOLEAN, Stale'
  PROVE  IInv'
<1>1. UNCHANGED <<tweak, program, size, bytecode, rv64, x86, a64, vector, rounding>>
  BY DEF compiler
<1>2. TypeOK' /\ RoundingOK' /\ VectorAsX86'
  BY <1>1 DEF IInv, TypeOK, RoundingOK, VectorAsX86
<1>3. MarksAgree' /\ TargetsAgree'
  BY <1>1 DEF IInv, MarksAgree, TargetsAgree, StartOf, Repeats
<1>4. InOrder' /\ FpKnown' /\ DroppedCovered'
  BY <1>1 DEF IInv, InOrder, FpKnown, DroppedCovered, StartOf, Covered
<1> QED
  BY <1>2, <1>3, <1>4 DEF IInv

LEMMA ExecuteInv == IInv /\ Execute => IInv'
<1> SUFFICES ASSUME IInv, Execute PROVE IInv'
  OBVIOUS
<1>1. /\ size = ProgramSize /\ ProgramSize \in Nat
      /\ pc \in 0 .. size - 1 /\ pc \in Nat
      /\ same \in BOOLEAN /\ tweak \in BOOLEAN
      /\ UNCHANGED <<tweak, program, size, compiler>>
      /\ ~same => Covered(pc)
      /\ tweak => same /\ rounding.dropped = {}
  BY RandomxAssumption DEF Execute, Compiled, IInv, TypeOK, Stale
<1>2. UNCHANGED <<tweak, program, size, bytecode, rounding>>
  BY <1>1 DEF compiler
\* A step over an instruction that is no CFROUND
<1>3. ASSUME program[pc].op # "cfround", Covered(pc) PROVE Covered(pc + 1)
  BY <1>1, <1>3 DEF Covered
<1>5. pc' \in 0 .. ProgramSize /\ same' \in BOOLEAN /\ (~same' => Covered(pc')) /\ (tweak => same')
  <2>1. CASE program[pc].op = "branch" /\ Branch(program[pc])
    <3>1. same' = same /\ pc' \in {bytecode.target[pc] + 1, pc + 1}
      BY <2>1 DEF Branch
    <3>2. PICK from \in 0 .. pc :
            /\ from = bytecode.target[pc] + 1
            /\ \A r \in program[pc].regs : Repeats(from, pc, r)
      BY <1>1, <2>1 DEF IInv, TargetsAgree
    <3>3. pc' \in 0 .. ProgramSize
      BY <1>1, <3>1, <3>2
    <3>4. ASSUME ~same PROVE Covered(from)
      <4>1. PICK e \in pc .. size - 1 :
              /\ program[e].op = "cfround"
              /\ \A j \in pc .. e - 1 :
                   /\ program[j].op # "fp"
                   /\ program[j].op = "branch" =>
                        \A k \in bytecode.target[j] + 1 .. j : program[k].op # "fp"
        BY <1>1, <3>4 DEF Covered
      <4>2. pc \in pc .. e - 1
        BY <1>1, <2>1, <4>1
      <4>3. \A k \in from .. pc : program[k].op # "fp"
        BY <2>1, <3>2, <4>1, <4>2
      <4>4. \E r \in Registers : program[pc].regs = {r}
        <5>1. program[pc] \in Instructions
          BY <1>1 DEF IInv, TypeOK, Index
        <5> QED
          BY <2>1, <5>1 DEF Instructions
      <4>5. \A k \in from .. pc - 1 : program[k].op # "branch"
        BY <3>2, <4>4 DEF Repeats
      <4>6. \A j \in from .. e - 1 : j \in from .. pc - 1 \/ j \in pc .. e - 1
        BY <1>1, <3>2, <4>1
      <4>7. e \in from .. size - 1
        BY <1>1, <3>2, <4>1
      <4>8. \A k \in from .. pc - 1 : k \in from .. pc
        BY <1>1, <3>2
      <4> QED
        BY <4>1, <4>3, <4>5, <4>6, <4>7, <4>8 DEF Covered
    <3>5. ASSUME ~same PROVE Covered(pc')
      <4>1. Covered(pc + 1)
        BY <1>1, <1>3, <2>1, <3>5
      <4> QED
        BY <3>1, <3>2, <3>4, <3>5, <4>1
    <3> QED
      BY <1>1, <3>1, <3>3, <3>5
  <2>2. CASE program[pc].op = "cfround" /\ SetMode
    <3>1. /\ pc' = pc + 1
          /\ \/ same' = (x86.start[pc] \notin rounding.dropped)
             \/ tweak /\ same' = same
      BY <2>2 DEF SetMode
    <3>2. ASSUME x86.start[pc] \in rounding.dropped PROVE Covered(pc + 1)
      BY <1>1, <2>2, <3>2 DEF IInv, DroppedCovered
    <3>3. CASE same' = (x86.start[pc] \notin rounding.dropped)
      <4>1. /\ ~same' => x86.start[pc] \in rounding.dropped
            /\ x86.start[pc] \notin rounding.dropped => same'
            /\ same' \in BOOLEAN
        BY <3>3
      <4>2. pc + 1 \in 0 .. ProgramSize
        BY <1>1
      <4> QED
        BY <1>1, <3>1, <3>2, <4>1, <4>2
    <3>4. CASE tweak /\ same' = same
      <4>1. pc + 1 \in 0 .. ProgramSize
        BY <1>1
      <4> QED
        BY <1>1, <3>1, <3>4, <4>1
    <3> QED
      BY <3>1, <3>3, <3>4
  <2>3. CASE program[pc].op \notin {"branch", "cfround"} /\ pc' = pc + 1 /\ UNCHANGED same
    BY <1>1, <1>3, <2>3
  <2> QED
    BY <2>1, <2>2, <2>3 DEF Execute
<1>6. Stale'
  BY <1>1, <1>2, <1>5 DEF Stale, Covered
<1> QED
  BY <1>1, <1>5, <1>6, ExecuteKeeps

LEMMA IterateInv == IInv /\ Iterate => IInv'
<1> SUFFICES ASSUME IInv, Iterate PROVE IInv'
  OBVIOUS
<1>1. /\ size = ProgramSize /\ ProgramSize \in Nat /\ pc = size
      /\ pc' = 0 /\ same' = same /\ same \in BOOLEAN
      /\ UNCHANGED <<tweak, program, size, compiler>>
  BY RandomxAssumption DEF Iterate, Compiled, IInv, TypeOK
<1>2. same
  BY <1>1 DEF IInv, Stale, Covered
<1>3. Stale'
  BY <1>1, <1>2 DEF IInv, Stale, compiler
<1> QED
  BY <1>1, <1>3, ExecuteKeeps

LEMMA StutterInv == IInv /\ UNCHANGED vars => IInv'
<1> SUFFICES ASSUME IInv, UNCHANGED vars PROVE IInv'
  OBVIOUS
<1>1. UNCHANGED <<tweak, program, size, compiler, pc, same>>
  BY DEF vars, compiler
<1>2. pc' \in 0 .. ProgramSize /\ same' \in BOOLEAN
  BY <1>1 DEF IInv, TypeOK
<1>3. Stale'
  BY <1>1 DEF IInv, Stale, Covered, compiler
<1> QED
  BY <1>1, <1>2, <1>3, ExecuteKeeps

LEMMA InvHolds == Spec => []IInv
<1>1. IInv /\ [Next]_vars => IInv'
  BY CompileInv, ExecuteInv, IterateInv, StutterInv DEF Next
<1> QED
  BY InitInv, <1>1, PTL DEF Spec

-----------------------------------------------------------------------------
(* The theorems                                                            *)

\* The variables have their types.
THEOREM TypeCorrect == Spec => []TypeOK
<1>1. IInv => TypeOK
  BY DEF IInv
<1> QED
  BY InvHolds, <1>1, PTL

\* All back ends compile every branch (exe_CBRANCH, h_CBRANCH, v1_CBRANCH) to
\* the same target, and nothing that it repeats modifies its register.
THEOREM SameTargets == Spec => []TargetsAgree
<1>1. IInv => TargetsAgree
  BY DEF IInv
<1> QED
  BY InvHolds, <1>1, PTL

\* JitCompilerX86::h_CFROUND never overwrites a CFROUND whose mode matters.
THEOREM SameRounding == Spec => []RoundingAgrees
<1>1. IInv => RoundingAgrees
  <2> SUFFICES ASSUME IInv, size = ProgramSize, pc < ProgramSize,
                      program[pc].op = "fp", ~same
               PROVE  FALSE
    BY DEF RoundingAgrees, Compiled
  <2>1. pc \in Nat /\ ProgramSize \in Nat /\ Covered(pc)
    BY RandomxAssumption DEF IInv, Stale, TypeOK
  <2> QED
    BY <2>1 DEF Covered
<1> QED
  BY InvHolds, <1>1, PTL

\* CBRANCH: after two jumps in a row the third test fails, whatever the
\* immediate (low part imm, odd part f of the tested bits) and the register
\* were; `low' is the low part of the register when the first jump is decided.
THEOREM ThirdTestFails ==
  ASSUME NEW imm \in ImmLow, NEW f \in ImmField, NEW low \in LowBits
  PROVE  LET low2 == LowAfter(low, imm)
             low3 == LowAfter(low2, imm)
         IN  ~ (FieldAfter(low2, 0, imm, f) = 0 /\ FieldAfter(low3, 0, imm, f) = 0)
<1>1. /\ HalfUnit \in Nat /\ HalfUnit > 0 /\ Fields \in Nat /\ Fields > 1
      /\ imm \in Nat /\ imm < HalfUnit /\ low \in Nat /\ low < 2 * HalfUnit
      /\ f \in Nat /\ f < Fields /\ f # 0
  BY RandomxAssumption DEF ImmLow, ImmField, LowBits
<1> DEFINE low2 == LowAfter(low, imm)
           low3 == LowAfter(low2, imm)
\* The low part carries into the tested bits at most every other time.
<1>2. low2 \in 0 .. 2 * HalfUnit - 1
  BY <1>1 DEF LowAfter, Carry
<1>3. Carry(low2, imm) = 1 => low3 < HalfUnit /\ low3 \in Nat
  BY <1>1, <1>2 DEF LowAfter, Carry
<1>4. Carry(low2, imm) = 1 => Carry(low3, imm) = 0
  BY <1>1, <1>3 DEF Carry
\* Without a carry an odd number is added to zero.
<1>5. \A l : Carry(l, imm) = 0 => FieldAfter(l, 0, imm, f) # 0
  BY <1>1 DEF FieldAfter
<1>6. Carry(low2, imm) \in {0, 1}
  BY DEF Carry
<1> QED
  BY <1>4, <1>5, <1>6

=============================================================================
