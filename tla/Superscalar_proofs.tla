-------------------------- MODULE Superscalar_proofs --------------------------
(***************************************************************************)
(* Proofs that the programs of SuperscalarHash can be decoded as the       *)
(* generator plans, and that its instructions wait for their operands, for *)
(* every latency, set of registers and random draw.                        *)
(***************************************************************************)
EXTENDS Superscalar, FiniteSetTheorems, WellFoundedInduction, TLAPS

Kinds == {"ISUB_R", "IXOR_R", "IADD_RS", "IMUL_R", "IROR_C", "IADD_C", "IXOR_C",
          "IMULH_R", "ISMULH_R", "IMUL_RCP", "INVALID"}

Buffers == {B484, B7333, B3733, B493, B4444, B3310}

\* Macro-ops of the current instruction.
Length == Len(InstrInfo.ops)

-----------------------------------------------------------------------------
(* The tables.                                                             *)

LEMMA Table ==
  ASSUME NEW k \in Kinds
  PROVE  /\ k = "INVALID" => Len(InfoOf[k].ops) = 0
         /\ k \in {"ISUB_R", "IXOR_R"} =>
              Len(InfoOf[k].ops) = 1 /\ InfoOf[k].ops[1].size = 3
         /\ k \in {"IADD_RS", "IMUL_R", "IROR_C"} =>
              Len(InfoOf[k].ops) = 1 /\ InfoOf[k].ops[1].size = 4
         /\ k \in {"IADD_C", "IXOR_C"} =>
              Len(InfoOf[k].ops) = 1 /\ InfoOf[k].ops[1].size = 7
         /\ k \in High =>
              /\ Len(InfoOf[k].ops) = 3 /\ InfoOf[k].ops[1].size = 3
              /\ InfoOf[k].ops[2].size = 3 /\ InfoOf[k].ops[3].size = 3
         /\ k = "IMUL_RCP" =>
              /\ Len(InfoOf[k].ops) = 2 /\ InfoOf[k].ops[1].size = 10
              /\ InfoOf[k].ops[2].size = 4
<1>1. CASE k \in {"INVALID", "ISUB_R", "IXOR_R", "IADD_RS"}
  BY <1>1 DEF InfoOf, Info, Mop, Alu3, Lea_sib, High
<1>2. CASE k \in {"IMUL_R", "IROR_C", "IADD_C", "IXOR_C"}
  BY <1>2 DEF InfoOf, Info, Mop, Imul_rr, Ror_ri, Alu7, High
<1>3. CASE k \in {"IMULH_R", "ISMULH_R", "IMUL_RCP"}
  BY <1>3 DEF InfoOf, Info, Mop, Mov_rr, Mul_r, Mov_ri64, Imul_dep, High
<1> QED BY <1>1, <1>2, <1>3 DEF Kinds

LEMMA Decoded ==
  /\ MicroOps(Alu3) = 1 /\ MicroOps(Alu7) = 1 /\ MicroOps(Lea_sib) = 1 /\ MicroOps(Ror_ri) = 1
  /\ MicroOps(Imul_rr) = 1 /\ MicroOps(Imul_dep) = 1 /\ MicroOps(Mov_ri64) = 1
  /\ MicroOps(Mov_rr) = 1 /\ MicroOps(Mul_r) = 2
BY DEF MicroOps, Mop, Alu3, Alu7, Lea_sib, Ror_ri, Imul_rr, Imul_dep, Mov_ri64, Mov_rr, Mul_r

\* Only the multiplication to 128 bits decodes to two micro-ops.
LEMMA OneMicroOp ==
  ASSUME NEW k \in Kinds, NEW o \in 1 .. Len(InfoOf[k].ops)
  PROVE  MicroOps(InfoOf[k].ops[o]) = IF k \in High /\ o = 2 THEN 2 ELSE 1
<1>1. CASE k \in {"ISUB_R", "IXOR_R", "IADD_RS", "IMUL_R", "IROR_C", "IADD_C", "IXOR_C"}
  <2>1. o = 1
    <3>1. Len(InfoOf[k].ops) = 1
      BY <1>1, Table
    <3> QED BY <3>1
  <2>2. InfoOf[k].ops[1] \in {Alu3, Lea_sib, Imul_rr, Ror_ri, Alu7}
    BY <1>1 DEF InfoOf, Info
  <2>3. k \notin High
    BY <1>1 DEF High
  <2> QED BY <2>1, <2>2, <2>3, Decoded
<1>2. CASE k = "IMUL_RCP"
  <2>1. o \in {1, 2}
    <3>1. Len(InfoOf[k].ops) = 2
      BY <1>2, Table
    <3> QED BY <3>1
  <2>2. InfoOf[k].ops[1] = Mov_ri64 /\ InfoOf[k].ops[2] = Imul_dep
    BY <1>2 DEF InfoOf, Info
  <2>3. k \notin High
    BY <1>2 DEF High
  <2> QED BY <2>1, <2>2, <2>3, Decoded
<1>3. CASE k \in High
  <2>1. o \in {1, 2, 3}
    <3>1. Len(InfoOf[k].ops) = 3
      BY <1>3, Table
    <3> QED BY <3>1
  <2>2. InfoOf[k].ops[1] = Mov_rr /\ InfoOf[k].ops[2] = Mul_r /\ InfoOf[k].ops[3] = Mov_rr
    BY <1>3 DEF InfoOf, Info, High
  <2> QED BY <1>3, <2>1, <2>2, Decoded
<1>4. CASE k = "INVALID"
  BY <1>4, Table
<1> QED BY <1>1, <1>2, <1>3, <1>4 DEF Kinds, High

LEMMA Lengths ==
  ASSUME NEW k \in Kinds
  PROVE  /\ Len(InfoOf[k].ops) \in 0 .. 3
         /\ k \notin High \cup {"IMUL_RCP"} => Len(InfoOf[k].ops) \in 0 .. 1
         /\ k = "IMUL_RCP" => Len(InfoOf[k].ops) = 2
         /\ k \in High => Len(InfoOf[k].ops) = 3
<1>1. CASE k \in {"INVALID", "ISUB_R", "IXOR_R", "IADD_RS", "IMUL_R", "IROR_C", "IADD_C", "IXOR_C"}
  <2>1. Len(InfoOf[k].ops) \in 0 .. 1
    BY <1>1, Table
  <2>2. k \notin High \cup {"IMUL_RCP"}
    BY <1>1 DEF High
  <2> QED BY <2>1, <2>2
<1>2. CASE k = "IMUL_RCP"
  BY <1>2, Table DEF High
<1>3. CASE k \in High
  BY <1>3, Table DEF High
<1> QED BY <1>1, <1>2, <1>3 DEF Kinds, High

LEMMA Slots ==
  ASSUME NEW b \in Buffers
  PROVE  /\ Len(b) \in {3, 4} /\ Len(b) <= 4 /\ (b = B3310 => Len(b) <= 3)
         /\ b = B3310 => Len(b) = 3 /\ b[1] = 3 /\ b[2] = 3 /\ b[3] = 10
         /\ b \in {B484, B493, B4444} => b[1] = 4 /\ b # B3310
         /\ \A n \in 1 .. Len(b) : b[n] \in {3, 4, 7, 8, 9, 10}
         /\ \A n \in 1 .. Len(b) : b[n] = 10 => n = Len(b)
<1> USE DEF B484, B7333, B3733, B493, B4444, B3310
<1>1. CASE b = B484
  BY <1>1
<1>2. CASE b = B7333
  BY <1>2
<1>3. CASE b = B3733
  BY <1>3
<1>4. CASE b = B493
  BY <1>4
<1>5. CASE b = B4444
  BY <1>5
<1>6. CASE b = B3310
  BY <1>6
<1> QED BY <1>1, <1>2, <1>3, <1>4, <1>5, <1>6 DEF Buffers

-----------------------------------------------------------------------------
(* The invariant.                                                          *)

Instructions == [kind : Kinds, src : Regs \cup {NoReg}, dst : Regs \cup {NoReg},
                 par : Draws \cup Regs \cup {-1, 0}]

Types ==
  /\ at \in {"fetch", "fill", "place", "done"}
  /\ instr \in Instructions
  /\ op \in 1 .. 4 /\ decoded \in Nat
  /\ at \in {"fill", "place"} => buffer \in Buffers /\ slot \in 1 .. Len(buffer)

\* Where a macro-op comes: an instruction of several begins in the last slot of a
\* buffer and goes on at the head of one chosen for it.
Fitting ==
  \/ op = 1 /\ instr.kind \in ForSlot
  \/ op = 2 /\ slot = 1 /\ instr.kind \in High /\ buffer = B3310
  \/ op = 2 /\ slot = 1 /\ instr.kind = "IMUL_RCP" /\ buffer \in {B484, B493, B4444}
  \/ op = 3 /\ slot = 2 /\ instr.kind \in High /\ buffer = B3310

FitInv ==
  /\ at \in {"fill", "place"} /\ ~Issued => Fitting
  /\ at = "place" => ~Issued

\* What is left over from one buffer for the next.
CarryInv ==
  at = "fetch" /\ ~saturated /\ ~Issued =>
    op = 2 /\ instr.kind \in High \cup {"IMUL_RCP"}

\* A micro-op for each slot, and one more for the multiplication to 128 bits.
CountInv ==
  /\ decoded <= 4
  /\ at \in {"fill", "place"} =>
       decoded <= slot - 1 + (IF buffer = B3310 /\ slot > 1 THEN 1 ELSE 0)

IInv == Types /\ FitInv /\ CarryInv /\ CountInv

LEMMA SlotKind ==
  ASSUME buffer \in Buffers, slot \in 1 .. Len(buffer), NEW k \in ForSlot
  PROVE  /\ k \in Kinds /\ k # "INVALID"
         /\ k \in High \cup {"IMUL_RCP"} => slot = Len(buffer)
         /\ k \in High => buffer # B3310
         /\ \/ InfoOf[k].ops[1].size = buffer[slot]
            \/ InfoOf[k].ops[1].size = 7 /\ buffer[slot] \in {8, 9}
<1>1. buffer[slot] \in {3, 4, 7, 8, 9, 10}
  BY Slots
<1>2. CASE buffer[slot] = 3
  <2>1. /\ k \in {"ISUB_R", "IXOR_R"} \cup High
        /\ k \in High => slot = Len(buffer)
    BY <1>2 DEF ForSlot, High
  <2>2. k \in Kinds /\ k # "INVALID" /\ k # "IMUL_RCP"
    BY <2>1 DEF High, Kinds
  <2>3. InfoOf[k].ops[1].size = 3
    BY <2>1, <2>2, Table
  <2>4. buffer = B3310 => slot # Len(buffer)
    BY <1>2, Slots
  <2> QED BY <1>2, <2>1, <2>2, <2>3, <2>4
<1>3. CASE buffer[slot] = 4
  <2>1. k \in {"IMUL_R", "IROR_C", "IADD_RS"}
    BY <1>3 DEF ForSlot
  <2>2. k \in Kinds /\ k # "INVALID" /\ k # "IMUL_RCP" /\ k \notin High
    BY <2>1 DEF High, Kinds
  <2>3. InfoOf[k].ops[1].size = 4
    BY <2>1, <2>2, Table
  <2> QED BY <1>3, <2>2, <2>3
<1>4. CASE buffer[slot] \in {7, 8, 9}
  <2>1. k \in {"IADD_C", "IXOR_C"}
    BY <1>4 DEF ForSlot
  <2>2. k \in Kinds /\ k # "INVALID" /\ k # "IMUL_RCP" /\ k \notin High
    BY <2>1 DEF High, Kinds
  <2>3. InfoOf[k].ops[1].size = 7
    BY <2>1, <2>2, Table
  <2> QED BY <1>4, <2>2, <2>3
<1>5. CASE buffer[slot] = 10
  <2>1. k = "IMUL_RCP" /\ slot = Len(buffer)
    BY <1>5, Slots DEF ForSlot
  <2>2. k \in Kinds /\ k \notin High
    BY <2>1 DEF High, Kinds
  <2>3. InfoOf[k].ops[1].size = 10
    BY <2>1, <2>2, Table
  <2> QED BY <1>5, <2>1, <2>2, <2>3
<1> QED BY <1>1, <1>2, <1>3, <1>4, <1>5

-----------------------------------------------------------------------------
(* Steps that leave the inner loop, or give the instruction up.            *)

LEMMA NoOps ==
  /\ Null \in Instructions
  /\ Len(InfoOf[Null.kind].ops) = 0
<1>1. Null.kind = "INVALID" /\ "INVALID" \in Kinds
  BY DEF Null, Kinds
<1>2. Len(InfoOf["INVALID"].ops) = 0
  BY <1>1, Table
<1> QED BY <1>1, <1>2 DEF Null, Instructions

LEMMA BreakKeeps ==
  ASSUME IInv, Break, saturated' \/ Issued, UNCHANGED instr
  PROVE  IInv'
<1> USE DEF IInv, Types, Break, placement
<1>1. Types'
  OBVIOUS
<1>2. FitInv'
  BY DEF FitInv
<1>3. CarryInv'
  BY DEF CarryInv, Issued, InstrInfo
<1>4. CountInv'
  BY DEF CountInv
<1> QED BY <1>1, <1>2, <1>3, <1>4

LEMMA ThrowAwayKeeps ==
  ASSUME IInv, at \in {"fill", "place"}, ThrowAway
  PROVE  IInv'
<1>1. Length \in 0 .. 3
  BY Lengths DEF Length, InstrInfo, IInv, Types, Instructions
<1>2. Issued'
  BY <1>1 DEF Issued, InstrInfo, Length, ThrowAway
<1> USE DEF IInv, Types, ThrowAway, placement
<1>3. Types'
  <2>1. op' = Length + 1
    BY DEF ThrowAway, Length
  <2>2. op' \in 1 .. 4
    BY <1>1, <2>1
  <2> QED BY <2>2
<1>4. FitInv'
  BY <1>2 DEF FitInv
<1>5. CarryInv'
  BY DEF CarryInv
<1>6. CountInv'
  BY DEF CountInv
<1> QED BY <1>3, <1>4, <1>5, <1>6

LEMMA GiveUpKeeps ==
  ASSUME IInv, GiveUp
  PROVE  IInv'
<1> USE DEF IInv, Types, GiveUp, placement
<1>1. Types'
  BY NoOps
<1>2. Issued'
  BY NoOps DEF Issued, InstrInfo
<1>3. FitInv'
  BY DEF FitInv
<1>4. CarryInv'
  BY <1>2 DEF CarryInv
<1>5. CountInv'
  BY DEF CountInv
<1> QED BY <1>1, <1>3, <1>4, <1>5

-----------------------------------------------------------------------------
(* The macro-op that is placed.                                            *)

LEMMA IssueKeeps ==
  ASSUME IInv, at = "place", NEW n, NEW dst, Issue(InstrInfo.ops[op], n, dst),
         instr' \in Instructions, instr'.kind = instr.kind
  PROVE  IInv'
<1>0. /\ op \in 1 .. 4 /\ decoded \in Nat /\ buffer \in Buffers /\ slot \in 1 .. Len(buffer)
      /\ FitInv /\ CountInv
  BY DEF IInv, Types
<1>1. instr'.kind = instr.kind /\ instr.kind \in Kinds
  BY DEF IInv, Types, Instructions
<1>2. /\ slot' = slot + 1 /\ op' = op + 1 /\ buffer' = buffer
      /\ decoded' = decoded + MicroOps(InstrInfo.ops[op])
      /\ at' = IF slot' > Len(buffer) THEN "fetch" ELSE "fill"
  BY DEF Issue, GoOn
<1>3. ~Issued /\ Fitting /\ buffer \in Buffers /\ slot \in 1 .. Len(buffer)
  BY <1>0 DEF FitInv
<1>4. Issued' <=> op + 1 > Length
  BY <1>1, <1>2 DEF Issued, InstrInfo, Length
<1>5. /\ Length \in 0 .. 3 /\ op <= Length
      /\ instr.kind \notin High \cup {"IMUL_RCP"} => Length \in 0 .. 1
      /\ instr.kind = "IMUL_RCP" => Length = 2
      /\ instr.kind \in High => Length = 3
  <2>1. instr.kind \in Kinds
    BY <1>1
  <2>2. Length \in 0 .. 3
    BY <2>1, Lengths DEF InstrInfo, Length
  <2>3. op <= Length
    BY <2>2, <1>0, <1>3 DEF Issued, Length
  <2> QED BY <2>1, <2>2, <2>3, Lengths DEF InstrInfo, Length
<1>6. MicroOps(InstrInfo.ops[op]) = IF instr.kind \in High /\ op = 2 THEN 2 ELSE 1
  <2>1. op \in 1 .. Len(InfoOf[instr.kind].ops)
    BY <1>0, <1>5 DEF Length, InstrInfo
  <2> QED BY <2>1, <1>1, OneMicroOp DEF InstrInfo
<1>7. "IMUL_RCP" \notin High
  BY DEF High
<1>8. /\ Len(buffer) \in {3, 4} /\ (buffer = B3310 => Len(buffer) = 3)
      /\ Len(buffer) <= 4 /\ (buffer = B3310 => Len(buffer) <= 3)
  BY <1>3, Slots
<1>9. op = 1 /\ instr.kind \in High \cup {"IMUL_RCP"} => slot = Len(buffer)
  BY <1>3, <1>7, SlotKind DEF Fitting
<1>10. Types'
  BY <1>0, <1>1, <1>2, <1>3, <1>5, <1>6, <1>8 DEF Types
<1>11. FitInv'
  <2> SUFFICES ASSUME at' = "fill", ~Issued' PROVE Fitting'
    BY <1>2 DEF FitInv
  <2>1. op = 2 /\ instr.kind \in High
    <3>1. slot # Len(buffer)
      BY <1>0, <1>2, <1>8
    <3>2. instr.kind \in High \cup {"IMUL_RCP"}
      BY <1>0, <1>4, <1>5
    <3>3. op = 2
      BY <3>1, <3>2, <1>0, <1>3, <1>4, <1>5, <1>9 DEF Fitting
    <3> QED BY <3>2, <3>3, <1>4, <1>5
  <2> QED BY <2>1, <1>1, <1>2, <1>3, <1>7 DEF Fitting
<1>12. CarryInv'
  <2> SUFFICES ASSUME at' = "fetch", ~Issued' PROVE op' = 2 /\ instr'.kind \in High \cup {"IMUL_RCP"}
    BY DEF CarryInv
  <2>1. slot = Len(buffer)
    BY <1>0, <1>2, <1>8
  <2>2. op # 2
    BY <2>1, <1>3, <1>4, <1>5, <1>7, <1>8 DEF Fitting
  <2>3. instr.kind \in High \cup {"IMUL_RCP"}
    BY <1>0, <1>4, <1>5
  <2>4. op = 1
    BY <2>2, <1>3, <1>4, <1>5, <1>7 DEF Fitting
  <2> QED BY <2>3, <2>4, <1>1, <1>2
<1>13. CountInv'
  <2>1. decoded <= slot - 1 + (IF buffer = B3310 /\ slot > 1 THEN 1 ELSE 0)
    BY <1>0 DEF CountInv
  <2>2. instr.kind \in High /\ op = 2 => slot = 1 /\ buffer = B3310
    BY <1>3, <1>7 DEF Fitting
  <2>3. decoded' <= slot' - 1 + (IF buffer = B3310 /\ slot' > 1 THEN 1 ELSE 0)
    BY <2>1, <2>2, <1>0, <1>2, <1>6, <1>8
  <2>4. slot \in Nat /\ slot <= 4 /\ (buffer = B3310 => slot <= 3)
    <3>1. slot \in Nat /\ slot <= Len(buffer)
      BY <1>0, <1>8
    <3>2. Len(buffer) <= 4
      BY <1>8
    <3>3. buffer = B3310 => Len(buffer) <= 3
      BY <1>8
    <3> QED BY <3>1, <3>2, <3>3, <1>8
  <2>5. decoded' \in Nat /\ slot' = slot + 1 /\ buffer' = buffer
    BY <1>0, <1>2, <1>6
  <2>6. decoded' <= 4
    BY <2>3, <2>4, <2>5
  <2> QED BY <2>3, <2>5, <2>6 DEF CountInv
<1> QED BY <1>10, <1>11, <1>12, <1>13 DEF IInv

-----------------------------------------------------------------------------
(* The steps of the generator.                                             *)

LEMMA CommitKeeps ==
  ASSUME IInv, at = "place", NEW c, NEW dst \in Regs \cup {NoReg}, Commit(c, dst)
  PROVE  IInv'
<1>1. /\ instr' \in Instructions /\ instr'.kind = instr.kind
      /\ Issued /\ UNCHANGED op => Issued'
  <2>1. instr' = [instr EXCEPT !.dst = dst] /\ instr \in Instructions
    BY DEF Commit, IInv, Types
  <2> QED BY <2>1 DEF Instructions, Issued, InstrInfo
<1>2. CASE Saturate
  <2> USE DEF IInv, Types, Saturate, Break, placement
  <2>1. Types' /\ FitInv' /\ CarryInv'
    BY <1>1, <1>2 DEF FitInv, CarryInv
  <2>2. CountInv'
    BY <1>2 DEF CountInv
  <2> QED BY <2>1, <2>2
<1>3. CASE \E n : Issue(InstrInfo.ops[op], n, dst)
  BY <1>1, <1>3, IssueKeeps
<1> QED BY <1>2, <1>3 DEF Commit

LEMMA PlaceKeeps ==
  ASSUME IInv, Place
  PROVE  IInv'
<1>1. at = "place" /\ instr.dst \in Regs \cup {NoReg}
  BY DEF Place, IInv, Types, Instructions
<1>2. \A c : Destinations(c) \subseteq Regs
  BY DEF Destinations, Ready
<1>3. \/ \E c : \E dst \in Regs \cup {NoReg} : Commit(c, dst)
      \/ ThrowAway \/ GiveUp
  BY <1>1, <1>2 DEF Place
<1> QED BY <1>1, <1>3, CommitKeeps, ThrowAwayKeeps, GiveUpKeeps

LEMMA SourceKeeps ==
  ASSUME IInv, Source
  PROVE  IInv'
<1>1. at = "fill" /\ ~Issued
  BY DEF Source
<1>2. \A c : Sources(c) \subseteq Regs
  BY SuperscalarAssumption DEF Sources, Ready
<1>3. CASE Saturate /\ UNCHANGED instr
  BY <1>3, BreakKeeps DEF Saturate
<1>4. CASE ThrowAway \/ GiveUp
  BY <1>1, <1>4, ThrowAwayKeeps, GiveUpKeeps
<1>5. CASE /\ at' = "place" /\ UNCHANGED <<buffer, slot, op, placement>>
           /\ \/ UNCHANGED instr
              \/ \E r \in Regs : instr' = [instr EXCEPT !.src = r,
                                   !.par = IF instr.kind \in FromSource THEN r ELSE @]
  <2>1. instr' \in Instructions /\ instr'.kind = instr.kind
    BY <1>5 DEF IInv, Types, Instructions
  <2>2. Issued' = Issued /\ ForSlot' = ForSlot
    BY <2>1, <1>5 DEF Issued, InstrInfo, ForSlot
  <2>3. Types'
    BY <2>1, <1>1, <1>5 DEF IInv, Types, placement
  <2>4. FitInv'
    BY <2>1, <2>2, <1>1, <1>5 DEF IInv, FitInv, Fitting
  <2>5. CarryInv' /\ CountInv'
    BY <1>1, <1>5 DEF IInv, CarryInv, CountInv, placement
  <2> QED BY <2>3, <2>4, <2>5 DEF IInv
<1> QED BY <1>2, <1>3, <1>4, <1>5 DEF Source

LEMMA FetchKeeps ==
  ASSUME IInv, Fetch
  PROVE  IInv'
<1> USE DEF Fetch
<1>1. NextBuffers \subseteq Buffers
  BY DEF NextBuffers, Buffers
<1>2. /\ buffer' \in Buffers /\ slot' = 1 /\ at' = "fill" /\ decoded' = 0
      /\ 1 \in 1 .. Len(buffer') /\ instr' = instr /\ op' = op
  BY <1>1, Slots
<1>3. Types'
  BY <1>2 DEF IInv, Types
<1>4. FitInv'
  <2> SUFFICES ASSUME ~Issued' PROVE Fitting'
    BY <1>2 DEF FitInv
  <2>1. ~Issued
    BY <1>2 DEF Issued, InstrInfo
  <2>2. op = 2 /\ instr.kind \in High \cup {"IMUL_RCP"}
    BY <2>1 DEF IInv, CarryInv
  <2>3. instr.kind \in High => buffer' = B3310
    BY DEF NextBuffers
  <2>4. instr.kind \notin High => buffer' \in {B484, B493, B4444}
    BY <2>2 DEF NextBuffers
  <2> QED BY <2>2, <2>3, <2>4, <1>2 DEF Fitting
<1>5. CarryInv' /\ CountInv'
  BY <1>2 DEF CarryInv, CountInv
<1> QED BY <1>3, <1>4, <1>5 DEF IInv

LEMMA CreateKeeps ==
  ASSUME IInv, Create
  PROVE  IInv'
<1>1. /\ at = "fill" /\ op' = 1 /\ UNCHANGED <<at, buffer, slot, decoded>>
      /\ buffer \in Buffers /\ slot \in 1 .. Len(buffer)
  BY DEF Create, placement, IInv, Types
<1>2. PICK kind \in ForSlot :
        \E par \in Draws \cup {-1} : instr' = [kind |-> kind, src |-> NoReg, dst |-> NoReg, par |-> par]
  BY DEF Create
<1>3. kind \in Kinds
  BY <1>1, SlotKind
<1>4. instr' \in Instructions /\ instr'.kind = kind
  BY <1>2, <1>3 DEF Instructions
<1>5. ForSlot' = ForSlot
  BY <1>1 DEF ForSlot
<1>6. Types'
  BY <1>1, <1>4 DEF IInv, Types
<1>7. FitInv'
  BY <1>1, <1>4, <1>5 DEF FitInv, Fitting
<1>8. CarryInv' /\ CountInv'
  BY <1>1 DEF IInv, CarryInv, CountInv
<1> QED BY <1>6, <1>7, <1>8 DEF IInv

LEMMA NextKeeps ==
  ASSUME IInv, [SuperNext]_superVars
  PROVE  IInv'
<1>1. CASE Fetch
  BY <1>1, FetchKeeps
<1>2. CASE Create
  BY <1>2, CreateKeeps
<1>3. CASE CreateNoMore
  BY <1>3, BreakKeeps DEF CreateNoMore
<1>4. CASE Source
  BY <1>4, SourceKeeps
<1>5. CASE Place
  BY <1>5, PlaceKeeps
<1>6. CASE Finish
  BY <1>6 DEF Finish, placement, IInv, Types, FitInv, CarryInv, CountInv
<1>7. CASE UNCHANGED superVars
  <2>1. Issued' = Issued /\ ForSlot' = ForSlot
    BY <1>7 DEF superVars, Issued, InstrInfo, ForSlot
  <2> QED BY <2>1, <1>7 DEF superVars, IInv, Types, FitInv, Fitting, CarryInv, CountInv
<1> QED BY <1>1, <1>2, <1>3, <1>4, <1>5, <1>6, <1>7 DEF SuperNext, SuperDone

LEMMA InitHolds == SuperInit => IInv
<1> SUFFICES ASSUME SuperInit PROVE IInv
  OBVIOUS
<1>1. Issued
  BY NoOps DEF SuperInit, Issued, InstrInfo
<1>2. Types
  BY NoOps DEF SuperInit, Types
<1> QED BY <1>1, <1>2 DEF SuperInit, IInv, FitInv, CarryInv, CountInv

LEMMA InvDecodable == IInv => Decodable
<1> SUFFICES ASSUME IInv PROVE Decodable
  OBVIOUS
<1>1. decoded <= 4
  BY DEF IInv, CountInv
<1>2. ASSUME at \in {"fill", "place"}, ~Issued
      PROVE  \/ InstrInfo.ops[op].size = buffer[slot]
             \/ InstrInfo.ops[op].size = 7 /\ buffer[slot] \in {8, 9}
  <2>1. buffer \in Buffers /\ slot \in 1 .. Len(buffer) /\ Fitting /\ instr.kind \in Kinds
    BY <1>2 DEF IInv, Types, FitInv, Instructions
  <2>2. CASE op = 1 /\ instr.kind \in ForSlot
    BY <2>1, <2>2, SlotKind DEF InstrInfo
  <2>3. CASE op = 2 /\ slot = 1 /\ instr.kind \in High /\ buffer = B3310
    <3>1. InfoOf[instr.kind].ops[2].size = 3 /\ buffer[1] = 3
      BY <2>1, <2>3, Table, Slots
    <3> QED BY <3>1, <2>3 DEF InstrInfo
  <2>4. CASE op = 2 /\ slot = 1 /\ instr.kind = "IMUL_RCP" /\ buffer \in {B484, B493, B4444}
    <3>1. InfoOf[instr.kind].ops[2].size = 4 /\ buffer[1] = 4
      BY <2>1, <2>4, Table, Slots
    <3> QED BY <3>1, <2>4 DEF InstrInfo
  <2>5. CASE op = 3 /\ slot = 2 /\ instr.kind \in High /\ buffer = B3310
    <3>1. InfoOf[instr.kind].ops[3].size = 3 /\ buffer[2] = 3
      BY <2>1, <2>5, Table, Slots
    <3> QED BY <3>1, <2>5 DEF InstrInfo
  <2> QED BY <2>1, <2>2, <2>3, <2>4, <2>5 DEF Fitting
<1> QED BY <1>1, <1>2 DEF Decodable

(***************************************************************************)
(* The slots of every buffer hold what was planned for them: no macro-op   *)
(* meets a slot of another size, and no buffer decodes to more than four   *)
(* micro-ops, whatever is drawn, thrown away or given up (generateSuper-   *)
(* scalar, fetchNext and createForSlot).                                   *)
(***************************************************************************)
THEOREM AlwaysDecodable == SuperSpec => []Decodable
<1>1. IInv /\ [SuperNext]_superVars => IInv'
  BY NextKeeps
<1> QED BY InitHolds, <1>1, InvDecodable, PTL DEF SuperSpec
-----------------------------------------------------------------------------
(* The cycle at which an operand is ready.                                 *)

LEMMA MinOfNaturals ==
  ASSUME NEW T \in SUBSET Nat, T # {}
  PROVE  Min(T) \in T /\ \A y \in T : Min(T) <= y
<1> DEFINE F == {0 .. x : x \in T}
           R == StrictSubsetOrdering(Nat)
<1>1. F \subseteq FiniteSubsetsOf(Nat) /\ F # {}
  <2>1. \A x \in T : 0 .. x \in SUBSET Nat /\ IsFiniteSet(0 .. x)
    BY FS_Interval
  <2> QED BY <2>1 DEF FiniteSubsetsOf
<1>2. IsWellFoundedOn(R, FiniteSubsetsOf(Nat))
  BY FS_StrictSubsetOrderingWellFounded
<1>3. \E s \in F : \A t \in F : ~(<<t, s>> \in R)
  <2> HIDE DEF F, R
  <2> QED BY <1>1, <1>2, WFMin
<1>4. PICK x \in T : \A y \in T : ~(<<0 .. y, 0 .. x>> \in R)
  BY <1>3
<1>5. \A y \in T : x <= y
  <2>1. SUFFICES ASSUME NEW y \in T, y < x PROVE FALSE
    OBVIOUS
  <2>2. 0 .. y \subseteq 0 .. x /\ x \in 0 .. x /\ x \notin 0 .. y
    BY <2>1
  <2>3. <<0 .. y, 0 .. x>> \in (SUBSET Nat) \X (SUBSET Nat)
    OBVIOUS
  <2> QED BY <1>4, <2>2, <2>3 DEF StrictSubsetOrdering
<1> QED BY <1>5 DEF Min

LEMMA ScheduleFrom ==
  ASSUME NEW mop, NEW c \in Nat
  PROVE  Schedule(mop, c) \in Nat /\ Schedule(mop, c) >= c
<1> DEFINE T == {n \in c .. Horizon : Fits(mop, n)} \cup {Max({c, Horizon + 1})}
<1>1. Horizon + 1 \in Nat
  BY SuperscalarAssumption DEF Horizon
<1>2. Max({c, Horizon + 1}) \in {c, Horizon + 1} /\ Max({c, Horizon + 1}) >= c
  BY <1>1 DEF Max
<1>3. T \in SUBSET Nat /\ T # {} /\ \A n \in T : n >= c
  BY <1>1, <1>2
<1>4. Min(T) \in Nat /\ Min(T) >= c
  <2> HIDE DEF T
  <2> QED BY <1>3, MinOfNaturals
<1>5. Schedule(mop, c) = c \/ Schedule(mop, c) = Min(T)
  BY DEF Schedule
<1> QED BY <1>4, <1>5

\* Which macro-op needs what, and how long it takes.
LEMMA Operands ==
  ASSUME NEW k \in Kinds
  PROVE  /\ k \notin High => /\ InfoOf[k].dstOp = InfoOf[k].resultOp
                             /\ InfoOf[k].srcOp \in {0, InfoOf[k].resultOp}
         /\ k \in High => /\ InfoOf[k].srcOp = 2 /\ InfoOf[k].dstOp = 1 /\ InfoOf[k].resultOp = 2
                          /\ InfoOf[k].ops[1] = Mov_rr
         /\ \A o \in 1 .. Len(InfoOf[k].ops) : InfoOf[k].ops[o].latency \in Nat
<1>1. CASE k = "INVALID"
  BY <1>1 DEF InfoOf, Info, High
<1>2. CASE k \in {"ISUB_R", "IXOR_R", "IADD_RS"}
  BY <1>2 DEF InfoOf, Info, Mop, Alu3, Lea_sib, High
<1>3. CASE k \in {"IMUL_R", "IROR_C", "IADD_C", "IXOR_C"}
  BY <1>3 DEF InfoOf, Info, Mop, Imul_rr, Ror_ri, Alu7, High
<1>4. CASE k \in {"IMULH_R", "ISMULH_R"}
  <2>1. /\ InfoOf[k].srcOp = 2 /\ InfoOf[k].dstOp = 1 /\ InfoOf[k].resultOp = 2
        /\ InfoOf[k].ops = <<Mov_rr, Mul_r, Mov_rr>>
    BY <1>4 DEF InfoOf, Info
  <2>2. Mov_rr.latency = 0 /\ Mul_r.latency = 4
    BY DEF Mov_rr, Mul_r, Mop
  <2>3. \A o \in 1 .. 3 : o = 1 \/ o = 2 \/ o = 3
    OBVIOUS
  <2>4. Len(InfoOf[k].ops) = 3
    BY <2>1
  <2>5. ASSUME NEW o \in 1 .. 3 PROVE InfoOf[k].ops[o].latency \in Nat
    <3>1. InfoOf[k].ops[o] = Mov_rr \/ InfoOf[k].ops[o] = Mul_r
      BY <2>1, <2>3
    <3> QED BY <2>2, <3>1
  <2>6. InfoOf[k].ops[1] = Mov_rr
    BY <2>1
  <2> QED BY <1>4, <2>1, <2>4, <2>5, <2>6 DEF High
<1>5. CASE k = "IMUL_RCP"
  BY <1>5 DEF InfoOf, Info, Mop, Mov_ri64, Imul_dep, High
<1> QED BY <1>1, <1>2, <1>3, <1>4, <1>5 DEF Kinds, High

Cycles == /\ cycle \in Nat /\ topCycle \in Nat /\ when \in Nat /\ depCycle \in Nat
          /\ ready \in [Regs -> Nat]

\* A macro-op is placed no earlier than its source is ready; the first one of
\* IMULH, a move, where its search began.
SourceInv ==
  /\ InstrInfo.srcOp = 0 => instr.src = NoReg
  /\ instr.kind \in High /\ op = 2 => instr.dst \in Regs
  /\ at = "place" => /\ topCycle <= when
                     /\ op = InstrInfo.srcOp => instr.src \in Regs /\ ready[instr.src] <= when
                     /\ instr.kind \in High /\ op = 1 => when = topCycle

\* The destination that IMULH has selected before its source: it is ready in the
\* next buffer's cycle, or no register is ready before it.
HighInv ==
  instr.kind \in High /\ op = 2 =>
    /\ at = "place" => ready[instr.dst] <= when
    /\ at = "fill" \/ (at = "fetch" /\ ~saturated) =>
         ready[instr.dst] <= cycle \/ \A r \in Regs : ready[instr.dst] <= ready[r]

OperandInv == IInv /\ Cycles /\ SourceInv

\* The 32 random bits of a multiplication are not those of the last one of its
\* kind that wrote a register.
FreshDraw ==
  at = "place" /\ instr.kind \in High /\ op = 1 =>
    \A r \in Regs : lastOp[r] # [group |-> InstrInfo.group, par |-> instr.par]
-----------------------------------------------------------------------------
(* Its steps.                                                              *)

LEMMA AtPlace ==
  ASSUME OperandInv, at = "place"
  PROVE  /\ op \in 1 .. Length /\ instr.kind \in Kinds /\ instr \in Instructions
         /\ InstrInfo.ops[op].latency \in Nat
<1>1. instr \in Instructions /\ op \in 1 .. 4 /\ ~Issued
  BY DEF OperandInv, IInv, Types, FitInv
<1>2. instr.kind \in Kinds
  BY <1>1 DEF Instructions
<1>3. Length \in 0 .. 3
  BY <1>2, Lengths DEF Length, InstrInfo
<1>4. op \in 1 .. Length
  BY <1>1, <1>3 DEF Issued, Length
<1> QED BY <1>1, <1>2, <1>4, Operands DEF InstrInfo, Length

\* A step back to the head of a loop: nothing is placed.
LEMMA LeavesOperands ==
  ASSUME OperandInv, at' \in {"fetch", "fill", "done"}, Cycles',
         instr' = instr \/ instr' = Null, op' = op \/ op' = Length + 1
  PROVE  SourceInv'
<1>1. CASE instr' = instr /\ op' = op
  BY <1>1 DEF OperandInv, SourceInv, InstrInfo
<1>2. CASE instr' = Null
  BY <1>2 DEF SourceInv, Null, High
<1>3. CASE instr' = instr /\ op' = Length + 1
  <2>1. instr.kind \in Kinds
    BY DEF OperandInv, IInv, Types, Instructions
  <2>a. instr.kind \in High => Length = 3
    BY <2>1, Lengths DEF Length, InstrInfo
  <2>2. instr.kind \in High => op' = 4
    BY <1>3, <2>a
  <2> QED BY <1>3, <2>2 DEF OperandInv, SourceInv, InstrInfo
<1> QED BY <1>1, <1>2, <1>3

LEMMA BackOperands ==
  ASSUME OperandInv,
         \/ Break /\ instr' = instr
         \/ Fetch \/ CreateNoMore \/ Finish \/ ThrowAway \/ GiveUp
  PROVE  /\ at' \in {"fetch", "fill", "done"} /\ (instr' = instr \/ instr' = Null)
         /\ op' = op \/ op' = Length + 1
         /\ Cycles' /\ SourceInv' /\ hasty' = hasty
<1>1. /\ at' \in {"fetch", "fill", "done"} /\ (instr' = instr \/ instr' = Null)
      /\ hasty' = hasty /\ (op' = op \/ op' = Length + 1)
  BY DEF Break, Fetch, CreateNoMore, Finish, ThrowAway, GiveUp, placement, Length
<1>2. Cycles'
  <2>1. cycle' \in Nat
    BY SuperscalarAssumption DEF OperandInv, Cycles, Break, Fetch, CreateNoMore, Finish, ThrowAway, GiveUp
  <2>2. when' \in {0, when} /\ UNCHANGED <<topCycle, depCycle, ready>>
    BY DEF Break, Fetch, CreateNoMore, Finish, ThrowAway, GiveUp, placement
  <2> QED BY <2>1, <2>2 DEF OperandInv, Cycles
<1> QED BY <1>1, <1>2, LeavesOperands

LEMMA CreateOperands ==
  ASSUME OperandInv, Create
  PROVE  Cycles' /\ SourceInv' /\ HighInv' /\ hasty' = hasty
<1>1. /\ instr'.src = NoReg /\ op' = 1 /\ at' = "fill"
      /\ UNCHANGED <<cycle, topCycle, when, depCycle, ready, hasty>>
  BY DEF Create, placement
<1> QED BY <1>1 DEF OperandInv, Cycles, SourceInv, HighInv

\* Where the search for ports and for the source began, and what it found.
LEMMA SourceFound ==
  ASSUME OperandInv, Source, at' = "place"
  PROVE  /\ cycle' \in Nat /\ when' \in Nat /\ topCycle' = cycle /\ topCycle' <= when'
         /\ UNCHANGED <<depCycle, ready, hasty, op>> /\ at = "fill" /\ instr'.kind = instr.kind
         /\ instr'.dst = instr.dst
         /\ \/ op # InstrInfo.srcOp /\ instr' = instr
            \/ op = InstrInfo.srcOp /\ instr'.src \in Regs /\ ready[instr'.src] <= when'
         /\ instr.kind \in High /\ op = 1 => when' = topCycle'
<1> DEFINE mop == InstrInfo.ops[op]
           from == IF mop.dependent THEN Max({cycle, depCycle}) ELSE cycle
           first == Schedule(mop, from)
           wait == SourceWaits(first)
<1>1. instr \in Instructions /\ instr.kind \in Kinds /\ cycle \in Nat /\ depCycle \in Nat
  BY DEF OperandInv, IInv, Types, Instructions, Cycles
<1>2. from \in Nat /\ from >= cycle
  <2>1. Max({cycle, depCycle}) \in {cycle, depCycle} /\ Max({cycle, depCycle}) >= cycle
    BY <1>1 DEF Max
  <2> QED BY <1>1, <2>1
<1>3. first \in Nat /\ first >= cycle
  <2> HIDE DEF from, mop
  <2>1. first \in Nat /\ first >= from
    BY <1>2, ScheduleFrom
  <2> HIDE DEF first
  <2> QED BY <1>1, <1>2, <2>1
<1>4. instr.kind \in High /\ op = 1 => first = cycle
  <2> SUFFICES ASSUME instr.kind \in High, op = 1 PROVE first = cycle
    OBVIOUS
  <2>1. mop = Mov_rr
    BY <1>1, Operands DEF InstrInfo
  <2> QED BY <2>1 DEF Schedule, Mov_rr, Mop
<1>5. /\ at = "fill" /\ topCycle' = cycle /\ UNCHANGED <<op, placement>>
      /\ \/ op # InstrInfo.srcOp /\ instr' = instr /\ when' = first /\ cycle' = cycle
         \/ /\ op = InstrInfo.srcOp /\ wait # {}
            /\ \E r \in Sources(first + Min(wait)) :
                 instr' = [instr EXCEPT !.src = r, !.par = IF instr.kind \in FromSource THEN r ELSE @]
            /\ when' = first + Min(wait) /\ cycle' = cycle + Min(wait)
  BY DEF Source, Saturate, Break, ThrowAway, GiveUp
<1> HIDE DEF first
<1>6. CASE op # InstrInfo.srcOp /\ instr' = instr /\ when' = first /\ cycle' = cycle
  BY <1>1, <1>3, <1>4, <1>5, <1>6 DEF placement
<1>7. CASE /\ op = InstrInfo.srcOp /\ wait # {}
           /\ \E r \in Sources(first + Min(wait)) :
                instr' = [instr EXCEPT !.src = r, !.par = IF instr.kind \in FromSource THEN r ELSE @]
           /\ when' = first + Min(wait) /\ cycle' = cycle + Min(wait)
  <2>1. wait \in SUBSET Nat
    BY SuperscalarAssumption DEF SourceWaits
  <2>2. Min(wait) \in Nat
    <3> HIDE DEF wait
    <3> QED BY <1>7, <2>1, MinOfNaturals
  <2>3. \A r \in Sources(when') : r \in Regs /\ ready[r] <= when'
    BY SuperscalarAssumption DEF Sources, Ready
  <2>4. /\ instr'.src \in Sources(when') /\ instr'.kind = instr.kind /\ instr'.dst = instr.dst
    BY <1>1, <1>7 DEF Instructions
  <2>5. ~(instr.kind \in High /\ op = 1)
    BY <1>1, <1>7, Operands DEF InstrInfo
  <2>6. cycle' \in Nat /\ when' \in Nat /\ topCycle' <= when'
    <3>1. when' = first + Min(wait) /\ cycle' = cycle + Min(wait) /\ topCycle' = cycle
      BY <1>5, <1>7, Zenon
    <3> HIDE DEF wait
    <3> QED BY <1>1, <1>3, <2>2, <3>1
  <2>7. instr'.src \in Regs /\ ready[instr'.src] <= when'
    BY <2>3, <2>4
  <2>8. UNCHANGED <<depCycle, ready, hasty, op>> /\ at = "fill" /\ topCycle' = cycle
    BY <1>5 DEF placement
  <2> HIDE DEF wait
  <2> QED BY <1>7, <2>4, <2>5, <2>6, <2>7, <2>8, Zenon
<1> QED BY <1>5, <1>6, <1>7

LEMMA SourceOperands ==
  ASSUME OperandInv, Source
  PROVE  Cycles' /\ SourceInv' /\ hasty' = hasty
<1>1. CASE at' = "place"
  <2>1. Cycles'
    BY <1>1, SourceFound DEF OperandInv, Cycles
  <2>2. op \in 1 .. 4 /\ InstrInfo' = InstrInfo
    BY <1>1, SourceFound DEF OperandInv, IInv, Types, InstrInfo
  <2>3. SourceInv'
    BY <1>1, <2>2, SourceFound DEF OperandInv, SourceInv
  <2> QED BY <1>1, <2>1, <2>3, SourceFound
<1>2. CASE at' # "place"
  <2>1. (Break /\ instr' = instr) \/ ThrowAway \/ GiveUp
    BY <1>2 DEF Source, Saturate
  <2> QED BY <2>1, BackOperands
<1> QED BY <1>1, <1>2
\* The macro-op at c, or a port that is not found.
LEMMA CommitOperands ==
  ASSUME OperandInv, at = "place", NEW c \in Nat, NEW dst \in Regs \cup {NoReg}, Commit(c, dst),
         op \in {InstrInfo.dstOp, InstrInfo.resultOp} => dst \in Regs
  PROVE  /\ Cycles' /\ SourceInv' /\ instr' = [instr EXCEPT !.dst = dst]
         /\ \/ /\ at' = "fetch" /\ saturated' /\ UNCHANGED <<op, hasty, ready>>
            \/ /\ at' \in {"fetch", "fill"} /\ op' = op + 1 /\ cycle' >= topCycle
               /\ op # InstrInfo.resultOp => UNCHANGED <<hasty, ready>>
               /\ op = InstrInfo.resultOp =>
                    \E n \in Nat : /\ n >= c
                                   /\ hasty' = IF \E r \in {dst, instr.src} \cap Regs : ready[r] > n
                                               THEN hasty \cup {instr.kind} ELSE hasty
<1> DEFINE mop == InstrInfo.ops[op]
           n == Schedule(mop, c)
<1>1. n \in Nat /\ n >= c
  <2> HIDE DEF mop
  <2> QED BY ScheduleFrom
<1>2. mop.latency \in Nat /\ instr \in Instructions
  BY AtPlace
<1> HIDE DEF n
<1>3. instr' = [instr EXCEPT !.dst = dst] /\ (Saturate \/ Issue(mop, n, dst))
  BY DEF Commit, n
<1>4. instr'.src = instr.src /\ instr'.kind = instr.kind /\ instr'.dst = dst
  BY <1>2, <1>3 DEF Instructions
<1>4a. instr.kind \in High /\ op \in {1, 2} => dst \in Regs
  BY AtPlace, Operands DEF InstrInfo
<1>4b. op \in Nat
  BY AtPlace DEF OperandInv, IInv, Types
<1>5. CASE Saturate
  <2>1. /\ at' = "fetch" /\ saturated' /\ UNCHANGED <<op, hasty, ready, topCycle, depCycle>>
        /\ when' = 0 /\ cycle' = cycle + 1
    BY <1>5 DEF Saturate, Break, placement
  <2>2. Cycles'
    BY <2>1 DEF OperandInv, Cycles
  <2>3. SourceInv'
    BY <1>4, <1>4a, <1>4b, <2>1 DEF OperandInv, SourceInv, InstrInfo
  <2> QED BY <1>3, <2>1, <2>2, <2>3
<1>6. CASE Issue(mop, n, dst)
  <2>1. /\ at' \in {"fetch", "fill"} /\ op' = op + 1 /\ when' = 0 /\ UNCHANGED topCycle
        /\ cycle' \in {topCycle, topCycle + 1} /\ depCycle' = n + mop.latency
    BY <1>6 DEF Issue, GoOn
  <2>2. op # InstrInfo.resultOp => UNCHANGED <<hasty, ready>>
    BY <1>6 DEF Issue
  <2>3. op = InstrInfo.resultOp =>
          /\ ready' = [ready EXCEPT ![dst] = n + mop.latency]
          /\ hasty' = IF \E r \in {dst, instr.src} \cap Regs : ready[r] > n
                      THEN hasty \cup {instr.kind} ELSE hasty
    BY <1>4, <1>6 DEF Issue
  <2> HIDE DEF mop
  <2>4. n + mop.latency \in Nat
    BY <1>1, <1>2
  <2>5. ready' \in [Regs -> Nat]
    BY <2>2, <2>3, <2>4 DEF OperandInv, Cycles
  <2>6. cycle' \in Nat /\ cycle' >= topCycle
    BY <2>1 DEF OperandInv, Cycles
  <2>7. Cycles'
    BY <2>1, <2>4, <2>5, <2>6 DEF OperandInv, Cycles
  <2>8. SourceInv'
    BY <1>4, <1>4a, <1>4b, <2>1 DEF OperandInv, SourceInv, InstrInfo
  <2> QED BY <1>1, <1>3, <2>1, <2>2, <2>3, <2>6, <2>7, <2>8
<1> QED BY <1>3, <1>5, <1>6

\* What a step of Place issues, with the operands it knows to be ready.
LEMMA PlaceOperands ==
  ASSUME OperandInv, Place
  PROVE  /\ Cycles' /\ SourceInv'
         /\ hasty' # hasty => instr.kind \in High /\ hasty' = hasty \cup {instr.kind}
         /\ HighInv => hasty' = hasty
<1> DEFINE wait == DestinationWaits(when)
<1>1. /\ at = "place" /\ op \in 1 .. Length /\ instr.kind \in Kinds
      /\ instr.dst \in Regs \cup {NoReg} /\ when \in Nat
  BY AtPlace DEF Place, OperandInv, Cycles, Instructions
<1>2. wait # {} => Min(wait) \in Nat
  <2>1. wait \in SUBSET Nat
    BY SuperscalarAssumption DEF DestinationWaits
  <2> HIDE DEF wait
  <2> QED BY <2>1, MinOfNaturals
<1>3. \A r \in Destinations(when + Min(wait)) : r \in Regs /\ ready[r] <= when + Min(wait)
  BY DEF Destinations, Ready
<1> HIDE DEF wait
<1>4. CASE op # InstrInfo.dstOp /\ Commit(when, instr.dst)
  <2>1. op = InstrInfo.resultOp => instr.kind \in High /\ op = 2 /\ op = InstrInfo.srcOp
    BY <1>1, <1>4, Operands DEF InstrInfo
  <2>2. op \in {InstrInfo.dstOp, InstrInfo.resultOp} => instr.dst \in Regs
    BY <1>4, <2>1 DEF OperandInv, SourceInv
  <2>3. op = InstrInfo.resultOp =>
          /\ ready[instr.src] <= when /\ instr.src \in Regs /\ instr.dst \in Regs
          /\ HighInv => ready[instr.dst] <= when
    BY <1>1, <2>1, <2>2 DEF OperandInv, SourceInv, HighInv
  <2>4. ASSUME op = InstrInfo.resultOp, NEW n \in Nat, n >= when, HighInv
        PROVE  ~\E r \in {instr.dst, instr.src} \cap Regs : ready[r] > n
    BY <1>1, <2>3, <2>4 DEF OperandInv, Cycles
  <2> QED BY <1>1, <1>4, <2>1, <2>2, <2>4, CommitOperands
<1>5. CASE /\ op = InstrInfo.dstOp /\ wait # {}
           /\ \E r \in Destinations(when + Min(wait)) : Commit(when + Min(wait), r)
  <2> DEFINE c == when + Min(wait)
  <2>1. PICK r \in Destinations(c) : Commit(c, r)
    BY <1>5
  <2>2. c \in Nat /\ c >= when /\ r \in Regs /\ ready[r] <= c
    BY <1>1, <1>2, <1>3, <1>5, <2>1
  <2> HIDE DEF c
  <2>3. op = InstrInfo.resultOp =>
          \/ instr.src \notin Regs
          \/ ready[instr.src] <= when /\ instr.src \in Regs
    <3>0. op = InstrInfo.dstOp
      BY <1>5, Zenon
    <3>1. op = InstrInfo.resultOp => instr.kind \notin High
      <4>1. instr.kind \in High => InstrInfo.dstOp = 1 /\ InstrInfo.resultOp = 2
        BY <1>1, Operands DEF InstrInfo
      <4> QED BY <3>0, <4>1
    <3>2. op = InstrInfo.resultOp => InstrInfo.srcOp = 0 \/ InstrInfo.srcOp = op
      BY <1>1, <3>1, Operands DEF InstrInfo
    <3> QED BY <1>1, <3>2, SuperscalarAssumption DEF OperandInv, SourceInv
  <2>4. ASSUME op = InstrInfo.resultOp, NEW n \in Nat, n >= c
        PROVE  ~\E q \in {r, instr.src} \cap Regs : ready[q] > n
    BY <1>1, <2>2, <2>3, <2>4 DEF OperandInv, Cycles
  <2> QED BY <1>1, <2>1, <2>2, <2>4, CommitOperands
<1>6. CASE ThrowAway \/ GiveUp
  BY <1>6, BackOperands
<1> QED BY <1>4, <1>5, <1>6 DEF Place, wait
\* The destination of IMULH is the first to be ready, when all differ in their draws.
LEMMA FirstDestination ==
  ASSUME OperandInv, FreshDraw, at = "place", instr.kind \in High, op = 1,
         DestinationWaits(when) # {}, NEW r \in Destinations(when + Min(DestinationWaits(when)))
  PROVE  ready[r] <= when \/ \A q \in Regs : ready[r] <= ready[q]
<1> DEFINE wait == DestinationWaits(when)
           w == Min(wait)
<1>1. wait \in SUBSET Nat /\ wait \in SUBSET (0 .. (LookForward - 1)) /\ wait # {}
  <2>1. wait # {}
    OBVIOUS
  <2>2. wait \in SUBSET Nat /\ wait \in SUBSET (0 .. (LookForward - 1))
    BY SuperscalarAssumption DEF DestinationWaits
  <2> HIDE DEF wait
  <2> QED BY <2>1, <2>2
<1>2. w \in wait /\ w \in Nat /\ \A n \in wait : w <= n
  <2> HIDE DEF wait
  <2> QED BY <1>1, MinOfNaturals
<1>3. when \in Nat /\ ready \in [Regs -> Nat] /\ LookForward \in Nat
  BY SuperscalarAssumption DEF OperandInv, Cycles
<1>4. r \in Regs /\ ready[r] <= when + w
  BY DEF Destinations, Ready
<1>5. CASE w = 0
  BY <1>3, <1>4, <1>5
<1>6. CASE w # 0
  <2>1. w - 1 \in 0 .. (LookForward - 1) /\ w - 1 \notin wait
    <3>1. w \in 0 .. (LookForward - 1)
      BY <1>1, <1>2
    <3> HIDE DEF w, wait
    <3> QED BY <1>2, <1>3, <1>6, <3>1
  <2>2. Destinations(when + (w - 1)) = {}
    BY <2>1 DEF DestinationWaits
  <2>3. \A q \in Regs : ready[q] > when + (w - 1)
    <3>1. SUFFICES ASSUME NEW q \in Regs, ~(ready[q] > when + (w - 1)) PROVE FALSE
      OBVIOUS
    <3>2. q \in Ready(when + (w - 1))
      <4> HIDE DEF w
      <4> QED BY <1>2, <1>3, <3>1 DEF Ready
    <3>3. /\ lastOp[q] # [group |-> InstrInfo.group, par |-> instr.par]
          /\ instr.kind # "IMUL_R" /\ instr.kind # "IADD_RS"
      BY DEF FreshDraw, High
    <3>4. q \in Destinations(when + (w - 1))
      BY <3>2, <3>3 DEF Destinations
    <3> QED BY <2>2, <3>4
  <2> HIDE DEF w
  <2> QED BY <1>2, <1>3, <1>4, <2>3
<1> QED BY <1>5, <1>6

LEMMA PlaceHigh ==
  ASSUME OperandInv, FreshDraw, Place
  PROVE  HighInv'
<1>1. /\ at = "place" /\ op \in 1 .. Length /\ op \in Nat /\ instr \in Instructions
      /\ instr.kind \in Kinds /\ instr.dst \in Regs \cup {NoReg}
      /\ when \in Nat /\ topCycle \in Nat /\ ready \in [Regs -> Nat]
  BY AtPlace DEF Place, OperandInv, IInv, Types, Cycles, Instructions
<1>2. CASE ThrowAway \/ GiveUp
  <2>1. instr' = Null \/ (instr' = instr /\ op' = Length + 1)
    BY <1>2 DEF ThrowAway, GiveUp, Length
  <2>2. instr.kind \in High => Length = 3
    BY <1>1, Lengths DEF Length, InstrInfo
  <2>3. "INVALID" \notin High
    BY DEF High
  <2> QED BY <2>1, <2>2, <2>3 DEF HighInv, Null
<1>3. CASE op # InstrInfo.dstOp /\ Commit(when, instr.dst)
  <2>1. instr.kind \in High => op # 1
    BY <1>1, <1>3, Operands DEF InstrInfo
  <2>2. op \in {InstrInfo.dstOp, InstrInfo.resultOp} => instr.dst \in Regs
    BY <1>1, <1>3, Operands DEF InstrInfo, OperandInv, SourceInv
  <2>3. /\ instr'.kind = instr.kind
        /\ (at' = "fetch" /\ saturated') \/ (at' \in {"fetch", "fill"} /\ op' = op + 1)
    BY <1>1, <1>3, <2>2, CommitOperands DEF Instructions
  <2> QED BY <1>1, <2>1, <2>3 DEF HighInv
<1>4. CASE /\ op = InstrInfo.dstOp /\ DestinationWaits(when) # {}
           /\ \E r \in Destinations(when + Min(DestinationWaits(when))) :
                Commit(when + Min(DestinationWaits(when)), r)
  <2> DEFINE c == when + Min(DestinationWaits(when))
  <2>1. PICK r \in Destinations(c) : Commit(c, r)
    BY <1>4
  <2>2. c \in Nat /\ r \in Regs
    <3>1. DestinationWaits(when) \in SUBSET Nat
      BY SuperscalarAssumption DEF DestinationWaits
    <3>2. Min(DestinationWaits(when)) \in Nat
      BY <1>4, <3>1, MinOfNaturals
    <3> QED BY <1>1, <3>2 DEF Destinations, Ready
  <2>3. instr.kind \in High /\ op = 1 => ready[r] <= when \/ \A q \in Regs : ready[r] <= ready[q]
    BY <1>1, <1>4, FirstDestination
  <2>4. instr.kind \in High => when = topCycle /\ op = 1 /\ InstrInfo.resultOp = 2
    <3>1. instr.kind \in High => InstrInfo.dstOp = 1 /\ InstrInfo.resultOp = 2
      BY <1>1, Operands DEF InstrInfo
    <3>2. op = InstrInfo.dstOp
      BY <1>4, Zenon
    <3> QED BY <1>1, <3>1, <3>2 DEF OperandInv, SourceInv
  <2> HIDE DEF c
  <2>5. /\ instr' = [instr EXCEPT !.dst = r] /\ Cycles'
        /\ \/ at' = "fetch" /\ saturated'
           \/ /\ at' \in {"fetch", "fill"} /\ op' = op + 1 /\ cycle' >= topCycle
              /\ op # InstrInfo.resultOp => ready' = ready
    BY <1>1, <2>1, <2>2, CommitOperands
  <2>6. instr'.kind = instr.kind /\ instr'.dst = r
    BY <1>1, <2>5 DEF Instructions
  <2>7. ASSUME instr.kind \in High, at' # "fetch" \/ ~saturated'
        PROVE  /\ at' \in {"fetch", "fill"}
               /\ ready'[r] <= cycle' \/ \A q \in Regs : ready'[r] <= ready'[q]
    <3>1. /\ ready' = ready /\ cycle' >= when /\ cycle' \in Nat
          /\ ready[r] <= when \/ \A q \in Regs : ready[r] <= ready[q]
      BY <2>3, <2>4, <2>5, <2>7 DEF Cycles
    <3>2. ready[r] \in Nat
      BY <1>1, <2>2
    <3> QED BY <1>1, <2>5, <2>7, <3>1, <3>2
  <2>8. at' # "place"
    BY <2>5
  <2> QED BY <2>6, <2>7, <2>8 DEF HighInv
<1> QED BY <1>1, <1>2, <1>3, <1>4 DEF Place

LEMMA SourceHigh ==
  ASSUME OperandInv, HighInv, Source
  PROVE  HighInv'
<1>1. CASE at' = "place"
  <2>1. SUFFICES ASSUME instr'.kind \in High, op' = 2 PROVE ready'[instr'.dst] <= when'
    BY <1>1 DEF HighInv
  <2>2. /\ cycle' \in Nat /\ when' \in Nat /\ topCycle' = cycle /\ cycle <= when'
        /\ UNCHANGED <<ready, op>> /\ at = "fill" /\ instr'.kind = instr.kind /\ instr'.dst = instr.dst
        /\ op # InstrInfo.srcOp \/ (instr'.src \in Regs /\ ready[instr'.src] <= when')
    BY <1>1, SourceFound
  <2>3. instr.kind \in High /\ op = 2 /\ instr.kind \in Kinds
    BY <2>1, <2>2 DEF OperandInv, IInv, Types, Instructions
  <2>4. op = InstrInfo.srcOp
    BY <2>3, Operands DEF InstrInfo
  <2>5. instr.dst \in Regs /\ ready \in [Regs -> Nat] /\ cycle \in Nat
    BY <2>3 DEF OperandInv, SourceInv, Cycles
  <2>6. ready[instr.dst] <= cycle \/ \A r \in Regs : ready[instr.dst] <= ready[r]
    BY <2>2, <2>3 DEF HighInv
  <2>7. ready[instr.dst] \in Nat /\ ready[instr'.src] \in Nat
    BY <2>2, <2>4, <2>5
  <2> QED BY <2>2, <2>4, <2>5, <2>6, <2>7
<1>2. CASE at' # "place"
  <2>1. (Saturate /\ instr' = instr) \/ ThrowAway \/ GiveUp
    BY <1>2 DEF Source
  <2>2. CASE Saturate /\ instr' = instr
    BY <2>2 DEF HighInv, Saturate, Break
  <2>3. CASE ThrowAway \/ GiveUp
    <3>1. instr' = Null \/ (instr' = instr /\ op' = Length + 1)
      BY <2>3 DEF ThrowAway, GiveUp, Length
    <3>2. instr.kind \in High => Length = 3
      BY Lengths DEF Length, InstrInfo, OperandInv, IInv, Types, Instructions
    <3>3. "INVALID" \notin High
      BY DEF High
    <3> QED BY <3>1, <3>2, <3>3 DEF HighInv, Null
  <2> QED BY <2>1, <2>2, <2>3
<1> QED BY <1>1, <1>2

LEMMA NextOperands ==
  ASSUME OperandInv, [SuperNext]_superVars
  PROVE  /\ OperandInv'
         /\ hasty \subseteq High => hasty' \subseteq High
         /\ HighInv /\ FreshDraw => HighInv' /\ hasty' = hasty
<1>0. IInv'
  BY NextKeeps DEF OperandInv
<1>1. CASE Fetch
  <2>1. HighInv => HighInv'
    BY <1>1 DEF Fetch, HighInv
  <2> QED BY <1>0, <1>1, <2>1, BackOperands DEF OperandInv
<1>2. CASE Create
  BY <1>0, <1>2, CreateOperands DEF OperandInv
<1>3. CASE CreateNoMore
  <2>1. HighInv'
    <3>1. instr' = instr /\ op' = op /\ at' = "fetch"
      BY <1>3 DEF CreateNoMore, Break
    <3>2. instr.kind \in High => Length = 3
      BY Lengths DEF Length, InstrInfo, OperandInv, IInv, Types, Instructions
    <3>3. op > Length
      BY <1>3 DEF CreateNoMore, Issued, Length
    <3> QED BY <3>1, <3>2, <3>3 DEF HighInv
  <2> QED BY <1>0, <1>3, <2>1, BackOperands DEF OperandInv
<1>4. CASE Source
  BY <1>0, <1>4, SourceOperands, SourceHigh DEF OperandInv
<1>5. CASE Place
  BY <1>0, <1>5, PlaceOperands, PlaceHigh DEF OperandInv
<1>6. CASE Finish
  <2>1. HighInv'
    BY <1>6 DEF Finish, HighInv
  <2> QED BY <1>0, <1>6, <2>1, BackOperands DEF OperandInv
<1>7. CASE UNCHANGED superVars
  <2>1. Cycles' /\ SourceInv' /\ (HighInv => HighInv') /\ hasty' = hasty
    BY <1>7 DEF superVars, OperandInv, Cycles, SourceInv, HighInv, InstrInfo
  <2> QED BY <1>0, <2>1 DEF OperandInv
<1> QED BY <1>1, <1>2, <1>3, <1>4, <1>5, <1>6, <1>7 DEF SuperNext, SuperDone

LEMMA InitOperands == SuperInit => OperandInv /\ HighInv /\ hasty = {}
<1> SUFFICES ASSUME SuperInit PROVE OperandInv /\ HighInv /\ hasty = {}
  OBVIOUS
<1>1. Cycles /\ hasty = {} /\ at = "fetch" /\ instr = Null
  BY DEF SuperInit, Cycles
<1>2. SourceInv /\ HighInv
  BY <1>1 DEF SourceInv, HighInv, Null, High
<1> QED BY <1>1, <1>2, InitHolds DEF OperandInv

\* Every instruction but the two multiplications to 128 bits is executed when its
\* operands are ready, whatever is drawn (superscalar.cpp:697-775).
THEOREM OthersReady == SuperSpec => [](hasty \subseteq High)
<1>1. SuperInit => OperandInv /\ hasty \subseteq High
  BY InitOperands
<1>2. OperandInv /\ hasty \subseteq High /\ [SuperNext]_superVars => (OperandInv /\ hasty \subseteq High)'
  BY NextOperands
<1> QED BY <1>1, <1>2, PTL DEF SuperSpec

\* So are these two, as long as the 32 random bits of one differ from those of the
\* last of its kind in every register: a register of equal bits may not be the
\* destination, though it may be the source, and so ready first.
THEOREM ReadyWhenFresh == SuperSpec /\ []FreshDraw => []OperandsReady
<1> DEFINE J == OperandInv /\ HighInv /\ OperandsReady
<1>1. SuperInit => J
  BY InitOperands DEF OperandsReady
<1>2. J /\ FreshDraw /\ [SuperNext]_superVars => J'
  BY NextOperands DEF OperandsReady
<1>3. J => OperandsReady
  OBVIOUS
<1> HIDE DEF J
<1> QED BY <1>1, <1>2, <1>3, PTL DEF SuperSpec
===============================================================================
