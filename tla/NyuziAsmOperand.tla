-------------------------- MODULE NyuziAsmOperand --------------------------
(***************************************************************************)
(* The way of a number that is written in an assembly instruction: the     *)
(* parser checks its range (NyuziAsmParser.cpp), li becomes one or two     *)
(* instructions, the emitter packs the operands into the fields of the     *)
(* format (NyuziMCCodeEmitter.cpp, NyuziInstrFormats.td), and the          *)
(* disassembler takes them out again (NyuziDisassembler.cpp).  Each of     *)
(* them has its own idea of how wide the field is.                         *)
(***************************************************************************)
EXTENDS NyuziBits, Sequences

CONSTANTS
  Literals,  \* numbers, as sets of their 64 bits
  RegNums    \* encodings of registers, as sets of their 5 bits

ASSUME LiteralsAssumption == Literals \subseteq SUBSET (0 .. 63)
ASSUME RegNumsAssumption == RegNums \subseteq SUBSET (0 .. 4)

(* The classes of operands, by the bits that their parser methods ask for. *)
Immediates == {"SImm9", "SImm14", "SImm19"}
Memory == {"MemS10", "MemS14", "MemS15", "MemV10", "MemV15"}
MaxBits(c) ==
  CASE c = "SImm9" -> 9
    [] c \in {"MemS10", "MemV10"} -> 10
    [] c \in {"SImm14", "MemS14"} -> 14
    [] c \in {"MemS15", "MemV15"} -> 15
    [] c = "SImm19" -> 19

(* The format of the instructions that have such an operand: arithmetic,   *)
(* memory accesses, and the two that have a format of their own.           *)
FormatI(c) == IF c = "SImm9" THEN "FormatIMasked" ELSE "FormatIUnmasked"
FormatM(c) == IF c \in {"MemS10", "MemV10"} THEN "FormatMMasked" ELSE "FormatMUnmasked"
Format(c) ==
  CASE c \in {"SImm9", "SImm14"} -> FormatI(c)
    [] c = "SImm19" -> "MOVEHI"
    [] c = "MemS14" -> "LEA_MEM"
    [] OTHER -> FormatM(c)
Masked == {"FormatIMasked", "FormatMMasked"}

VARIABLES
  class,    \* of the operand, or "LI"
  literal,  \* the number in the text
  fields,   \* the registers of the instruction: dest, base (or src1), mask
  baseIs,   \* the bank of the base register: "S" or "V"
  step,     \* "idle", "parse", "process", "encode", "decode", "done", "error"
  insts,    \* the MCInsts: format and immediate
  words,    \* their encodings
  decoded   \* what the disassembler makes of these

operandVars == <<class, literal, fields, baseIs, step, insts, words, decoded>>

OperandStart == insts = <<>> /\ words = <<>> /\ decoded = <<>>

OperandInit ==
  /\ OperandStart
  /\ class \in Immediates \cup Memory \cup {"LI"}
  /\ literal \in Literals
  /\ fields \in [dest : RegNums, base : RegNums, mask : RegNums]
  /\ baseIs \in (IF class \in Memory THEN {"S", "V"} ELSE {"S"})
  /\ step = "parse"

OperandIdle ==
  /\ OperandStart
  /\ class = "LI" /\ literal = {} /\ baseIs = "S" /\ step = "idle"
  /\ fields = [dest |-> {}, base |-> {}, mask |-> {}]

-----------------------------------------------------------------------------
Parsed(ok) ==
  /\ step = "parse"
  /\ step' = IF ok THEN "process" ELSE "error"
  /\ UNCHANGED <<class, literal, fields, baseIs, insts, words, decoded>>

(* "immediate operand out of range": only movehi's is unsigned. *)
ParseImmediate ==
  /\ class \in Immediates
  /\ Parsed(IF class = "SImm19" THEN isUInt(MaxBits(class), literal)
            ELSE isInt(MaxBits(class), literal))

(* The base register is in the bank that the instruction wants. *)
BankMatches == (baseIs = "V") = (class \in {"MemV10", "MemV15"})

(* Mutant: one bit is taken off for the sign twice. *)
ParseMemoryOperandNarrow ==
  class \in Memory /\ Parsed(isInt(MaxBits(class) - 1, literal) /\ BankMatches)

(* "offset out of range" and "invalid operand for instruction". *)
ParseMemoryOperand ==
  class \in Memory /\ Parsed(isInt(MaxBits(class), literal) /\ BankMatches)

(* li takes any expression: there is no parser method for its operand. *)
ParseOperand == class = "LI" /\ Parsed(TRUE)

(* An MCInst: the fields that its format does not have are empty. *)
Instruction(format, base, imm) ==
  [format |-> format, imm |-> imm, dest |-> fields.dest, base |-> base,
   mask |-> IF format \in Masked THEN fields.mask ELSE {}]

(* Mutant: the low part is cut where an immediate of 14 bits ends. *)
LoadImmediateLow14(IntVal) ==
  IF isInt(14, IntVal) THEN <<Instruction("FormatIUnmasked", {}, IntVal)>>
  ELSE <<Instruction("MOVEHI", {}, Extract(IntVal, 13, 19)),
         Instruction("FormatIUnmasked", fields.dest, Low(IntVal, 14))>>

(* li: MOVESimm, or MOVEHI and, if there are low bits, ORSSI. *)
LoadImmediate(IntVal) ==
  IF isInt(14, IntVal) THEN <<Instruction("FormatIUnmasked", {}, IntVal)>>
  ELSE <<Instruction("MOVEHI", {}, Extract(IntVal, 13, 19))>>
         \o (IF Low(IntVal, 13) = {} THEN <<>>
             ELSE <<Instruction("FormatIUnmasked", fields.dest, Low(IntVal, 13))>>)

ProcessInstruction ==
  /\ step = "process"
  /\ insts' = IF class = "LI" THEN LoadImmediate(literal)
              ELSE <<Instruction(Format(class), IF class = "SImm19" THEN {} ELSE fields.base,
                                 literal)>>
  /\ step' = "encode"
  /\ UNCHANGED <<class, literal, fields, baseIs, words, decoded>>

-----------------------------------------------------------------------------
(* Mutant: the offset is put above a base register of four bits. *)
encodeMemoryOpValueNarrow(inst) ==
  Word32(inst.base \cup Shl(SignExtend(inst.imm, 16), 4))

(* "A packed field with the register in the low 5 bits and the offset in   *)
(* the remainder": static_cast<short>(imm) << 5.                           *)
encodeMemoryOpValue(inst) ==
  Word32(inst.base \cup Shl(SignExtend(inst.imm, 16), 5))

(* Where the formats put the operand. *)
FormatIField(format, imm) ==
  IF format = "FormatIMasked" THEN Insert(imm, 15, 9) ELSE Insert(imm, 10, 14)
FormatMField(format, addr) ==
  (IF format = "FormatMMasked" THEN Insert(Shr(addr, 5), 15, 10)
                               ELSE Insert(Shr(addr, 5), 10, 15)) \cup Low(addr, 5)
MOVEHIField(imm) == Insert(Shr(imm, 5), 10, 14) \cup Low(imm, 5)
LEA_MEMField(addr) == Insert(Shr(addr, 5), 10, 14) \cup Low(addr, 5)

(* getMachineOpValue, or encodeMemoryOpValue where it is the encoder. *)
OperandField(inst) ==
  LET imm  == Word32(inst.imm)
      addr == encodeMemoryOpValue(inst)
  IN  CASE inst.format \in {"FormatIMasked", "FormatIUnmasked"} ->
             FormatIField(inst.format, imm)
        [] inst.format = "MOVEHI"  -> MOVEHIField(imm)
        [] inst.format = "LEA_MEM" -> LEA_MEMField(addr)
        [] OTHER                   -> FormatMField(inst.format, addr)

(* The other operands: dest, src1 and the mask. *)
RegisterFields(inst) ==
  Shl(inst.dest, 5) \cup Shl(inst.mask, 10)
    \cup (IF inst.format \in {"FormatIMasked", "FormatIUnmasked"} THEN inst.base ELSE {})

encodeInstruction ==
  /\ step = "encode"
  /\ LET inst == insts[Len(words) + 1]
     IN  words' = Append(words, OperandField(inst) \cup RegisterFields(inst))
  /\ step' = IF Len(words') = Len(insts) THEN "decode" ELSE "encode"
  /\ UNCHANGED <<class, literal, fields, baseIs, insts, decoded>>

-----------------------------------------------------------------------------
(* decodeMemoryOpValue: the offset field is taken to have 15 bits. *)
decodeMemoryOpValue(addr) == SignExtend(Extract(addr, 5, 15), 15)

(* decodeSimm9/14/19Value.  The word of a LEA_MEM is that of an add_i. *)
DecodedImmediate(format, w) ==
  CASE format = "FormatIMasked" -> SignExtend(Extract(w, 15, 9), 9)
    [] format \in {"FormatIUnmasked", "LEA_MEM"} -> SignExtend(Extract(w, 10, 14), 14)
    [] format = "MOVEHI" -> Shl(Extract(w, 10, 14), 5) \cup Low(w, 5)
    [] format = "FormatMMasked" ->
         decodeMemoryOpValue(Shl(Extract(w, 15, 10), 5) \cup Low(w, 5))
    [] format = "FormatMUnmasked" ->
         decodeMemoryOpValue(Shl(Extract(w, 10, 15), 5) \cup Low(w, 5))

(* The opcode bits, which give the format, are not in the model's words. *)
getInstruction ==
  /\ step = "decode"
  /\ LET k == Len(decoded) + 1
         format == insts[k].format
         w == words[k]
     IN  decoded' = Append(decoded,
           [format |-> format,
            imm    |-> DecodedImmediate(format, w),
            dest   |-> Extract(w, 5, 5),
            base   |-> IF format = "MOVEHI" THEN {} ELSE Low(w, 5),
            mask   |-> IF format \in Masked THEN Extract(w, 10, 5) ELSE {}])
  /\ step' = IF Len(decoded') = Len(words) THEN "done" ELSE "decode"
  /\ UNCHANGED <<class, literal, fields, baseIs, insts, words>>

OperandNext ==
  \/ ParseImmediate \/ ParseMemoryOperand \/ ParseOperand
  \/ ProcessInstruction \/ encodeInstruction \/ getInstruction

-----------------------------------------------------------------------------
(* What the processor makes of the field: an immediate or an offset of     *)
(* that many bits, extended; movehi shifts its own left by 13.             *)
HardwareValue(format, w) ==
  CASE format = "FormatIMasked" -> SignExtend(Extract(w, 15, 9), 9)
    [] format = "FormatMMasked" -> SignExtend(Extract(w, 15, 10), 10)
    [] format = "FormatMUnmasked" -> SignExtend(Extract(w, 10, 15), 15)
    [] format \in {"FormatIUnmasked", "LEA_MEM"} -> SignExtend(Extract(w, 10, 14), 14)
    [] format = "MOVEHI" ->
         LET value == Shl(Extract(w, 10, 14), 5) \cup Low(w, 5)
         IN  IF class = "LI" THEN Shl(value, 13) ELSE value

(* The instructions that the parser accepts compute with the number that   *)
(* was written; li leaves it in the register for every 32 bit constant,    *)
(* whichever of its three forms is chosen.                                 *)
LiteralReached ==
  step = "done" =>
    Word32(literal) = UNION {HardwareValue(insts[k].format, words[k]) : k \in 1 .. Len(words)}

(* A number is refused only if the field cannot hold it (the field would   *)
(* give another number back), or the base register is in the wrong bank.   *)
RefusedOutOfRange ==
  step = "error" =>
    LET inst == Instruction(Format(class), {}, literal)
        held == HardwareValue(inst.format, OperandField(inst))
    IN  \/ literal # held \cup (IF 31 \in held THEN 32 .. 63 ELSE {})
        \/ class \in Memory /\ ~BankMatches

(* The disassembler shows the operands that were assembled, so that its    *)
(* output assembles to the same words.  A masked memory access with a      *)
(* negative offset is left out: decodeMemoryOpValue says of itself that    *)
(* "this depends on the instruction type (has mask or not)".               *)
RoundTrip ==
  step = "done" =>
    \A k \in 1 .. Len(insts) :
      LET inst == [insts[k] EXCEPT !.imm = Word32(@)]
      IN  \/ decoded[k] = inst
          \/ /\ inst.format = "FormatMMasked" /\ 9 \in inst.imm
             /\ [decoded[k] EXCEPT !.imm = inst.imm] = inst
=============================================================================
