--------------------------- MODULE NyuziAssembly ---------------------------
(***************************************************************************)
(* An operand of an assembly instruction: a symbol, which becomes a fixup  *)
(* (NyuziFixups), or a number, which is encoded at once (NyuziAsmOperand). *)
(***************************************************************************)
EXTENDS NyuziFixups, NyuziAsmOperand

assemblyVars == <<vars, operandVars>>

AssemblyInit == (Init /\ OperandIdle) \/ (FixupIdle /\ OperandInit)

AssemblyNext ==
  \/ Next /\ UNCHANGED operandVars
  \/ OperandNext /\ UNCHANGED vars

AssemblySpec == AssemblyInit /\ [][AssemblyNext]_assemblyVars
=============================================================================
