---------------------------- MODULE MCNyuziFrame ----------------------------
(***************************************************************************)
(* Frames for TLC: a scalar is one unit and a vector two, so that a frame  *)
(* of a few objects already needs the long form of an offset.              *)
(***************************************************************************)
EXTENDS NyuziFrame

MCCSR == <<"S", "FP", "RA", "V">>

Scalar == [size |-> 1, align |-> 1]
Vector == [size |-> 2, align |-> 2]
Fn(modified, fpElim, varSized, frameAddr, locals, maxCall, params) ==
  [modified |-> modified, disableFPElim |-> fpElim, varSized |-> varSized,
   frameAddressTaken |-> frameAddr, locals |-> locals,
   adjustsStack |-> "RA" \in modified, maxCall |-> maxCall, params |-> params]

(* Every active function has a word of its own for every use, so that an   *)
(* overwrite shows.                                                        *)
MCData(n, use) == {10 * n + use}

(* A leaf without a frame; a leaf that saves registers around a vector     *)
(* local; a function with a frame pointer only; callers with a reserved    *)
(* and with an adjusted call frame; __builtin_frame_address.               *)
MCFunctions ==
  {Fn({}, FALSE, FALSE, FALSE, <<>>, 0, 1),
   Fn({"S", "V"}, FALSE, FALSE, FALSE, <<Scalar, Vector>>, 0, 1),
   Fn({"S"}, TRUE, FALSE, FALSE, <<Scalar>>, 0, 1),
   Fn({"S", "RA"}, FALSE, FALSE, FALSE, <<Scalar>>, 2, 0),
   Fn({"RA"}, FALSE, TRUE, FALSE, <<Scalar>>, 2, 1),
   Fn({"V", "RA"}, FALSE, TRUE, TRUE, <<>>, 2, 0),
   Fn({}, FALSE, FALSE, TRUE, <<Vector>>, 0, 1)}
=============================================================================
