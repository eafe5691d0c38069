---------------------------- MODULE MCAudioPage ----------------------------
(***************************************************************************)
(* A small instance of AudioPage: four buffers a trial for three loaders,  *)
(* two sizes within the budget and one just above it, a browser at the     *)
(* rate of the study and one at one and a half times that.                 *)
(***************************************************************************)
EXTENDS AudioPage

ThreeSizes == {6, 8, 9}
TwoRates   == {2, 3}
=============================================================================
