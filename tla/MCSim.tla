------------------------------- MODULE MCSim -------------------------------
EXTENDS Sim
(* Flow orders, and quotes of any size.                                    *)
MCSubmissions ==
  [id : OrderID, price : Price, quantity : Quantity, side : Side, type : {"LIMIT"}]
=============================================================================
