--------------------------- MODULE MCVenueOrders ---------------------------
(* Instances of the adapters for TLC: every adapter and position mode, with *)
(* steps that round the sizes and prices up, down and to nothing.           *)
EXTENDS VenueOrders, TLC

Account(type, hedge, ctVal, lot, tick) ==
  [type |-> type, hedge |-> hedge, ctVal |-> ctVal, lot |-> lot, min |-> lot, tick |-> tick]

AllVenues ==
  {Account("binance_futures", TRUE, 1, 2, 2), Account("binance_futures", FALSE, 1, 3, 3),
   Account("binance_spot", FALSE, 1, 4, 2), Account("okx_spot", FALSE, 1, 2, 3),
   Account("okx", TRUE, 4, 1, 2), Account("okx", FALSE, 4, 2, 3),
   Account("okx", TRUE, 12, 1, 3), Account("okx", FALSE, 2, 1, 2)}

SlotSymmetry == Permutations(Slots)
=============================================================================
