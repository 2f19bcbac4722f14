----------------------------- MODULE MCBtcWire -----------------------------
(***************************************************************************)
(* BtcWire with a snapshot, a snapshot that throws between its sides, an   *)
(* update with a size below one coin, one above and one too large for an   *)
(* int, a message of another type and one that does not parse.             *)
(***************************************************************************)
EXTENDS BtcWire

level(side, price, size) == [side |-> side, price |-> price, size |-> size]
message(type, entries)   == [type |-> type, entries |-> entries]

MCMessages ==
  { message("snapshot", <<level("BUY", 1, 3), level("SELL", 2, 2)>>),
    message("snapshot", <<level("BUY", 1, 2), Bad>>),
    message("l2update", <<level("BUY", 1, 1), level("SELL", 2, 3)>>),
    message("l2update", <<level("SELL", 2, 8)>>),
    message("other", <<>>),
    message("unparsable", <<>>) }
=============================================================================
