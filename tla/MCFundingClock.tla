--------------------------- MODULE MCFundingClock ---------------------------
EXTENDS FundingClock

Says(price, confidence, usable, twap) ==
    [price |-> price, confidence |-> confidence, usable |-> usable, twap |-> twap]

(* Near the mark, uncertain, with a twap on either side, stale, too        *)
(* volatile and negative.                                                  *)
AnyFeeds == {Says(60, 0, TRUE, 66), Says(80, 20, TRUE, 50), Says(70, 0, FALSE, 70),
             Says(400, 0, TRUE, 70), Says(-5, 0, TRUE, 70)}
=============================================================================
