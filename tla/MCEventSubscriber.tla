------------------------- MODULE MCEventSubscriber -------------------------
(* Instances of EventSubscriber for TLC; the cfgs give the constants.      *)
EXTENDS EventSubscriber

(* Two slots to a second: the second and the third are of one.             *)
TwoSlotsASecond == [slot \in 1 .. MaxLanded |-> slot \div 2]

(* Which market a record is of matters for trades only, of which three are *)
(* enough.                                                                 *)
Scope == IF EventType = "TradeRecord" THEN Len(chain) =< 3
                                      ELSE \A t \in Landed : chain[t].market = "sol"
=============================================================================
