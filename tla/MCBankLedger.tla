---------------------------- MODULE MCBankLedger ----------------------------
EXTENDS BankLedger

CONSTANTS u1, u2, m1

MCPrecision == [b \in Banks |-> IF b = QUOTE THEN 2 ELSE 1]
MCAssetWeight == [b \in Banks |-> IF b = QUOTE THEN 2 ELSE 1]
MCLiabilityWeight == [b \in Banks |-> IF b = QUOTE THEN 2 ELSE 3]
MCWallet == [u \in Users |-> [b \in Banks |-> IF (u = u1) = (b = QUOTE) THEN 2 ELSE 0]]
MCPnls == {-2, 2}

(* Pnl is a matter of the quote bank: once there is some, the other banks  *)
(* are left aside.                                                         *)
PnlOrOtherBanks ==
    \/ trades = 0
    \/ \A u \in Users, b \in Banks \ {QUOTE} :
          /\ vault[b] = 0
          /\ \A s \in Slots : bank_balances[u][s].bank_index # b
=============================================================================
