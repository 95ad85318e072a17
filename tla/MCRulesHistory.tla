---------------------------- MODULE MCRulesHistory ----------------------------
(* Instances of RulesHistory for TLC: the bank reports a hold, later the same  *)
(* item cleared under another description; one rule looks for the first        *)
(* description, the other for what has cleared.                                *)
EXTENDS RulesHistory, TLC

CONSTANTS Shop, Card   \* texts

MCText   == {Shop, Card}
MCOccurs == {<<Shop, Shop>>}

Report(text, cleared) ==
  [description |-> text, mcc |-> 5411, account_id |-> 1, currency |-> None,
   hold |-> ~cleared, amount_minor |-> -100,
   raw_payload |-> [comment |-> None, counter_iban |-> None, counter_edrpou |-> None,
                    originalMcc |-> Junk]]
MCReported == {Report(Shop, FALSE), Report(Card, TRUE)}

MCPredicate == {{[op |-> "icontains", field |-> "description", value |-> Shop]},
                {[op |-> "hold_is", value |-> FALSE]}}
MCSymmetry == Permutations(Tx) \cup Permutations(Client)
=============================================================================
