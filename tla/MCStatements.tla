---------------------------- MODULE MCStatements ----------------------------
(* Instances of Statements for TLC: purchases in EUR on one card.              *)
EXTENDS Statements

CONSTANT LastPost   \* bound: no purchase after it

MCOwner  == [i \in Item |-> 1]
MCMapped == {840, 978}
MCCode   == [i \in Item |-> 978]
MCOccurs == [i \in Item |-> 1..LastPost]
=============================================================================
