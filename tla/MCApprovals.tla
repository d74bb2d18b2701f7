---------------------------- MODULE MCApprovals ----------------------------
(***************************************************************************)
(* Instances of Approvals: two children, prices that go up, a camp that     *)
(* lowers its minimum age.                                                 *)
(***************************************************************************)
EXTENDS Approvals, TLC

CONSTANTS anna, ben

D(price, ill, age) == [price |-> price, ill |-> ill, age |-> age]

AnnaAndBen ==
    anna :> {D("custom", FALSE, 7), D("second_child", FALSE, 9)}
    @@ ben :> {D("full", FALSE, 8)}
Ages == {[min |-> 8, max |-> 10], [min |-> 6, max |-> 8]}
PriceList(full) == [t \in PriceTypes \ {"custom"} |->
                      CASE t = "full" -> full [] t = "second_child" -> 2 [] OTHER -> 1]
TwoLists == {PriceList(3), PriceList(4)}

=============================================================================
