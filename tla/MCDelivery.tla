------------------------------ MODULE MCDelivery ------------------------------
(* Bytes with 4 values, integers and sizes of two bytes. *)
EXTENDS Delivery

MCBooleans == {-1, 0, 1}
MCInts == {-8, -1, 0, 3, 4, 7}
MCNumbers == {<<2, 1>>}
MCStrings == {<<>>, <<3>>, <<0, 1, 2>>, <<3, 2, 1, 0>>}
MCArrays == {[type |-> 1, elementSize |-> 1, data |-> <<>>],
             [type |-> 2, elementSize |-> 2, data |-> <<1, 0, 3, 3>>]}

=============================================================================
