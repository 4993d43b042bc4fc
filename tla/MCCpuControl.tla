---------------------------- MODULE MCCpuControl ----------------------------
(* Sixteen addresses: 0-1 ROM, 2-3 the echo of 4-5, 6-15 RAM with the stack from  *)
(* 14 down, which holds three frames and a pushed word, and another, smaller one   *)
(* from 12; two lines.                                                         *)
EXTENDS CpuControl

ChosenMem == [a \in 0 .. AddrCount - 1 |-> 0]
ChosenCell == [a \in 0 .. AddrCount - 1 |-> IF a \in {2, 3} THEN a + 2 ELSE a]
ChosenWritable == 2 .. AddrCount - 1
ChosenCode == {<<1, 0>>, <<0, 1>>}
ChosenWords == {<<1, 1>>}
ChosenVector == [line \in Lines |-> <<1, 0>>]
ChosenOptions == {[permitted |-> {}, debugger |-> FALSE]}
=============================================================================
