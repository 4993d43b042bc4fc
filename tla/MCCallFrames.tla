---------------------------- MODULE MCCallFrames ----------------------------
(* Eight addresses: 0-1 ROM, 2 the echo of 3, 3-7 RAM; power-up SP is 6, so    *)
(* one POP wraps it to 0.  A word is a pair of bits; <<1, 1>> is not a valid PC.  *)
(* Three command lines: nothing permitted, with and without the debugger, and *)
(* everything permitted.                                                      *)
EXTENDS CallFrames

MCByte == 0 .. 1
MCInitMem == [a \in 0 .. AddrCount - 1 |-> IF a < 2 THEN 1 ELSE 0]
MCCell == [a \in 0 .. AddrCount - 1 |-> IF a = 2 THEN 3 ELSE a]
MCWritable == 2 .. AddrCount - 1
MCCode == {<<1, 0>>, <<0, 1>>, <<1, 1>>}
MCValidPC == {<<1, 0>>, <<0, 1>>, <<0, 0>>}
MCPushWords == {<<0, 1>>}
MCOptions == {[permitted |-> {}, debugger |-> FALSE],
              [permitted |-> {}, debugger |-> TRUE],
              [permitted |-> ErrorKinds, debugger |-> FALSE]}
=============================================================================
