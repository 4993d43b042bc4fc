----------------------------- MODULE MCUndefined -----------------------------
(* Bytes of one bit: four addresses, one of them a device.  One bit is enough *)
(* for two runs to differ in.                                                 *)
EXTENDS Undefined

MCDevices == {<<0, 0>>, <<0, 1>>}
MCRequested == <<0, 0>>
MCEnable == <<1, 1>>
MCResult(x, y) == (x + y) % 2
MCFlags(x, y, f) == IF x = y THEN 1 ELSE f
MCPreset(f) == 1
MCAnd(x, y) == x * y
=============================================================================
