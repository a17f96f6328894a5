---------------------------- MODULE MCConfigDir ----------------------------
(* A configDir with up to three files, and inputs that change a file, add  *)
(* one, drop one, empty the directory and drop it altogether.              *)
EXTENDS ConfigDir

CONSTANTS a, b, x, y

Holding(va, vb) == [n \in Name |-> IF n = a THEN va ELSE IF n = b THEN vb ELSE None]
MCWants == {None, Holding(None, None), Holding(x, None), Holding(y, x), Holding(x, x)}
=============================================================================
