-------------------------- MODULE MCInterfaceReload --------------------------
(***************************************************************************)
(* An instance of InterfaceReload for TLC.  The files and the kernel share *)
(* the address a4 of an interface of the configuration files, i1; the      *)
(* kernel's b4 of an interface of the command line, i2, has c4 for its     *)
(* broadcast address, which the files name as an address.                  *)
(***************************************************************************)
EXTENDS InterfaceReload

CONSTANTS i1, i2, a4, b4, c4, a6

MCV4 == {a4, b4, c4}

MCBroadcastOf == [a \in MCV4 |-> IF a = b4 THEN c4 ELSE NULL]

MCNamed == [i \in {i1, i2} |-> IF i = i1 THEN {a4, a6} ELSE {c4}]

MCLinked == [i \in {i1, i2} |-> IF i = i1 THEN {a4} ELSE {b4}]
=============================================================================
