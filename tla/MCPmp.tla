-------------------------------- MODULE MCPmp --------------------------------
(* A buffer of 16 bytes at either of two addresses.  ESP-IDF has left each  *)
(* of the entries 4 to 7 unset, as the top of a range, or, as               *)
(* 16_pmp_sandbox:39 has it of the lower ones, locked on all of the memory, *)
(* readable and writable.                                                   *)
EXTENDS Pmp

TwoBases == {16, 48}

BootEntries ==
    {[byte |-> Off, addr |-> 0],
     [byte |-> [Off EXCEPT !.R = TRUE, !.W = TRUE, !.A = "NAPOT", !.L = TRUE], addr |-> 31],
     [byte |-> [Off EXCEPT !.R = TRUE, !.A = "TOR"], addr |-> 12]}

=============================================================================
