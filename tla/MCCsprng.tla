------------------------------ MODULE MCCsprng ------------------------------
(***************************************************************************)
(* The fold of the boot count, scaled down from bytes to single bits.      *)
(***************************************************************************)
EXTENDS Csprng

Numbers == {"init", "deinit", "get_random_numbers"}

XorOfBits(n) == ((n % 2) + ((n \div 2) % 2) + ((n \div 4) % 2)) % 2
=============================================================================
