----------------------------- MODULE Addresses -----------------------------
(***************************************************************************)
(* Addresses as both routers compare them: 32-bit numbers in network byte  *)
(* order on a little-endian machine, so the first octet is the lowest one. *)
(* Masks are taken to cover whole octets: "address & mask" then keeps the  *)
(* lowest octets.                                                          *)
(***************************************************************************)
EXTENDS Integers

CONSTANT B  \* values of an octet (256)

ASSUME OctetAssumption == B \in Nat \ {0, 1}

Word    == B * B * B * B
Address == 0..(Word - 1)
Mask    == 0..4     \* octets under the mask: more octets, larger number
masked(a, k) ==     \* a & mask
    CASE k = 0 -> 0
      [] k = 1 -> a % B
      [] k = 2 -> a % (B * B)
      [] k = 3 -> a % (B * B * B)
      [] k = 4 -> a
Entry == [prefix : Address, mask : Mask]
=============================================================================
