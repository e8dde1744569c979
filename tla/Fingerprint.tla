----------------------------- MODULE Fingerprint ----------------------------
(***************************************************************************)
(* Title fingerprints (app/dedup/simhash.py) and their storage as signed   *)
(* integers.  The width is a parameter; the code's is 64.                  *)
(*                                                                         *)
(* An operator marked "fault:" is the code with one plausible mistake in   *)
(* it; PROJECT.json pairs it with the operator after it and the property   *)
(* that catches the mistake.                                               *)
(***************************************************************************)
EXTENDS Integers, FiniteSets

CONSTANT Bits   \* width of a fingerprint

(* With what the provers do not know of powers. *)
ASSUME BitsAssumption == /\ Bits \in Nat \ {0}
                         /\ 2 ^ (Bits - 1) \in Nat \ {0}
                         /\ 2 ^ Bits = 2 * 2 ^ (Bits - 1)

Fingerprints == 0 .. 2 ^ Bits - 1

Bit(n, i) == (n \div 2 ^ i) % 2

(* hamming_distance: the bits in which two fingerprints differ. *)
Distance(f, g) == Cardinality({i \in 0 .. Bits - 1 : Bit(f, i) # Bit(g, i)})

(* fault: the boundary is off by one *)
ToSignedLate(f) == IF f > 2 ^ (Bits - 1) THEN f - 2 ^ Bits ELSE f

(* to_signed_64 *)
ToSigned(f) == IF f >= 2 ^ (Bits - 1) THEN f - 2 ^ Bits ELSE f

(* from_signed_64; & with all ones is the remainder, also of a negative.   *)
FromSigned(v) == v % 2 ^ Bits
=============================================================================
