-------------------------------- MODULE Dates -------------------------------
(***************************************************************************)
(* Publication dates, as parse_published_at leaves them: points in time    *)
(* that can be compared, or none.                                          *)
(***************************************************************************)
EXTENDS Integers

NoDate == 0
Date == Nat \ {NoDate}

(* What both filters of process_market keep: a candidate is not dropped    *)
(* for want of a date, nor where there is nothing to compare it with.      *)
NotBefore(date, bound) == date = NoDate \/ bound = NoDate \/ date >= bound

(* published_at of a stored item. *)
Published(search, page) == IF search # NoDate THEN search ELSE page
=============================================================================
