--------------------------- MODULE MCBookingRaces ---------------------------
(***************************************************************************)
(* Instances of BookingRaces: which requests may overlap.                  *)
(***************************************************************************)
EXTENDS BookingRaces, TLC

CONSTANTS b1, b2,   \* bookings
          w1, w2    \* workers

HolderKinds == {"edit", "shelve", "delete", "apply", "withdraw", "accept", "reject"}

\* One secretary at the desk, and everybody else one at a time.
OneEach == w1 :> {"allocate"} @@ w2 :> (HolderKinds \cup {"expire", "unbook"})

\* Two secretaries at once, each of whom may also be somebody who accepts a place, or
\* withdraws, or cancels one.
TwoAllocations == w1 :> {"allocate", "accept"} @@ w2 :> {"allocate", "apply", "withdraw", "unbook"}

\* An allocation, and somebody who leaves the queue and joins it again.
AllocateAndWithdraw == w1 :> {"allocate"} @@ w2 :> {"apply", "withdraw", "shelve"}

\* Somebody who accepts a place, and the expiry job.
AcceptAndExpire == w1 :> {"allocate", "apply", "accept", "unbook"} @@ w2 :> {"expire"}

Alike == Permutations({b1, b2})

=============================================================================
