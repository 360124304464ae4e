----------------------------- MODULE Allocation -----------------------------
(***************************************************************************)
(* What a tensor allocator promises (tensor_allocator.cpp, Allocate): each *)
(* live range gets an address such that no two ranges that are alive at    *)
(* the same time share a byte, and a size that bounds all of them.         *)
(***************************************************************************)
EXTENDS Integers, Sequences

LiveRange == [startTime : Nat, endTime : Int, size : Nat]

VARIABLES
    ranges,     \* the live ranges, in the order they were created
    address,    \* per range, once placed
    total,      \* what the allocator returns
    placed

AliveTogether(a, b) == a.startTime <= b.endTime /\ b.startTime <= a.endTime

Disjoint(address1, size1, address2, size2) ==
    address1 + size1 <= address2 \/ address2 + size2 <= address1

IsLegal(lrs, addresses, bound) ==
    /\ DOMAIN addresses = DOMAIN lrs
    /\ \A i \in DOMAIN lrs : addresses[i] >= 0 /\ addresses[i] + lrs[i].size <= bound
    /\ \A i, j \in DOMAIN lrs :
          i # j /\ AliveTogether(lrs[i], lrs[j]) =>
              Disjoint(addresses[i], lrs[i].size, addresses[j], lrs[j].size)

Init == ranges = <<>> /\ address = <<>> /\ total = 0 /\ placed = FALSE

\* The ranges are those of the schedule it is asked about.
Place ==
    /\ ~placed
    /\ placed' = TRUE
    /\ ranges' \in Seq(LiveRange)
    /\ IsLegal(ranges', address', total')

Spec == Init /\ [][Place]_<<ranges, address, total, placed>>

=============================================================================
