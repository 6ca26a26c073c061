------------------------------- MODULE Common -------------------------------
(***************************************************************************)
(* What every container of the library shares: cc/common.h's macros, which *)
(* a build may override (each sits behind an #ifndef), and the allocator.  *)
(***************************************************************************)
EXTENDS Naturals

CONSTANTS
  NextPow2(_),      (* CC_NEXT_POW2(capacity + 1), as a function of capacity *)
  DefaultCapacity,  (* the <CONTAINER>_DEFAULT_CAPACITY of the container     *)
  MaxCapacity,      (* its <CONTAINER>_MAX_CAPACITY                          *)
  HeapLimit         (* the largest capacity CC_CALLOC can ever provide       *)

(* CC_NEXT_POW2(c + 1) expands, parentheses missing, to                    *)
(* 1 << (log2((double)c + 1 - 1.) + 1.): the least power of two above c.   *)
(* MaxShift bounds the shift; the runs' capacities stay far below 2^20.    *)
MaxShift == 20

CCNextPow2(c) == CHOOSE p \in {2^k : k \in 0..MaxShift} : c < p /\ p <= 2 * c

CCMin(a, b) == IF a < b THEN a ELSE b

(* HeapLimit < MaxCapacity: by default the maximum is SIZE_MAX - 1, and no *)
(* allocation of that many elements succeeds.                              *)
ASSUME GrowthAssumption ==
  /\ HeapLimit \in Nat
  /\ MaxCapacity \in Nat
  /\ HeapLimit < MaxCapacity
  /\ DefaultCapacity \in 1..HeapLimit
  /\ \A c \in 1..HeapLimit : NextPow2(c) \in Nat /\ c < NextPow2(c)

(* The capacity a resize to "0" (grow) computes from capacity c.           *)
GrownCapacity(c) == CCMin(NextPow2(c), MaxCapacity)

(* A grow passes its range check and its buffer fits in the heap. CC_CALLOC *)
(* may still return NULL: the actions that use this also model that outcome. *)
CanGrow(c, length) ==
  /\ length <= GrownCapacity(c)
  /\ GrownCapacity(c) <= HeapLimit
=============================================================================
