------------------------------- MODULE Stack --------------------------------
(* stack.c: one stack_t, *stk, and the operations of stack.h on it.        *)
EXTENDS Buffer

VARIABLE stk

StackInit == stk = NewBuffer(DefaultCapacity)

(* _stack_insert; d is what it reads through its data pointer.             *)
StackInsert(d) ==
  \E s \in {stk, Resized(stk)} : HasRoom(stk, s) /\ stk' = Inserted(s, s.length, d)

StackRefuses == IsFull(stk) /\ UNCHANGED stk

(* Slip: no test against the length.                                       *)
StackRemoveUntested(count) == stk' = [stk EXCEPT !.length = @ - count]

(* _stack_remove takes elements from the top.                              *)
StackRemove(count) ==
  /\ stk.length >= count
  /\ stk' = [stk EXCEPT !.length = @ - count]

(* stack_head.                                                             *)
StackHead == IF stk.length > 0 THEN stk.cell[stk.length-1] ELSE NULL
=============================================================================
