----------------------------- MODULE BookThread -----------------------------
(***************************************************************************)
(* book_thread_fn (engine/main.cpp): the thread that owns the live book.   *)
(* It polls a flag, pops events from the ring until it finds it empty, and *)
(* applies each to the book.  Both live engines, runTcpWire and            *)
(* runBtcWire, start it; they differ in what fills the ring and when.  An  *)
(* action is one step between two accesses to shared state, and leaves     *)
(* the variables of the module that composes it to that module.            *)
(***************************************************************************)
EXTENDS Feed

CONSTANT
  Capacity  (* of the ring: 4096 in types.h                                 *)

ASSUME CapacityAssumption == Capacity \in Nat \ {0}

VARIABLES
  ring,     (* EventQueue: what the reader pushed and the thread has not popped *)
  quit,     (* the flag the thread polls                                    *)
  bookPc,   (* where the thread stands                                      *)
  current,  (* what it popped last                                          *)
  applied,  (* history: what reached the book, in order                     *)
  printed   (* history: the trades printed so far                           *)

threadVars == <<bookPc, current, applied, printed>>

-----------------------------------------------------------------------------
(* The outer loop's test of the flag.                                      *)
poll ==
  /\ bookPc = "poll"
  /\ bookPc' = IF quit THEN "returned" ELSE "pop"
  /\ UNCHANGED <<bookVars, ring, current, applied, printed>>

(* A fault to seed: the thread returns when it finds the ring empty.       *)
popNothingReturns ==
  /\ bookPc = "pop" /\ ring = <<>>
  /\ bookPc' = "returned"
  /\ UNCHANGED <<bookVars, ring, current, applied, printed>>

(* The inner loop ends when the ring is empty, and the flag is polled.     *)
popNothing ==
  /\ bookPc = "pop" /\ ring = <<>>
  /\ bookPc' = "poll"
  /\ UNCHANGED <<bookVars, ring, current, applied, printed>>

pop ==
  /\ bookPc = "pop" /\ ring # <<>>
  /\ ring' = Tail(ring) /\ current' = Head(ring)
  /\ bookPc' = "dispatch"
  /\ UNCHANGED <<bookVars, applied, printed>>

(* The call the popped event makes; an ADD then matches until it returns.  *)
callBook(event) ==
  /\ bookPc = "dispatch"
  /\ dispatch(event)
  /\ bookPc' = "print"
  /\ applied' = Append(applied, current)
  /\ UNCHANGED <<ring, current, printed>>

matching == Match /\ UNCHANGED <<ring, threadVars>>

(* The trades of the call and the best prices are printed.                 *)
print ==
  /\ bookPc = "print" /\ Idle
  /\ printed' = printed \o lastTrades
  /\ bookPc' = "pop"
  /\ UNCHANGED <<bookVars, ring, current, applied>>

threadStep(event) == poll \/ popNothing \/ pop \/ callBook(event) \/ matching \/ print
=============================================================================
