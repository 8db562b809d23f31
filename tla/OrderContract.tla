--------------------------- MODULE OrderContract ----------------------------
(***************************************************************************)
(* What the book of orders promises to the shop and its customers, without *)
(* queues, callers, flushes or crashes: orders are accepted and amended    *)
(* until they are paid; from then on they are a settled contract.          *)
(***************************************************************************)
EXTENDS Ledger

VARIABLE book

(* A run starts on an empty book or on one an earlier run has left.        *)
Init == book \in Table

(* Any number of orders may be accepted, amended, paid or closed at once.  *)
Progress == /\ book' \in Table
            /\ MovesForward(book, book')

Spec == Init /\ [][Progress]_book
=============================================================================
