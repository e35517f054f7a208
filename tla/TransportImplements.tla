-------------------------- MODULE TransportImplements --------------------------
(* The transport as an implementation of Exchange.  The blocked flag of     *)
(* Exchange is the unread flag outside query(); inside, the exchange is     *)
(* busy, not blocked.                                                       *)
EXTENDS Transport

Abstract == INSTANCE Exchange WITH
  asker <- holder,
  blocked <- (unread /\ holder = Nobody),
  issued <- asked,
  strays <- unguarded

\* The detailed transport, with its lock, flag and line, implements the
\* exchange: a caller sees its own answer, a declared stray, or a failure that
\* blocks the next question until the exchange is unblocked.
ImplementsExchange == Abstract!Spec
=============================================================================
