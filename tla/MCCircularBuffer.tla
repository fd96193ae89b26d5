-------------------------- MODULE MCCircularBuffer --------------------------
(* Entries of one and two bytes behind one pointer more than the buffer    *)
(* has slots: the smallest supply with which it can always be overwritten. *)
EXTENDS CircularBufferSpec

CONSTANT Pointers

MCEntries == [buffptr : Pointers, size : 1 .. 2]

\* Up to one past the last byte of a buffer of the largest entries.
MCOffsets == 0 .. 2 * Slots + 1

=============================================================================
