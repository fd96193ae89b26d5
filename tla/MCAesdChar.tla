----------------------------- MODULE MCAesdChar -----------------------------
(* In the first instance the heap has a block per slot, one for the entry   *)
(* being assembled and one for krealloc to move it to; reads ask for less   *)
(* than the longest command.  The others have a block less: where the       *)
(* module is unloaded, blocks are lost anyway.                              *)
EXTENDS AesdCharProperties

CONSTANTS a, b

\* A piece without its newline, and one that ends a command.
MCInputs == {<<a>>, <<b, NL>>}

\* A write of no bytes, one of which a fault may cut the newline off, and
\* one that goes on past its newline.
MCInputsCut == {<< >>, <<a, NL>>, <<NL, a>>}

\* One byte is enough to tell whether calls return; krealloc is reached by a
\* piece and its newline.
MCInputsShort == {<< >>, <<a>>, <<NL>>}

\* Blocks, and processes that make the same calls, are interchangeable.
InterchangeableBlocks == Permutations(Blocks)
Interchangeable ==
  Permutations(Blocks) \cup Permutations(Writers)

=============================================================================
