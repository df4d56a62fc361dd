--------------------------- MODULE MCNativeResult ---------------------------
(* Small integers for NativeResult: every bound and every overflow is reached. *)
EXTENDS NativeResult

\* Around zero, i32::MAX = 7 and the end of the address space.
SomeSizes == {0, 1, 2, 3, 5, 7, 8, UsizeMax}
SomeCounts == {-8, -1, 0, 1, 2, 3, 5, 7}
\* Null, low, unaligned, and close to the end of the address space.
SomeAddresses == {0, 2, 3, 8, UsizeMax - 11, UsizeMax - 5, UsizeMax - 3, UsizeMax}
=============================================================================
