-------------------------- MODULE MCSummaryCleanup --------------------------
(* Readings and events in one behaviour, the kinds that only age in another. *)
(* Processes are interchangeable.                                            *)
EXTENDS SummaryCleanup, TLC

MCWritten == {Signals \cup {Event}, {Notice, File}}
Interchangeable == Permutations(Slots)
=============================================================================
