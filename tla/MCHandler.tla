------------------------------ MODULE MCHandler ------------------------------
(* Handler with 16-byte pages and two pages per word of the log. *)
EXTENDS Handler

A == [gpa |-> 0, size |-> 32, va |-> 112]
B == [gpa |-> 32, size |-> 24, va |-> 48]     \* ends within a page
C == [gpa |-> 24, size |-> 24, va |-> 80]     \* starts within a page, overlaps A

MCRegions == {A, B, C}
MCTables == {<<A, B>>, <<B, A>>, <<A, C>>, <<C>>, <<>>}

\* Good in A and B; an avail ring at an odd address; one that nothing maps.
MCRingAddrs == {[desc |-> 112, avail |-> 128, used |-> 64],
                [desc |-> 48, avail |-> 113, used |-> 116],
                [desc |-> 112, avail |-> 128, used |-> 8]}

\* One page; nine bytes over the end of a page, which in B are in its partial page.
MCWrites == {[off |-> 0, len |-> 16], [off |-> 15, len |-> 9]}
=============================================================================
