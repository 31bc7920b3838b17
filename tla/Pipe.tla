-------------------------------- MODULE Pipe --------------------------------
(***************************************************************************)
(* What a console port promises in one direction: the bytes put in at one  *)
(* end come out at the other, in order, each at most once, and the reader  *)
(* is told that the stream ended only when it has all of them.  As bytes   *)
(* come out in order they are only counted.  After an I/O error bytes may  *)
(* be missing, or come out twice if it was the writer of the output that   *)
(* failed.                                                                 *)
(***************************************************************************)
EXTENDS Naturals

VARIABLES
  sent,     \* bytes put in
  got,      \* bytes that came out
  closed,   \* the reader was told that no more come
  lossy,    \* an I/O error happened
  rewound   \* it made the port write again what it had written

pipeVars == <<sent, got, closed, lossy, rewound>>

PipeInit ==
  sent = 0 /\ got = 0 /\ closed = FALSE /\ lossy = FALSE /\ rewound = FALSE

Send ==
  /\ sent' \in Nat /\ sent' >= sent
  /\ UNCHANGED <<got, closed, lossy, rewound>>

Receive ==
  /\ ~ closed
  /\ got' \in Nat /\ got' >= got
  /\ got' <= sent \/ rewound
  /\ UNCHANGED <<sent, closed, lossy, rewound>>

\* The end is told together with the last bytes.
Close ==
  /\ ~ closed /\ closed' = TRUE
  /\ got' \in Nat /\ got' >= got /\ got' <= sent
  /\ got' = sent \/ lossy
  /\ UNCHANGED <<sent, lossy, rewound>>

Fail ==
  /\ lossy' = TRUE /\ rewound' \in {rewound, TRUE}
  /\ UNCHANGED <<sent, got, closed>>

PipeNext == Send \/ Receive \/ Close \/ Fail

PipeSpec == PipeInit /\ [][PipeNext]_pipeVars
=============================================================================
