-------------------------------- MODULE Ring --------------------------------
(***************************************************************************)
(* What the rings of a vhost-user back-end promise to the front-end.  The  *)
(* device works on a ring in sessions, one at a time and only while the    *)
(* ring runs; GET_VRING_BASE ends when the session has, and what it        *)
(* answers is the index at which the ring can be taken up again.           *)
(***************************************************************************)
EXTENDS Naturals

CONSTANTS
  Rings,
  NoBase        \* no answer, or one that the ring has left behind

VARIABLES
  running,      \* the ring is started
  session,      \* the device is working on it
  index,        \* the next chain to take
  published,    \* chains the driver has made available
  answer        \* the last answer to GET_VRING_BASE

contractVars == <<running, session, index, published, answer>>

RingInit ==
  /\ running = [r \in Rings |-> FALSE] /\ session = [r \in Rings |-> FALSE]
  /\ index = [r \in Rings |-> 0] /\ published = [r \in Rings |-> 0]
  /\ answer = [r \in Rings |-> NoBase]

StartRing(r) ==
  /\ ~ running[r]
  /\ running' = [running EXCEPT ![r] = TRUE] /\ answer' = [answer EXCEPT ![r] = NoBase]
  /\ UNCHANGED <<session, index, published>>

\* The ring stops between two sessions, never in one.
StopRing(r) ==
  /\ ~ session[r]
  /\ running' = [running EXCEPT ![r] = FALSE]
  /\ UNCHANGED <<session, index, published, answer>>

AnswerBase(r) ==
  /\ ~ running[r]
  /\ answer' = [answer EXCEPT ![r] = index[r]]
  /\ UNCHANGED <<running, session, index, published>>

\* SET_VRING_BASE is obeyed at any time, but not in the middle of a session.
SetBase(r) ==
  /\ ~ session[r]
  /\ \E b \in 0 .. published[r] : index' = [index EXCEPT ![r] = b]
  /\ answer' = [answer EXCEPT ![r] = NoBase]
  /\ UNCHANGED <<running, session, published>>

Begin(r) ==
  /\ running[r] /\ ~ session[r]
  /\ session' = [session EXCEPT ![r] = TRUE]
  /\ UNCHANGED <<running, index, published, answer>>

Take(r) ==
  /\ session[r] /\ index[r] < published[r]
  /\ index' = [index EXCEPT ![r] = @ + 1]
  /\ UNCHANGED <<running, session, published, answer>>

End(r) ==
  /\ session[r]
  /\ session' = [session EXCEPT ![r] = FALSE]
  /\ UNCHANGED <<running, index, published, answer>>

MakeAvailable(r) ==
  /\ published' = [published EXCEPT ![r] = @ + 1]
  /\ UNCHANGED <<running, session, index, answer>>

RingNext ==
  \E r \in Rings :
    \/ StartRing(r) \/ StopRing(r) \/ AnswerBase(r) \/ SetBase(r)
    \/ Begin(r) \/ Take(r) \/ End(r) \/ MakeAvailable(r)

RingSpec == RingInit /\ [][RingNext]_contractVars
=============================================================================
