----------------------------- MODULE FsuipcUser -----------------------------
(***************************************************************************)
(* The FSUIPC user library (fsuipc/src/module-user.c) as                   *)
(* local_user_adapter calls it (liboac/src/fsuipc/local.cpp): requests     *)
(* gather in one buffer of the process, whoever makes them, and            *)
(* FSUIPC_Process hands all of them to FSUIPC at once, then goes through   *)
(* the buffer to copy each value read where its request says.  Nothing     *)
(* keeps two threads from doing so together: m_pNext is where the next     *)
(* request is written and where the next answer is copied from.            *)
(*                                                                         *)
(* The link to FSUIPC stays open (an adapter is alive).  A request takes   *)
(* one slot of the buffer, whatever the length of its offset, a value is a *)
(* small number, and a request that does not fit is not made.  To queue a  *)
(* request, to send the buffer and to copy one answer are one step each.   *)
(***************************************************************************)
EXTENDS Naturals, SequencesExt

CONSTANTS
  Offset,    \* the FSUIPC offsets observed
  MaxValue,  \* bound: the largest value an offset takes
  Room       \* bound: the slots of the buffer, 32 KB in the code

ASSUME FsuipcUserAssumption == Room \in Nat \ {0}

VARIABLES
  memory,  \* the simulator's offsets
  view,    \* m_pView: the slots of the buffer, stale ones too
  next     \* m_pNext, the number of a slot

fsuipcVars == <<memory, view, next>>

Value == 0..MaxValue

\* A slot never written, or terminated, is zeros.
Zeros == [kind |-> "none"]

FsuipcInit ==
  /\ memory = [o \in Offset |-> 0]
  /\ view = [i \in 1..Room |-> Zeros]
  /\ next = 1

\* The last slot is left for the terminator.
Queue(r) ==
  /\ next < Room
  /\ view' = [view EXCEPT ![next] = r]
  /\ next' = next + 1

\* The reception area of a read is zeroed.
FSUIPC_Read(o, dest) ==
  Queue([kind |-> "read", offset |-> o, of |-> dest, data |-> 0])
FSUIPC_Write(o, value) ==
  Queue([kind |-> "write", offset |-> o, data |-> value])

-----------------------------------------------------------------------------
(* FSUIPC_Process, in the steps other threads may come between.            *)

NoData == next = 1

\* Mutant: what follows the requests is what an earlier message left there.
Unterminated == ~NoData /\ UNCHANGED view

Terminate == ~NoData /\ view' = [view EXCEPT ![next] = Zeros]

\* What FSUIPC is sent: the slots before m_pNext, up to a terminator.
Sent == {i \in 1..(next - 1) : \A j \in 1..i : view[j].kind # "none"}

\* The cells when FSUIPC has served the first n slots: in their order.
After(n) ==
  FoldLeft(LAMBDA m, r : IF r.kind = "write" THEN [m EXCEPT ![r.offset] = r.data] ELSE m,
           memory, SubSeq(view, 1, n))

\* SendMessage: FSUIPC answers the reads in the buffer itself.
Answered ==
  /\ memory' = After(Cardinality(Sent))
  /\ view' = [i \in 1..Room |->
       IF i \in Sent /\ view[i].kind = "read"
       THEN [view[i] EXCEPT !.data = After(i)[view[i].offset]] ELSE view[i]]

Reset == next' = 1 /\ UNCHANGED <<memory, view>>

\* The bytes copied are those at m_pNext, not those after the header at hand.
Answer == IF view[next].kind = "none" THEN 0 ELSE view[next].data

\* m_pNext past the slot; it runs over the end of the buffer when threads
\* have moved it together, which the model does not follow.
Advance == next < Room /\ next' = next + 1 /\ UNCHANGED <<memory, view>>

\* The simulator changes an offset.
Simulate(o, v) == memory' = [memory EXCEPT ![o] = v] /\ UNCHANGED <<view, next>>
=============================================================================
