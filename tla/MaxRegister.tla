----------------------------- MODULE MaxRegister ----------------------------
(***************************************************************************)
(* The maximum that Utiltest::RecomputeMax keeps in an atomic word without *)
(* a compare-exchange: a thread exchanges its value for the register's     *)
(* and, if it took out a larger one, goes on to put that one back.  In     *)
(* between the register holds less than the maximum.                       *)
(***************************************************************************)
EXTENDS Integers

CONSTANTS
  Threads,
  Values    (* What threads come with: unsigned words.                      *)

VARIABLES
  register,
  raising,      (* The value each thread is putting in, None if it is not.  *)
  contributed   (* history: the values threads have come with               *)

vars == <<register, raising, contributed>>

None == -1

Init ==
  /\ register = 0
  /\ raising = [t \in Threads |-> None]
  /\ contributed = {}

Contribute(t, v) ==
  /\ raising[t] = None
  /\ raising' = [raising EXCEPT ![t] = v]
  /\ contributed' = contributed \cup {v}
  /\ UNCHANGED register

(* One exchange, and the test of what it returned.                          *)
Exchange(t) ==
  /\ raising[t] # None
  /\ register' = raising[t]
  /\ raising' = [raising EXCEPT ![t] = IF register > raising[t] THEN register ELSE None]
  /\ UNCHANGED contributed

Next == \E t \in Threads : (\E v \in Values : Contribute(t, v)) \/ Exchange(t)

Spec == Init /\ [][Next]_vars

-----------------------------------------------------------------------------
(* A value is never lost: it is in the register, or covered by it, or by a  *)
(* value some thread still holds and will put in.                           *)
NoValueLost ==
  \A c \in contributed : c <= register \/ \E t \in Threads : c <= raising[t]

(* At rest the register is the maximum of the values contributed.           *)
MaximumAtRest ==
  (\A t \in Threads : raising[t] = None) =>
    /\ \A c \in contributed : c <= register
    /\ register \in contributed \cup {0}
=============================================================================
