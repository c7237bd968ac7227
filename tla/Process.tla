------------------------------ MODULE Process ------------------------------
(***************************************************************************)
(* What others see of a program that runs on the machine it was built for: *)
(* the library functions and system calls it makes, in order, each by the  *)
(* name and with the argument the program gave, and the status it ends     *)
(* with.  It is the program that says how it ends; a program that cannot   *)
(* go on ends with the status announced for the cause.                     *)
(***************************************************************************)
EXTENDS Integers, Sequences

CONSTANTS
  Own,      \* no request: the program is in its own code
  Names,    \* what a program may ask for by name: functions, system calls
  Exits,    \* ends the program with the status it is given (also main's return)
  Aborts,   \* ends it with status 134
  Strays,   \* an access or a jump to where there is no memory
  Unknowns, \* an instruction that is not known
  Served,   \* does something and returns
  Values,   \* arguments
  IntSize   \* number of values of an int

VARIABLES
  calling,  \* what the program asks for: name and argument, or Own
  said,     \* what it asked for before
  status    \* Alive, or the status it ended with

Alive == -1   \* no status yet

Starts == calling = Own /\ said = <<>> /\ status = Alive

\* The file cannot be loaded.
Refuse == Starts /\ status' = 1 /\ UNCHANGED <<calling, said>>

Ask ==
  /\ status = Alive /\ calling = Own
  /\ \E f \in Names, v \in Values : calling' = [name |-> f, arg |-> v]
  /\ UNCHANGED <<said, status>>

Serve ==
  /\ status = Alive /\ calling.name \in Served
  /\ said' = Append(said, calling) /\ calling' = Own
  /\ UNCHANGED status

EndStatus(c) ==
  IF c.name \in Exits THEN c.arg % IntSize
  ELSE IF c.name \in Aborts THEN 134
  ELSE IF c.name \in Strays THEN 139
  ELSE IF c.name \in Unknowns THEN 4
  ELSE 127

End ==
  /\ status = Alive /\ calling # Own /\ calling.name \notin Served
  /\ status' = EndStatus(calling)
  /\ UNCHANGED <<calling, said>>

\* The engine cannot go on: no code for a block.
GiveUp ==
  /\ status = Alive /\ calling = Own /\ status' = 70
  /\ UNCHANGED <<calling, said>>

ProcessNext == Refuse \/ Ask \/ Serve \/ End \/ GiveUp

ProcessSpec == Starts /\ [][ProcessNext]_<<calling, said, status>>
=============================================================================
