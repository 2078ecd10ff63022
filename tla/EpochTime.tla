------------------------------ MODULE EpochTime ------------------------------
(***************************************************************************)
(* Instants as the adapters store them.  Time is counted in ticks, several *)
(* to a second, because the tables hold whole seconds while the services   *)
(* compare them with the full clock.                                       *)
(***************************************************************************)
EXTENDS Integers

CONSTANT Second    \* ticks to a second

ASSUME SecondAssumption == Second \in Nat \ {0}

\* Mutant: rounded up to the next second.
Stored_Up(time) == (time - (time % Second)) + Second

\* Mutant: rounded down by a second too much.
Stored_Down(time) == (time - (time % Second)) - Second

\* to_epoch, then from_epoch: the fraction of a second is cut off.
Stored(time) == time - (time % Second)

\* Cutting off the fraction of a second gives an earlier instant.
LEMMA StoredIsEarlier ==
  ASSUME NEW time \in Nat
  PROVE  Stored(time) \in Nat /\ Stored(time) <= time
<1>1. time % Second \in 0..(Second - 1)
  BY SecondAssumption
<1>2. time % Second <= time
  BY SecondAssumption, time = Second * (time \div Second) + (time % Second)
<1>. QED
  BY <1>1, <1>2, SecondAssumption DEF Stored

\* Cutting off takes less than a second.
LEMMA StoredIsClose ==
  ASSUME NEW time \in Nat
  PROVE  time < Stored(time) + Second
<1>1. time % Second \in 0..(Second - 1)
  BY SecondAssumption
<1>. QED
  BY <1>1, SecondAssumption DEF Stored
=============================================================================
