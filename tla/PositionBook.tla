---------------------------- MODULE PositionBook ----------------------------
(***************************************************************************)
(* What the paper account promises about positions, seen from its          *)
(* database: a position is opened once and closed once, while it is open   *)
(* no other position holds its slot (its market and direction), and its    *)
(* result is recorded at most once, when it closes.                        *)
(*                                                                         *)
(* A crash may cost a result (the position closes unsettled) or a whole    *)
(* position (its opening order is on file, the position never was), but    *)
(* it neither reopens nor duplicates anything.                             *)
(***************************************************************************)
CONSTANTS
  Positions,
  Slots,
  NoSlot      \* the slot of a position that is not open, not one of Slots

VARIABLES
  stage,  \* unused, open, closed without a recorded result, or settled
  slot    \* the slot an open position holds

Stages == {"unused", "open", "closed", "settled"}

TypeOK ==
  /\ stage \in [Positions -> Stages]
  /\ slot \in [Positions -> Slots \cup {NoSlot}]

Moves(p, from, to, s) ==
  /\ stage[p] = from
  /\ stage' = [stage EXCEPT ![p] = to]
  /\ slot' = [slot EXCEPT ![p] = s]

Open(p, s) ==
  /\ \A other \in Positions : slot[other] # s
  /\ Moves(p, "unused", "open", s)

Settle(p) == Moves(p, "open", "settled", NoSlot)

\* The crashes between the commits of a close and of an opening.
CloseUnsettled(p) == Moves(p, "open", "closed", NoSlot)
Lose(p)           == Moves(p, "unused", "closed", NoSlot)

Init ==
  /\ stage = [p \in Positions |-> "unused"]
  /\ slot = [p \in Positions |-> NoSlot]

Next ==
  \E p \in Positions :
    \/ \E s \in Slots : Open(p, s)
    \/ Settle(p)
    \/ CloseUnsettled(p)
    \/ Lose(p)

Spec == Init /\ [][Next]_<<stage, slot>>
==============================================================================
