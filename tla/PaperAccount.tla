----------------------------- MODULE PaperAccount -----------------------------
(***************************************************************************)
(* What the virtual bankroll promises, with every operation atomic: a      *)
(* pending bet is a stake already taken out of the balance, settling it    *)
(* pays its gross return back exactly once, and nothing else moves money   *)
(* except an explicit reset by the user.                                   *)
(*                                                                         *)
(* BetTracker, whose operations take several steps and read the balance    *)
(* before they write it, is checked against this specification.            *)
(***************************************************************************)
EXTENDS Integers

CONSTANTS BetIds,       \* identities of bets, in the order they are placed
          Stakes,       \* stakes a bet may have
          Returns,      \* gross returns a settlement may pay
          Bankrolls     \* amounts the user may set the bankroll to

VARIABLES balance,      \* the current bankroll
          pending,      \* bets placed and not settled
          settled       \* bets that have been paid

vars == <<balance, pending, settled>>

Init == /\ balance \in Bankrolls
        /\ pending = {}
        /\ settled = {}

(* A new bet takes its stake out of the balance. *)
Stake(b) == \E s \in Stakes :
    /\ b \notin pending \cup settled
    /\ balance' = balance - s
    /\ pending' = pending \cup {b}
    /\ UNCHANGED settled

(* A pending bet is paid once, and is never pending again. *)
Pay(b) == \E g \in Returns :
    /\ b \in pending
    /\ balance' = balance + g
    /\ pending' = pending \ {b}
    /\ settled' = settled \cup {b}

(* The user overrides the balance. *)
Reset == /\ balance' \in Bankrolls
         /\ UNCHANGED <<pending, settled>>

Next == \/ \E b \in BetIds : Stake(b) \/ Pay(b)
        \/ Reset

Spec == Init /\ [][Next]_vars
===============================================================================
