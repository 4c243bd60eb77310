------------------------------ MODULE MCPaperLoop ------------------------------
(***************************************************************************)
(* Instances of PaperLoop for TLC.  Two runners in one race and one in     *)
(* another of the same day, with stakes of 2 or 3 units against ceilings   *)
(* of 4 a race and 6 a day, bind both ceilings and the minimum stake.      *)
(***************************************************************************)
EXTENDS PaperLoop

CONSTANTS a1, a2, b1, raceA, raceB

OneDayRaceOf == [r \in Runners |-> IF r = b1 THEN raceB ELSE raceA]
OneDayRaces == [race \in {raceA, raceB} |-> 1]
OneRunnerRaces == [race \in {raceA} |-> 1]
SecondDayRaces == [race \in {raceA} |-> 2]
===============================================================================
