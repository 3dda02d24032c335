----------------------------- MODULE Scoreboard -----------------------------
(***************************************************************************)
(* What the game promises its players, without requests, queue, jobs and   *)
(* statements: a match is open to guesses, then closed with its result,    *)
(* then scored, once and for all players at the same time.  A player may   *)
(* drop off the board for good; of him nothing more is said.               *)
(***************************************************************************)
EXTENDS Scoring

CONSTANTS Users, Matches, Goals

VARIABLES
    board,    \* each match: its stage and its result
    player    \* each player: his guesses and his standing, or Off

Off == [off |-> TRUE]

NoGuess == <<NULL, NULL>>

Open == [stage |-> "open", local |-> NULL, visiting |-> NULL]

Init ==
    /\ board = [m \in Matches |-> Open]
    /\ player = [u \in Users |-> [guess |-> [m \in Matches |-> NoGuess], standing |-> 0]]

Guess(u, m, local, visitor) ==
    /\ board[m].stage = "open"
    /\ player[u] # Off
    /\ player' = [player EXCEPT ![u].guess[m] = <<local, visitor>>]
    /\ UNCHANGED board

Close(m, local, visiting) ==
    /\ board[m].stage = "open"
    /\ board' = [board EXCEPT ![m] = [stage |-> "closed", local |-> local, visiting |-> visiting]]
    /\ UNCHANGED player

Worth(m, guess) == PointsTotal(guess[1], guess[2], board[m].local, board[m].visiting)

Credited(m, p) ==
    IF p = Off THEN Off ELSE [p EXCEPT !.standing = @ + Worth(m, p.guess[m])]

Score(m) ==
    /\ board[m].stage = "closed"
    /\ board' = [board EXCEPT ![m].stage = "scored"]
    /\ player' = [u \in Users |-> Credited(m, player[u])]

Drop(gone) ==
    /\ player' = [u \in Users |-> IF u \in gone THEN Off ELSE player[u]]
    /\ UNCHANGED board

Next ==
    \/ \E m \in Matches, l, v \in Goals : Close(m, l, v)
    \/ \E u \in Users, m \in Matches, l, v \in Goals \cup {NULL} : Guess(u, m, l, v)
    \/ \E m \in Matches : Score(m)
    \/ \E gone \in SUBSET Users : Drop(gone)

Spec == Init /\ [][Next]_<<board, player>>
=============================================================================
