----------------------------- MODULE Directory -----------------------------
(***************************************************************************)
(* What registering promises, without requests, transactions, connections  *)
(* and crashes: an account is entered at once and whole, under an email    *)
(* and a nickname nobody has, and stays as it was entered; whoever asked   *)
(* is told at most once, and neither that he has an account when he has    *)
(* none nor that he was refused when he has, now or later.                 *)
(***************************************************************************)
CONSTANTS Registrations, Emails, Nicknames, Matches

VARIABLES
    account,   \* the account each registration made, or NoAccount
    told,      \* what each registration was answered
    table      \* the matches there are to predict

NoAccount == [none |-> TRUE]

Account(email, nickname, predicted) ==
    [email |-> email, nickname |-> nickname, predicted |-> predicted, whole |-> TRUE]

Listed == {q \in Registrations : account[q] # NoAccount}

Init ==
    /\ account = [q \in Registrations |-> NoAccount]
    /\ told = [q \in Registrations |-> "none"]
    /\ table = {}

\* Nobody is entered after he was told that he was refused.
Enter(q, email, nickname) ==
    /\ account[q] = NoAccount
    /\ told[q] = "none"
    /\ \A r \in Listed : account[r].email # email /\ account[r].nickname # nickname
    /\ \E predicted \in SUBSET table :
           account' = [account EXCEPT ![q] = Account(email, nickname, predicted)]
    /\ UNCHANGED <<told, table>>

\* "failed" is the error of one who has his account nevertheless.
Tell(q, answer) ==
    /\ told[q] = "none"
    /\ answer \in IF account[q] = NoAccount THEN {"refused"} ELSE {"created", "failed"}
    /\ told' = [told EXCEPT ![q] = answer]
    /\ UNCHANGED <<account, table>>

Fill(m) ==
    /\ table' = table \cup {m}
    /\ UNCHANGED <<account, told>>

Next ==
    \/ \E q \in Registrations, e \in Emails, n \in Nicknames : Enter(q, e, n)
    \/ \E q \in Registrations, answer \in {"created", "refused", "failed"} : Tell(q, answer)
    \/ \E m \in Matches : Fill(m)

Spec == Init /\ [][Next]_<<account, told, table>>
=============================================================================
