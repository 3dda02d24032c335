------------------------------ MODULE Fixtures ------------------------------
(***************************************************************************)
(* The tournament seed.service.ts writes: twelve groups of four teams, the *)
(* 104 matches with their kickoffs, the deadline of the podium. A team is  *)
(* its group and its place in the group's list; a knockout match has no    *)
(* teams yet. Instants are minutes since the end of May 2026, in UTC.      *)
(***************************************************************************)
EXTENDS Integers, FiniteSets, Sequences

Groups == {"A", "B", "C", "D", "E", "F", "G", "H", "I", "J", "K", "L"}

Teams == Groups \X (1..4)

\* Day d of June; day 30 + d is day d of July.
At(day, hour, minute) == (24 * day + hour) * 60 + minute

\* Local and visiting team of a group's six matches, as the file lists them; the
\* last two are played at once, in either order.
Pairs(g) ==
    IF g \in {"A", "B", "C"}
    THEN <<<<1, 2>>, <<3, 4>>, <<4, 2>>, <<1, 3>>, <<4, 1>>, <<2, 3>>>>
    ELSE <<<<1, 2>>, <<3, 4>>, <<1, 3>>, <<4, 2>>, <<4, 1>>, <<2, 3>>>>

\* Kickoffs of a group: the first four matches, then the one of the last two.
GroupKickoffs ==
    [A |-> <<At(11,19,0), At(12,2,0), At(18,16,0), At(19,1,0), At(25,1,0)>>,
     B |-> <<At(12,19,0), At(13,19,0), At(18,19,0), At(18,22,0), At(24,19,0)>>,
     C |-> <<At(13,22,0), At(14,1,0), At(19,22,0), At(20,1,0), At(24,22,0)>>,
     D |-> <<At(13,1,0), At(14,4,0), At(19,19,0), At(20,4,0), At(26,2,0)>>,
     E |-> <<At(14,17,0), At(14,23,0), At(20,20,0), At(21,0,0), At(25,20,0)>>,
     F |-> <<At(14,20,0), At(15,2,0), At(20,17,0), At(21,4,0), At(25,23,0)>>,
     G |-> <<At(15,19,0), At(16,1,0), At(21,19,0), At(22,1,0), At(27,3,0)>>,
     H |-> <<At(15,16,0), At(15,22,0), At(21,16,0), At(21,22,0), At(27,0,0)>>,
     I |-> <<At(16,19,0), At(16,22,0), At(22,21,0), At(23,0,0), At(26,19,0)>>,
     J |-> <<At(17,1,0), At(17,4,0), At(22,17,0), At(23,3,0), At(28,2,0)>>,
     K |-> <<At(17,17,0), At(18,2,0), At(23,17,0), At(24,2,0), At(27,23,30)>>,
     L |-> <<At(17,20,0), At(17,23,0), At(23,20,0), At(23,23,0), At(27,21,0)>>]

GroupKickoff(g, n) == GroupKickoffs[g][IF n = 6 THEN 5 ELSE n]

GroupMatch(g, n) ==
    [phase |-> "group", group_code |-> g, match_date |-> GroupKickoff(g, n),
     local_team_id |-> <<g, Pairs(g)[n][1]>>, visiting_team_id |-> <<g, Pairs(g)[n][2]>>]

\* Kickoffs of the knockout matches, phase by phase.
KnockoutKickoffs ==
    [round_of_32 |->
        {At(28,19,0), At(29,20,30), At(29,17,0), At(30,1,0), At(30,21,0), At(30,17,0),
         At(31,1,0), At(31,16,0), At(31,20,0), At(32,0,0), At(32,23,0), At(32,19,0),
         At(33,3,0), At(33,22,0), At(33,18,0), At(34,1,30)},
     round_of_16 |->
        {At(34,21,0), At(34,17,0), At(35,20,0), At(36,0,0), At(36,19,0), At(37,0,0),
         At(37,16,0), At(37,20,0)},
     quarter |-> {At(39,20,0), At(40,19,0), At(41,21,0), At(42,1,0)},
     semi |-> {At(44,19,0), At(45,19,0)},
     third_place |-> {At(48,21,0)},
     final |-> {At(49,19,0)}]

Seeded ==
    {GroupMatch(g, n) : g \in Groups, n \in 1..6}
    \cup UNION {{[phase |-> p, group_code |-> "none", match_date |-> t,
                  local_team_id |-> <<>>, visiting_team_id |-> <<>>] : t \in KnockoutKickoffs[p]} :
                p \in DOMAIN KnockoutKickoffs}

\* MUTANT of PodiumDeadline: a day late.
PodiumDeadlineLate == At(45,0,0)

\* app_config: podium_deadline
PodiumDeadline == At(44,0,0)
=============================================================================
