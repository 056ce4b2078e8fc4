---------------------------- MODULE SolveLedger ----------------------------
(* What the platform promises about solves, with every operation atomic.     *)
(* recorded[c] lists the teams whose solve of challenge c was ever stored,   *)
(* in the order of solved_at; standing[c] holds the positions whose row is   *)
(* still in the solves table (a solo reset or a hard delete removes rows,    *)
(* the history keeps them).                                                  *)
EXTENDS Integers, Sequences

CONSTANTS Teams, Challenges

VARIABLES recorded,    \* solves of each challenge, oldest first
          standing,    \* positions of recorded whose row still exists
          blood,       \* <<c, t>>: t was announced as first blood of c
          credited     \* <<c, t>>: a submission of t for c was logged as correct

ledgerVars == <<recorded, standing, blood, credited>>

Positions(c) == 1 .. Len(recorded[c])

LedgerTypeOK ==
  /\ recorded \in [Challenges -> Seq(Teams)]
  /\ standing \in [Challenges -> SUBSET Nat]
  /\ \A c \in Challenges : standing[c] \subseteq Positions(c)
  /\ blood \subseteq Challenges \X Teams
  /\ credited \subseteq Challenges \X Teams

LedgerInit ==
  /\ recorded = [c \in Challenges |-> << >>]
  /\ standing = [c \in Challenges |-> {}]
  /\ blood = {}
  /\ credited = {}

Solved(t, c) == \E i \in standing[c] : recorded[c][i] = t

(* A team's solve is stored once: never while a row of its own stands.       *)
RecordSolve(t, c) ==
  /\ ~Solved(t, c)
  /\ recorded' = [recorded EXCEPT ![c] = Append(@, t)]
  /\ standing' = [standing EXCEPT ![c] = @ \cup {Len(recorded[c]) + 1}]
  /\ UNCHANGED <<blood, credited>>

(* All rows of a team go together.                                           *)
EraseTeam(t) ==
  /\ standing' = [c \in Challenges |-> {i \in standing[c] : recorded[c][i] # t}]
  /\ UNCHANGED <<recorded, blood, credited>>

EraseChallenge(c) ==
  /\ standing' = [standing EXCEPT ![c] = {}]
  /\ UNCHANGED <<recorded, blood, credited>>

(* Only the team of the very first solve is ever announced as first blood.   *)
AnnounceFirstBlood(t, c) ==
  /\ recorded[c] # << >> /\ recorded[c][1] = t
  /\ blood' = blood \cup {<<c, t>>}
  /\ UNCHANGED <<recorded, standing, credited>>

(* A submission counts as correct only for a team that did solve.            *)
Credit(t, c) ==
  /\ \E i \in Positions(c) : recorded[c][i] = t
  /\ credited' = credited \cup {<<c, t>>}
  /\ UNCHANGED <<recorded, standing, blood>>

LedgerNext ==
  \/ \E t \in Teams : EraseTeam(t)
  \/ \E c \in Challenges : EraseChallenge(c)
  \/ \E t \in Teams, c \in Challenges :
       RecordSolve(t, c) \/ AnnounceFirstBlood(t, c) \/ Credit(t, c)

LedgerSpec == LedgerInit /\ [][LedgerNext]_ledgerVars

-----------------------------------------------------------------------------
(* A team never has two rows for one challenge: the repeated submission of a *)
(* solved flag (README.md of the repository) never scores twice.             *)
OneSolvePerTeam ==
  \A c \in Challenges : \A i, j \in standing[c] :
    recorded[c][i] = recorded[c][j] => i = j

(* The first row by solved_at, as the first-blood query of the API reads it. *)
FirstBloodRow(c) == CHOOSE i \in standing[c] : \A j \in standing[c] : i <= j

(* First blood of a challenge is announced for one team only, and while that *)
(* team's row stands the first-blood query names the same team.              *)
FirstBloodAgrees ==
  \A c \in Challenges, t \in Teams : <<c, t>> \in blood =>
    /\ \A u \in Teams : <<c, u>> \in blood => u = t
    /\ 1 \in standing[c] => recorded[c][FirstBloodRow(c)] = t

(* Whatever the submission log counts as correct was really solved.          *)
CreditIsEarned ==
  \A c \in Challenges, t \in Teams :
    <<c, t>> \in credited => \E i \in Positions(c) : recorded[c][i] = t
=============================================================================
