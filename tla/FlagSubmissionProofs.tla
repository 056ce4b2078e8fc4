------------------------ MODULE FlagSubmissionProofs ------------------------
(* For every number of users, teams and challenges: concurrent submissions,  *)
(* edits and deletions implement the atomic ledger, and solve_count and the  *)
(* price of a challenge follow its solves.                                   *)
EXTENDS FlagSubmission, TLAPS

-----------------------------------------------------------------------------
(* The atomic ledger keeps one solve per team and challenge, announces first *)
(* blood once, and credits earned solves only: by induction over its steps.  *)

(* What blood means step by step; FirstBloodAgrees follows from it.          *)
BloodIsFirst ==
  \A c \in Challenges, t \in Teams :
    <<c, t>> \in blood => recorded[c] # << >> /\ recorded[c][1] = t

LedgerInv == LedgerTypeOK /\ OneSolvePerTeam /\ BloodIsFirst /\ CreditIsEarned

LEMMA AppendedHistory ==
  ASSUME NEW s \in Seq(Teams), NEW t \in Teams
  PROVE  /\ Append(s, t) \in Seq(Teams) /\ Append(s, t) # << >>
         /\ Len(Append(s, t)) = Len(s) + 1
         /\ \A i \in 1 .. Len(s) : Append(s, t)[i] = s[i]
         /\ Append(s, t)[Len(s) + 1] = t
  OBVIOUS

LEMMA LedgerInitInv == LedgerInit => LedgerInv
  BY DEF LedgerInit, LedgerInv, LedgerTypeOK, OneSolvePerTeam, BloodIsFirst,
         CreditIsEarned, Positions

LEMMA RecordSolveInv ==
  ASSUME LedgerInv, NEW t \in Teams, NEW c \in Challenges, RecordSolve(t, c)
  PROVE  LedgerInv'
<1> USE DEF LedgerInv
<1> DEFINE n == Len(recorded[c]) + 1
<1>1. recorded[c] \in Seq(Teams) /\ Len(recorded[c]) \in Nat
  BY DEF LedgerTypeOK
<1>2. /\ recorded' = [recorded EXCEPT ![c] = Append(recorded[c], t)]
      /\ standing' = [standing EXCEPT ![c] = standing[c] \cup {n}]
      /\ blood' = blood /\ credited' = credited /\ ~Solved(t, c)
  BY DEF RecordSolve
<1>3. /\ recorded'[c] = Append(recorded[c], t)
      /\ standing'[c] = standing[c] \cup {n}
      /\ \A d \in Challenges \ {c} : recorded'[d] = recorded[d] /\ standing'[d] = standing[d]
  BY <1>2 DEF LedgerTypeOK
<1>4. /\ recorded'[c] \in Seq(Teams) /\ recorded'[c] # << >>
      /\ Len(recorded'[c]) = n
      /\ \A i \in 1 .. Len(recorded[c]) : recorded'[c][i] = recorded[c][i]
      /\ recorded'[c][n] = t
  BY <1>1, <1>3, AppendedHistory
<1>5. standing[c] \subseteq 1 .. Len(recorded[c])
  BY DEF LedgerTypeOK, Positions
<1>6. LedgerTypeOK'
  <2>1. recorded' \in [Challenges -> Seq(Teams)]
    BY <1>2, <1>4, <1>3 DEF LedgerTypeOK
  <2>2. standing' \in [Challenges -> SUBSET Nat]
    BY <1>1, <1>2 DEF LedgerTypeOK
  <2>3. ASSUME NEW d \in Challenges PROVE standing'[d] \subseteq 1 .. Len(recorded'[d])
    <3>1. CASE d = c
      BY <3>1, <1>1, <1>3, <1>4, <1>5
    <3>2. CASE d # c
      BY <3>2, <1>3 DEF LedgerTypeOK, Positions
    <3> QED BY <3>1, <3>2
  <2> QED BY <2>1, <2>2, <2>3, <1>2 DEF LedgerTypeOK, Positions
<1>7. OneSolvePerTeam'
  <2> SUFFICES ASSUME NEW d \in Challenges, NEW i \in standing'[d], NEW j \in standing'[d],
                      recorded'[d][i] = recorded'[d][j]
               PROVE  i = j
    BY DEF OneSolvePerTeam
  <2>1. CASE d # c
    BY <2>1, <1>3 DEF OneSolvePerTeam
  <2>2. CASE d = c
    <3>1. \A k \in standing[c] : k # n /\ recorded'[c][k] = recorded[c][k] /\ recorded[c][k] # t
      BY <1>1, <1>2, <1>4, <1>5 DEF Solved
    <3>2. (i \in standing[c] \/ i = n) /\ (j \in standing[c] \/ j = n)
      BY <2>2, <1>3
    <3>3. CASE i \in standing[c] /\ j \in standing[c]
      BY <3>1, <3>3, <2>2 DEF OneSolvePerTeam
    <3>4. CASE i = n \/ j = n
      BY <3>1, <3>2, <3>4, <1>4, <2>2
    <3> QED BY <3>2, <3>3, <3>4
  <2> QED BY <2>1, <2>2
<1>8. BloodIsFirst'
  <2> SUFFICES ASSUME NEW d \in Challenges, NEW u \in Teams, <<d, u>> \in blood
               PROVE  recorded'[d] # << >> /\ recorded'[d][1] = u
    BY <1>2 DEF BloodIsFirst
  <2>1. recorded[d] # << >> /\ recorded[d][1] = u
    BY DEF BloodIsFirst
  <2>2. CASE d = c
    <3>1. 1 \in 1 .. Len(recorded[c])
      BY <2>1, <2>2, <1>1
    <3> QED BY <3>1, <2>1, <2>2, <1>4
  <2>3. CASE d # c
    BY <2>1, <2>3, <1>3
  <2> QED BY <2>2, <2>3
<1>9. CreditIsEarned'
  <2> SUFFICES ASSUME NEW d \in Challenges, NEW u \in Teams, <<d, u>> \in credited
               PROVE  \E i \in 1 .. Len(recorded'[d]) : recorded'[d][i] = u
    BY <1>2 DEF CreditIsEarned, Positions
  <2>1. PICK i \in 1 .. Len(recorded[d]) : recorded[d][i] = u
    BY DEF CreditIsEarned, Positions
  <2>2. CASE d = c
    <3>1. i \in 1 .. Len(recorded'[d]) /\ recorded'[d][i] = u
      BY <2>1, <2>2, <1>1, <1>4
    <3> QED BY <3>1
  <2>3. CASE d # c
    BY <2>1, <2>3, <1>3
  <2> QED BY <2>2, <2>3
<1> QED BY <1>6, <1>7, <1>8, <1>9

(* Taking rows away disturbs nothing, whichever rows they are.               *)
LEMMA ErasureInv ==
  ASSUME LedgerInv, UNCHANGED <<recorded, blood, credited>>,
         standing' \in [Challenges -> SUBSET Nat],
         \A c \in Challenges : standing'[c] \subseteq standing[c]
  PROVE  LedgerInv'
<1>1. LedgerTypeOK'
  BY DEF LedgerInv, LedgerTypeOK, Positions
<1>2. OneSolvePerTeam'
  BY DEF LedgerInv, OneSolvePerTeam
<1>3. BloodIsFirst' /\ CreditIsEarned'
  BY DEF LedgerInv, BloodIsFirst, CreditIsEarned, Positions
<1> QED BY <1>1, <1>2, <1>3 DEF LedgerInv

LEMMA LedgerStep == LedgerInv /\ [LedgerNext]_ledgerVars => LedgerInv'
<1> SUFFICES ASSUME LedgerInv, [LedgerNext]_ledgerVars PROVE LedgerInv'
  OBVIOUS
<1>1. ASSUME NEW t \in Teams, NEW c \in Challenges, RecordSolve(t, c) PROVE LedgerInv'
  BY <1>1, RecordSolveInv
<1>2. ASSUME NEW t \in Teams, EraseTeam(t) PROVE LedgerInv'
  <2>1. standing \in [Challenges -> SUBSET Nat]
    BY DEF LedgerInv, LedgerTypeOK
  <2>2. /\ standing' \in [Challenges -> SUBSET Nat]
        /\ \A c \in Challenges : standing'[c] \subseteq standing[c]
    BY <1>2, <2>1 DEF EraseTeam
  <2> QED BY <1>2, <2>2, ErasureInv DEF EraseTeam
<1>3. ASSUME NEW c \in Challenges, EraseChallenge(c) PROVE LedgerInv'
  <2>1. standing \in [Challenges -> SUBSET Nat]
    BY DEF LedgerInv, LedgerTypeOK
  <2>2. /\ standing' \in [Challenges -> SUBSET Nat]
        /\ \A d \in Challenges : standing'[d] \subseteq standing[d]
    BY <1>3, <2>1 DEF EraseChallenge
  <2> QED BY <1>3, <2>2, ErasureInv DEF EraseChallenge
<1>4. ASSUME NEW t \in Teams, NEW c \in Challenges, AnnounceFirstBlood(t, c) PROVE LedgerInv'
  BY <1>4 DEF LedgerInv, LedgerTypeOK, OneSolvePerTeam, BloodIsFirst, CreditIsEarned,
              Positions, AnnounceFirstBlood
<1>5. ASSUME NEW t \in Teams, NEW c \in Challenges, Credit(t, c) PROVE LedgerInv'
  BY <1>5 DEF LedgerInv, LedgerTypeOK, OneSolvePerTeam, BloodIsFirst, CreditIsEarned,
              Positions, Credit
<1>6. CASE UNCHANGED ledgerVars
  BY <1>6 DEF ledgerVars, LedgerInv, LedgerTypeOK, OneSolvePerTeam, BloodIsFirst,
              CreditIsEarned, Positions
<1> QED BY <1>1, <1>2, <1>3, <1>4, <1>5, <1>6 DEF LedgerNext

LEMMA FirstBloodFollows == LedgerInv => FirstBloodAgrees
<1> SUFFICES ASSUME LedgerInv, NEW c \in Challenges, NEW t \in Teams, <<c, t>> \in blood
             PROVE  /\ \A u \in Teams : <<c, u>> \in blood => u = t
                    /\ 1 \in standing[c] => recorded[c][FirstBloodRow(c)] = t
  BY DEF FirstBloodAgrees
<1>1. recorded[c][1] = t
  BY DEF LedgerInv, BloodIsFirst
<1>2. \A u \in Teams : <<c, u>> \in blood => u = t
  BY <1>1 DEF LedgerInv, BloodIsFirst
<1>3. ASSUME 1 \in standing[c] PROVE FirstBloodRow(c) = 1
  <2>1. \A j \in standing[c] : j \in Nat /\ 1 <= j
    BY DEF LedgerInv, LedgerTypeOK, Positions
  <2>2. \E i \in standing[c] : \A j \in standing[c] : i <= j
    BY <1>3, <2>1
  <2>3. /\ FirstBloodRow(c) \in standing[c]
        /\ \A j \in standing[c] : FirstBloodRow(c) <= j
    BY <2>2 DEF FirstBloodRow
  <2> QED BY <1>3, <2>1, <2>3
<1> QED BY <1>1, <1>2, <1>3

(* The atomic ledger keeps its invariant, for all teams and challenges: no    *)
(* team has two rows for a challenge, and announcements and log are earned.  *)
THEOREM LedgerSafe == LedgerSpec => []LedgerInv
<1> QED BY LedgerInitInv, LedgerStep, PTL DEF LedgerSpec

(* In the atomic ledger first blood is one team's, and the query agrees.      *)
THEOREM LedgerFirstBlood == LedgerSpec => []FirstBloodAgrees
<1> QED BY LedgerSafe, FirstBloodFollows, PTL

-----------------------------------------------------------------------------
(* The submissions.                                                          *)

(* A submission about to record owns the row it priced from, and that row    *)
(* is live.                                                                  *)
RowHeld(u) ==
  LET c == sub[u].challenge IN
  pc[u] = "record" =>
    lock[c] = u /\ held[u] = chal[c] /\ chal[c].state = "live"

(* A challenge that does not exist yet has no solves, and an edit under way  *)
(* works on the copy of one that does.                                       *)
NoSolvesBefore(c) == chal[c].state = "none" => chal[c].count = 0
EditIsLive(a) == edit[a].on => edit[a].row.state = "live"

(* The answers a submission carries to its last steps are earned.            *)
RightEarned(u) ==
  LET c == sub[u].challenge IN
  right[u] => pc[u] # "idle" /\ \E i \in Positions(c) : recorded[c][i] = sub[u].team
FirstEarned(u) ==
  LET c == sub[u].challenge IN
  first[u] => /\ pc[u] # "idle"
              /\ recorded[c] # << >> /\ recorded[c][1] = sub[u].team

AllRowsHeld == \A u \in Users : RowHeld(u)
RowsStartEmpty == \A c \in Challenges : NoSolvesBefore(c)
EditsAreLive == \A a \in Admins : EditIsLive(a)
AnswersEarned == \A u \in Users : RightEarned(u) /\ FirstEarned(u)

SubmissionInv ==
  /\ TypeOK /\ LedgerInv
  /\ AllRowsHeld /\ RowsStartEmpty /\ EditsAreLive /\ AnswersEarned
  /\ SolveCountExact /\ PointsFollowCount

-----------------------------------------------------------------------------
LEMMA ScoreIsInt ==
  ASSUME NEW initial \in Int, NEW minScore \in Int, NEW decay \in Int, NEW n \in Int,
         decay >= 0
  PROVE  CalculateDynamicScore(initial, minScore, decay, n) \in Int
<1> DEFINE d == IF decay = 0 THEN 1 ELSE decay
           drop == (initial - minScore) * (n - 1) * (n - 1)
           unit == d * d
           ceil == initial - drop \div unit
<1>1. d \in Int /\ d > 0
  OBVIOUS
<1>2. unit \in Int /\ unit > 0
  <2> HIDE DEF d
  <2>1. \A x \in Int : x > 0 => x * x \in Int /\ x * x > 0
    OBVIOUS
  <2> QED BY <1>1, <2>1
<1>3. drop \in Int
  OBVIOUS
<1>4. ceil \in Int
  <2> HIDE DEF unit, drop
  <2> QED BY <1>2, <1>3
<1>5. CalculateDynamicScore(initial, minScore, decay, n)
        = IF n <= 0 THEN initial ELSE IF n > d THEN minScore
          ELSE IF ceil < minScore THEN minScore ELSE ceil
  BY DEF CalculateDynamicScore, AtLeast, CeilAfter
<1> HIDE DEF ceil, d
<1> QED BY <1>4, <1>5

LEMMA CurvePointsInt ==
  ASSUME NEW row \in Row, Dynamic(row), NEW n \in Int
  PROVE  CurvePoints(row, n) \in Int
<1>1. /\ row.curve.initial \in Int /\ row.curve.minScore \in Int
      /\ row.curve.decay \in Int /\ row.curve.decay >= 0
  BY DEF Row, Dynamic
<1> QED BY <1>1, ScoreIsInt DEF CurvePoints

LEMMA Blanks == NoRow \in Row /\ NoSubmission \in Submission /\ NoEdit \in Edit
<1>1. NoRow \in Row
  BY FlagsAssumption DEF NoRow, Row
<1>2. NoSubmission \in Submission
  BY EntitiesAssumption DEF NoSubmission, Submission
<1>3. NoEdit \in Edit
  BY <1>1, EntitiesAssumption DEF NoEdit, Edit
<1> QED BY <1>1, <1>2, <1>3

(* A step of the ledger only ever appends to the history of a challenge.     *)
LEMMA HistoryOnlyGrows ==
  ASSUME LedgerTypeOK, [LedgerNext]_ledgerVars, NEW c \in Challenges
  PROVE  /\ Len(recorded[c]) \in Nat /\ Len(recorded'[c]) \in Nat
         /\ Positions(c) \subseteq Positions(c)'
         /\ \A i \in Positions(c) : recorded'[c][i] = recorded[c][i]
         /\ recorded[c] # << >> => recorded'[c] # << >> /\ recorded'[c][1] = recorded[c][1]
<1>1. recorded[c] \in Seq(Teams)
  BY DEF LedgerTypeOK
<1>2. CASE recorded' = recorded
  BY <1>1, <1>2 DEF Positions
<1>3. ASSUME NEW t \in Teams, NEW d \in Challenges, RecordSolve(t, d)
      PROVE  /\ Len(recorded[c]) \in Nat /\ Len(recorded'[c]) \in Nat
             /\ Positions(c) \subseteq Positions(c)'
             /\ \A i \in Positions(c) : recorded'[c][i] = recorded[c][i]
             /\ recorded[c] # << >> =>
                  recorded'[c] # << >> /\ recorded'[c][1] = recorded[c][1]
  <2>1. recorded'[c] = IF c = d THEN Append(recorded[c], t) ELSE recorded[c]
    BY <1>3 DEF RecordSolve, LedgerTypeOK
  <2>2. recorded[c] # << >> => 1 \in 1 .. Len(recorded[c])
    BY <1>1
  <2>3. CASE c = d
    BY <1>1, <2>1, <2>2, <2>3, AppendedHistory DEF Positions
  <2>4. CASE c # d
    BY <1>1, <2>1, <2>4 DEF Positions
  <2> QED BY <2>3, <2>4
<1>4. recorded' = recorded \/ \E t \in Teams, d \in Challenges : RecordSolve(t, d)
  BY DEF LedgerNext, EraseTeam, EraseChallenge, AnnounceFirstBlood, Credit, ledgerVars
<1> QED BY <1>2, <1>3, <1>4

LEMMA InitInv == Init => SubmissionInv
<1> SUFFICES ASSUME Init PROVE SubmissionInv
  OBVIOUS
<1>1. LedgerInv
  BY LedgerInitInv DEF Init
<1>2. TypeOK
  BY <1>1, Blanks DEF Init, LedgerInv, TypeOK, Steps
<1>3. SolveCountExact /\ RowsStartEmpty /\ PointsFollowCount
  BY DEF Init, LedgerInit, SolveCountExact, RowsStartEmpty, NoSolvesBefore,
         PointsFollowCount, NoRow
<1>4. AllRowsHeld /\ AnswersEarned /\ EditsAreLive
  BY DEF Init, AllRowsHeld, RowHeld, AnswersEarned, RightEarned, FirstEarned,
         EditsAreLive, EditIsLive, NoEdit
<1> QED BY <1>1, <1>2, <1>3, <1>4 DEF SubmissionInv

-----------------------------------------------------------------------------
(* Each step is one step of the ledger or leaves it alone.                   *)
LEMMA StepRefines ==
  ASSUME SubmissionInv, [Next]_vars
  PROVE  [LedgerNext]_ledgerVars
<1> USE DEF SubmissionInv
<1>0. \A u \in Users : sub[u] \in Submission /\ sub[u].team \in Teams
                       /\ sub[u].challenge \in Challenges
  BY DEF TypeOK, Submission
<1>1. ASSUME NEW u \in Users, Record(u) PROVE LedgerNext
  <2>1. RecordSolve(sub[u].team, sub[u].challenge)
    BY <1>1 DEF Record, Storable, RecordSolve
  <2> QED BY <1>0, <2>1 DEF LedgerNext
<1>2. ASSUME NEW u \in Users, Notify(u) PROVE [LedgerNext]_ledgerVars
  <2>1. CASE first[u]
    <3>1. AnnounceFirstBlood(sub[u].team, sub[u].challenge)
      BY <1>2, <2>1 DEF Notify, AnnounceFirstBlood, AnswersEarned, FirstEarned
    <3> QED BY <1>0, <3>1 DEF LedgerNext
  <2>2. CASE ~first[u]
    BY <1>2, <2>2 DEF Notify, ledgerVars
  <2> QED BY <2>1, <2>2
<1>3. ASSUME NEW u \in Users, LogSubmission(u) PROVE [LedgerNext]_ledgerVars
  <2>1. CASE right[u]
    <3>1. Credit(sub[u].team, sub[u].challenge)
      BY <1>3, <2>1 DEF LogSubmission, Credit, AnswersEarned, RightEarned
    <3> QED BY <1>0, <3>1 DEF LedgerNext
  <2>2. CASE ~right[u]
    BY <1>3, <2>2 DEF LogSubmission, ledgerVars
  <2> QED BY <2>1, <2>2
<1>4. ASSUME NEW u \in Users,
             \/ \E t \in Teams, c \in Challenges, g \in Flags \cup {WrongFlag} :
                  Submit(u, t, c, g)
             \/ CheckFlag(u) \/ CheckExisting(u) \/ LockChallenge(u)
             \/ RefuseDuplicate(u) \/ Fail(u) \/ Abandon(u)
      PROVE  UNCHANGED ledgerVars
  BY <1>4 DEF Submit, CheckFlag, CheckExisting, LockChallenge, RefuseDuplicate, Fail,
              Abandon, ledgerVars
<1>5. ASSUME NEW c \in Challenges, NEW f \in Flags, NEW p \in Prices, NEW k \in Curves,
             CreateChallenge(c, f, p, k) \/ \E a \in Admins : ReadForUpdate(a, c, f, p, k)
      PROVE  UNCHANGED ledgerVars
  BY <1>5 DEF CreateChallenge, ReadForUpdate, ledgerVars
<1>6. ASSUME NEW a \in Admins, WriteUpdate(a) PROVE UNCHANGED ledgerVars
  BY <1>6 DEF WriteUpdate, ledgerVars
<1>7. ASSUME NEW c \in Challenges, DeleteChallenge(c) PROVE LedgerNext
  BY <1>7 DEF DeleteChallenge, LedgerNext
<1>8. ASSUME NEW t \in Teams,
             BanTeam(t) \/ UnbanTeam(t) \/ DisbandTeam(t) \/ ResetSoloTeam(t) \/ HardDeleteTeam(t)
      PROVE  [LedgerNext]_ledgerVars
  BY <1>8 DEF BanTeam, UnbanTeam, DisbandTeam, ResetSoloTeam, HardDeleteTeam, LedgerNext
<1>9. CASE UNCHANGED vars
  BY <1>9 DEF vars, ledgerVars
<1> QED
  BY <1>1, <1>2, <1>3, <1>4, <1>5, <1>6, <1>7, <1>8, <1>9 DEF Next, SubmissionStep

-----------------------------------------------------------------------------
(* The rows of the challenges table that the steps write.                    *)
Gone(row) == [row EXCEPT !.state = "gone"]
Counted(row, n) == [row EXCEPT !.count = n]
Priced(row, p) == [row EXCEPT !.points = p]

LEMMA GoneRow ==
  ASSUME NEW row \in Row
  PROVE  /\ Gone(row) \in Row /\ Gone(row).state = "gone" /\ Gone(row).count = row.count
         /\ Gone(row).points = row.points /\ Gone(row).curve = row.curve
  BY DEF Gone, Row

LEMMA CountedRow ==
  ASSUME NEW row \in Row, NEW n \in Nat
  PROVE  /\ Counted(row, n) \in Row /\ Counted(row, n).count = n
         /\ Counted(row, n).state = row.state /\ Counted(row, n).points = row.points
         /\ Counted(row, n).curve = row.curve
  BY DEF Counted, Row

LEMMA PricedRow ==
  ASSUME NEW row \in Row, NEW p \in Int
  PROVE  /\ Priced(row, p) \in Row /\ Priced(row, p).points = p
         /\ Priced(row, p).state = row.state /\ Priced(row, p).count = row.count
         /\ Priced(row, p).curve = row.curve
  BY DEF Priced, Row

LEMMA EditedRow ==
  ASSUME NEW row \in Row, NEW f \in Flags, NEW p \in Prices, NEW k \in Curves
  PROVE  /\ [row EXCEPT !.flag = f, !.points = p, !.curve = k] \in Row
         /\ [row EXCEPT !.flag = f, !.points = p, !.curve = k].state = row.state
  BY PricesAssumption DEF Row

LEMMA RecordWrites ==
  ASSUME SubmissionInv, NEW u \in Users, Record(u), NEW c \in Challenges,
         c = sub[u].challenge
  PROVE  /\ chal' \in [Challenges -> Row]
         /\ \A d \in Challenges \ {c} : chal'[d] = chal[d]
         /\ chal'[c].count = chal[c].count + 1
         /\ chal'[c].state = chal[c].state
         /\ chal'[c].curve = chal[c].curve
         /\ chal'[c].points = PriceAfter(chal[c], chal[c].points, chal[c].count + 1)
<1> DEFINE n == chal[c].count + 1
           p == PriceAfter(chal[c], chal[c].points, n)
           counted == Counted(chal[c], n)
           written == Priced(counted, p)
<1>1. chal \in [Challenges -> Row] /\ chal[c] \in Row /\ n \in Nat /\ chal[c].points \in Int
  BY DEF SubmissionInv, TypeOK, Row
<1>2. held[u] = chal[c]
  BY DEF SubmissionInv, AllRowsHeld, RowHeld, Record
<1>3. p \in Int
  BY <1>1, CurvePointsInt DEF PriceAfter
<1>4. chal' = [chal EXCEPT ![c] = written]
  BY <1>1, <1>2 DEF Record, SolveNumber, Counted, Priced
<1> HIDE DEF n, p
<1>5. counted \in Row /\ counted.points = chal[c].points /\ counted.count = n
      /\ counted.state = chal[c].state /\ counted.curve = chal[c].curve
  BY <1>1, CountedRow
<1> HIDE DEF counted
<1>6. written \in Row /\ written.points = p /\ written.state = chal[c].state
      /\ written.count = n /\ written.curve = chal[c].curve
  BY <1>3, <1>5, PricedRow
<1> HIDE DEF written
<1> QED BY <1>1, <1>4, <1>6 DEF n, p

-----------------------------------------------------------------------------
(* Types.                                                                    *)
ReqType ==
  /\ pc \in [Users -> Steps]
  /\ sub \in [Users -> Submission]
  /\ held \in [Users -> Row]
  /\ right \in [Users -> BOOLEAN]
  /\ first \in [Users -> BOOLEAN]

LEMMA EndRequestType ==
  ASSUME ReqType, NEW u \in Users, EndRequest(u)
  PROVE  ReqType'
  BY Blanks DEF ReqType, EndRequest, Goto, Answer, Steps

LEMMA UnlockType ==
  ASSUME TypeOK, NEW u \in Users, Unlock(u)
  PROVE  lock' \in [Challenges -> Users \cup {NoUser}]
  BY DEF TypeOK, Unlock

LEMMA SubmissionTypes ==
  ASSUME SubmissionInv, NEW u \in Users, LedgerTypeOK',
         SubmissionStep(u) \/ Fail(u) \/ Abandon(u)
  PROVE  TypeOK'
<1> USE DEF Steps, Goto, Answer
<1>1. TypeOK /\ ReqType /\ sub[u] \in Submission /\ sub[u].challenge \in Challenges
  BY DEF SubmissionInv, TypeOK, ReqType, Submission
<1>2. CASE CheckFlag(u)
  <2>1. ReqType'
    <3>1. CASE EndRequest(u)
      BY <1>1, <3>1, EndRequestType
    <3>2. CASE Goto(u, "check") /\ UNCHANGED <<sub, held, right, first>>
      BY <1>1, <3>2 DEF ReqType
    <3> QED BY <1>2, <3>1, <3>2 DEF CheckFlag
  <2> QED BY <1>1, <1>2, <2>1 DEF CheckFlag, TypeOK, ReqType
<1>3. CASE CheckExisting(u)
  <2>1. AlreadySolved(sub[u].team, sub[u].challenge) \in BOOLEAN
    BY DEF AlreadySolved, Solved
  <2> QED BY <1>1, <1>3, <2>1 DEF CheckExisting, TypeOK
<1>4. CASE LockChallenge(u)
  <2>1. CASE chal[sub[u].challenge].state = "live"
    BY <1>1, <1>4, <2>1 DEF LockChallenge, TypeOK
  <2>2. CASE chal[sub[u].challenge].state # "live"
    <3>1. ReqType'
      BY <1>1, <1>4, <2>2, EndRequestType DEF LockChallenge
    <3> QED BY <1>1, <1>4, <2>2, <3>1 DEF LockChallenge, TypeOK, ReqType
  <2> QED BY <2>1, <2>2
<1>5. CASE Record(u)
  <2>1. chal' \in [Challenges -> Row]
    BY <1>1, <1>5, RecordWrites
  <2>2. lock' \in [Challenges -> Users \cup {NoUser}]
    BY <1>1, <1>5, UnlockType DEF Record
  <2>3. edited' \in [Challenges -> BOOLEAN]
    <3>1. edited' = [edited EXCEPT ![sub[u].challenge] =
                       edited[sub[u].challenge] /\ ~Dynamic(held[u])]
      BY <1>5 DEF Record
    <3>2. (edited[sub[u].challenge] /\ ~Dynamic(held[u])) \in BOOLEAN
      OBVIOUS
    <3> QED BY <1>1, <3>1, <3>2 DEF TypeOK
  <2>4. first' \in [Users -> BOOLEAN]
    BY <1>1, <1>5 DEF Record, ReqType
  <2>5. pc' \in [Users -> Steps] /\ right' \in [Users -> BOOLEAN]
    BY <1>1, <1>5 DEF Record, ReqType
  <2>6. held' \in [Users -> Row]
    BY <1>1, <1>5, Blanks DEF Record, ReqType
  <2> QED BY <1>1, <1>5, <2>1, <2>2, <2>3, <2>4, <2>5, <2>6 DEF Record, TypeOK
<1>6. CASE RefuseDuplicate(u)
  <2>1. lock' \in [Challenges -> Users \cup {NoUser}]
    BY <1>1, <1>6, UnlockType DEF RefuseDuplicate
  <2> QED BY <1>1, <1>6, <2>1, Blanks DEF RefuseDuplicate, TypeOK
<1>7. CASE Notify(u)
  BY <1>1, <1>7 DEF Notify, TypeOK
<1>8. CASE LogSubmission(u) \/ Abandon(u)
  <2>1. ReqType'
    BY <1>1, <1>8, EndRequestType DEF LogSubmission, Abandon
  <2> QED BY <1>1, <1>8, <2>1 DEF LogSubmission, Abandon, TypeOK, ReqType
<1>9. CASE Fail(u)
  <2>1. ReqType'
    BY <1>1, <1>9, EndRequestType DEF Fail
  <2>2. lock' \in [Challenges -> Users \cup {NoUser}]
    BY <1>1, <1>9, UnlockType DEF Fail
  <2> QED BY <1>1, <1>9, <2>1, <2>2 DEF Fail, TypeOK, ReqType
<1> QED
  BY <1>2, <1>3, <1>4, <1>5, <1>6, <1>7, <1>8, <1>9 DEF SubmissionStep

(* What WriteUpdate leaves in the table.                                     *)
LEMMA UpdateWrites ==
  ASSUME SubmissionInv, NEW a \in Admins, WriteUpdate(a), NEW c \in Challenges,
         c = edit[a].challenge, chal[c].state = "live"
  PROVE  /\ chal' \in [Challenges -> Row]
         /\ \A d \in Challenges \ {c} : chal'[d] = chal[d]
         /\ chal'[c].state = "live" /\ chal'[c].count = chal[c].count
<1>1. /\ edit[a] \in Edit /\ edit[a].row \in Row /\ chal \in [Challenges -> Row]
      /\ chal[c] \in Row /\ chal[c].count \in Nat /\ edit[a].row.state = "live"
  BY DEF SubmissionInv, TypeOK, Edit, Row, WriteUpdate, EditsAreLive, EditIsLive
<1> DEFINE written == Counted(edit[a].row, chal[c].count)
<1>2. written \in Row /\ written.state = "live" /\ written.count = chal[c].count
  BY <1>1, CountedRow
<1>3. chal' = [chal EXCEPT ![c] = written]
  BY DEF WriteUpdate, Overwrite, Counted
<1> HIDE DEF written
<1> QED BY <1>1, <1>2, <1>3

LEMMA AdminTypes ==
  ASSUME SubmissionInv, LedgerTypeOK',
         \/ \E c \in Challenges, f \in Flags, p \in Prices, k \in Curves :
              CreateChallenge(c, f, p, k) \/ \E a \in Admins : ReadForUpdate(a, c, f, p, k)
         \/ \E a \in Admins : WriteUpdate(a)
         \/ \E c \in Challenges : DeleteChallenge(c)
         \/ \E t \in Teams : \/ BanTeam(t) \/ UnbanTeam(t) \/ DisbandTeam(t)
                             \/ ResetSoloTeam(t) \/ HardDeleteTeam(t)
  PROVE  TypeOK'
<1> USE DEF reqVars
<1>1. TypeOK
  BY DEF SubmissionInv
<1>2. ASSUME NEW c \in Challenges, NEW f \in Flags, NEW p \in Prices, NEW k \in Curves,
             CreateChallenge(c, f, p, k)
      PROVE  TypeOK'
  <2>1. [state |-> "live", flag |-> f, points |-> p, curve |-> k, count |-> 0] \in Row
    BY PricesAssumption DEF Row
  <2> QED BY <1>1, <1>2, <2>1 DEF CreateChallenge, TypeOK
<1>3. ASSUME NEW c \in Challenges, NEW f \in Flags, NEW p \in Prices, NEW k \in Curves,
             NEW a \in Admins, ReadForUpdate(a, c, f, p, k)
      PROVE  TypeOK'
  <2> DEFINE copy == [chal[c] EXCEPT !.flag = f, !.points = p, !.curve = k]
             new == [on |-> TRUE, challenge |-> c, row |-> copy]
  <2>1. copy \in Row
    BY <1>1, EditedRow DEF TypeOK
  <2>2. new \in Edit
    <3> HIDE DEF copy
    <3> QED BY <2>1 DEF Edit
  <2>3. edit' = [edit EXCEPT ![a] = new]
    BY <1>3 DEF ReadForUpdate
  <2> HIDE DEF new
  <2>4. edit' \in [Admins -> Edit]
    BY <1>1, <2>2, <2>3 DEF TypeOK
  <2> QED BY <1>1, <1>3, <2>4 DEF ReadForUpdate, TypeOK
<1>4. ASSUME NEW a \in Admins, WriteUpdate(a) PROVE TypeOK'
  <2>1. edit' \in [Admins -> Edit] /\ edit[a].challenge \in Challenges
    BY <1>1, <1>4, Blanks DEF WriteUpdate, TypeOK, Edit
  <2>2. CASE chal[edit[a].challenge].state = "live"
    <3>1. chal' \in [Challenges -> Row]
      BY <1>4, <2>1, <2>2, UpdateWrites
    <3> QED BY <1>1, <1>4, <2>1, <2>2, <3>1 DEF WriteUpdate, TypeOK
  <2>3. CASE chal[edit[a].challenge].state # "live"
    BY <1>1, <1>4, <2>1, <2>3 DEF WriteUpdate, TypeOK
  <2> QED BY <2>2, <2>3
<1>5. ASSUME NEW c \in Challenges, DeleteChallenge(c) PROVE TypeOK'
  <2>1. Gone(chal[c]) \in Row
    BY <1>1, GoneRow DEF TypeOK
  <2>2. chal' = [chal EXCEPT ![c] = Gone(chal[c])]
    BY <1>5 DEF DeleteChallenge, Gone
  <2>3. chal' \in [Challenges -> Row]
    BY <1>1, <2>1, <2>2 DEF TypeOK
  <2> QED BY <1>1, <1>5, <2>3 DEF DeleteChallenge, TypeOK
<1>6. ASSUME NEW t \in Teams,
             BanTeam(t) \/ UnbanTeam(t) \/ DisbandTeam(t) \/ ResetSoloTeam(t) \/ HardDeleteTeam(t)
      PROVE  TypeOK'
  BY <1>1, <1>6 DEF BanTeam, UnbanTeam, DisbandTeam, ResetSoloTeam, HardDeleteTeam,
                    TeamBecomes, KeepSubmissions, TypeOK
<1> QED BY <1>2, <1>3, <1>4, <1>5, <1>6

LEMMA SubmitTypes ==
  ASSUME SubmissionInv, LedgerTypeOK', NEW u \in Users, NEW t \in Teams,
         NEW c \in Challenges, NEW g \in Flags \cup {WrongFlag}, Submit(u, t, c, g)
  PROVE  TypeOK'
<1>1. [team |-> t, challenge |-> c, guess |-> g] \in Submission
  BY DEF Submission
<1> QED BY <1>1 DEF SubmissionInv, Submit, Goto, Steps, TypeOK

-----------------------------------------------------------------------------
(* The row lock.                                                             *)
UserStep(u) ==
  \/ \E t \in Teams, c \in Challenges, g \in Flags \cup {WrongFlag} : Submit(u, t, c, g)
  \/ SubmissionStep(u) \/ Fail(u) \/ Abandon(u)

AdminStep ==
  \/ \E c \in Challenges, f \in Flags, p \in Prices, k \in Curves :
       CreateChallenge(c, f, p, k) \/ \E a \in Admins : ReadForUpdate(a, c, f, p, k)
  \/ \E a \in Admins : WriteUpdate(a)
  \/ \E c \in Challenges : DeleteChallenge(c)
  \/ \E t \in Teams : \/ BanTeam(t) \/ UnbanTeam(t) \/ DisbandTeam(t)
                      \/ ResetSoloTeam(t) \/ HardDeleteTeam(t)

LEMMA Others ==
  ASSUME SubmissionInv, NEW u \in Users, UserStep(u), NEW v \in Users \ {u}
  PROVE  /\ pc'[v] = pc[v] /\ sub'[v] = sub[v] /\ held'[v] = held[v]
         /\ right'[v] = right[v] /\ first'[v] = first[v]
<1>1. ReqType
  BY DEF SubmissionInv, TypeOK, ReqType
<1>2. CASE EndRequest(u)
  BY <1>1, <1>2 DEF EndRequest, ReqType, Goto, Answer
<1>3. CASE \E t \in Teams, c \in Challenges, g \in Flags \cup {WrongFlag} : Submit(u, t, c, g)
  BY <1>1, <1>3 DEF Submit, ReqType, Goto
<1>4. CASE CheckFlag(u) /\ ~EndRequest(u)
  BY <1>1, <1>4 DEF CheckFlag, ReqType, Goto
<1>5. CASE CheckExisting(u)
  BY <1>1, <1>5 DEF CheckExisting, ReqType, Goto, Answer
<1>6. CASE LockChallenge(u) /\ ~EndRequest(u)
  BY <1>1, <1>6 DEF LockChallenge, ReqType, Goto
<1>7. CASE Record(u)
  BY <1>1, <1>7 DEF Record, ReqType, Goto, Answer
<1>8. CASE RefuseDuplicate(u)
  BY <1>1, <1>8 DEF RefuseDuplicate, ReqType, Goto, Answer
<1>9. CASE Notify(u)
  BY <1>1, <1>9 DEF Notify, ReqType, Goto
<1> QED
  BY <1>2, <1>3, <1>4, <1>5, <1>6, <1>7, <1>8, <1>9
     DEF UserStep, SubmissionStep, Fail, Abandon, LogSubmission

(* What a user's step may do to the table and the locks: only the recording  *)
(* submission writes a row, and nobody touches a row another one has locked. *)
LEMMA LocksRespected ==
  ASSUME SubmissionInv, NEW u \in Users, UserStep(u), NEW c \in Challenges,
         lock[c] # u, lock[c] # NoUser
  PROVE  lock'[c] = lock[c] /\ chal'[c] = chal[c]
<1>1. lock \in [Challenges -> Users \cup {NoUser}] /\ sub[u].challenge \in Challenges
  BY DEF SubmissionInv, TypeOK, Submission
<1>2. CASE Record(u)
  <2>1. c # sub[u].challenge
    BY <1>2 DEF SubmissionInv, AllRowsHeld, RowHeld, Record
  <2>2. chal'[c] = chal[c]
    BY <1>1, <1>2, <2>1, RecordWrites
  <2> QED BY <1>1, <1>2, <2>2 DEF Record, Unlock
<1>3. CASE LockChallenge(u)
  BY <1>1, <1>3 DEF LockChallenge, Lockable
<1>4. CASE RefuseDuplicate(u) \/ Fail(u)
  BY <1>1, <1>4 DEF RefuseDuplicate, Fail, Unlock
<1>5. CASE \/ \E t \in Teams, d \in Challenges, g \in Flags \cup {WrongFlag} : Submit(u, t, d, g)
           \/ CheckFlag(u) \/ CheckExisting(u) \/ Notify(u) \/ LogSubmission(u) \/ Abandon(u)
  BY <1>5 DEF Submit, CheckFlag, CheckExisting, Notify, LogSubmission, Abandon
<1> QED BY <1>2, <1>3, <1>4, <1>5 DEF UserStep, SubmissionStep

(* A user's own step reaches "record" by locking a live row only.            *)
LEMMA OwnRowHeld ==
  ASSUME SubmissionInv, NEW u \in Users, UserStep(u)
  PROVE  RowHeld(u)'
<1> SUFFICES ASSUME pc'[u] = "record"
             PROVE  /\ lock'[sub'[u].challenge] = u
                    /\ held'[u] = chal'[sub'[u].challenge]
                    /\ chal'[sub'[u].challenge].state = "live"
  BY DEF RowHeld
<1>1. ReqType /\ lock \in [Challenges -> Users \cup {NoUser}] /\ sub[u].challenge \in Challenges
  BY DEF SubmissionInv, TypeOK, ReqType, Submission
<1>2. pc' = [pc EXCEPT ![u] = "record"] => LockChallenge(u) /\ ~EndRequest(u)
  <2>1. ASSUME NEW s, pc' = [pc EXCEPT ![u] = s] PROVE s = "record"
    BY <1>1, <2>1 DEF ReqType
  <2>2. ~EndRequest(u)
    BY <2>1 DEF EndRequest, Goto
  <2>3. ~Record(u) /\ ~RefuseDuplicate(u) /\ ~Notify(u)
    BY <2>1 DEF Record, RefuseDuplicate, Notify, Goto
  <2>4. ~CheckExisting(u)
    BY <2>1 DEF CheckExisting, Goto
  <2>5. ~CheckFlag(u)
    BY <2>1, <2>2 DEF CheckFlag, Goto
  <2>6. ASSUME NEW t \in Teams, NEW c \in Challenges, NEW g \in Flags \cup {WrongFlag}
        PROVE  ~Submit(u, t, c, g)
    BY <2>1 DEF Submit, Goto
  <2> QED
    BY <2>2, <2>3, <2>4, <2>5, <2>6 DEF UserStep, SubmissionStep, Fail, Abandon, LogSubmission
<1>3. \E s \in Steps : pc' = [pc EXCEPT ![u] = s]
  BY DEF UserStep, SubmissionStep, Submit, CheckFlag, CheckExisting, LockChallenge,
         Record, RefuseDuplicate, Notify, LogSubmission, Fail, Abandon, EndRequest,
         Goto, Steps
<1>4. LockChallenge(u) /\ ~EndRequest(u)
  BY <1>1, <1>2, <1>3 DEF ReqType
<1> QED BY <1>1, <1>4 DEF LockChallenge, ReqType, Lockable

LEMMA RowsStayHeld ==
  ASSUME SubmissionInv, [Next]_vars
  PROVE  AllRowsHeld'
<1>1. lock \in [Challenges -> Users \cup {NoUser}] /\ chal \in [Challenges -> Row]
  BY DEF SubmissionInv, TypeOK
<1>2. ASSUME NEW v \in Users, pc[v] = "record"
      PROVE  /\ sub[v].challenge \in Challenges /\ lock[sub[v].challenge] = v
             /\ held[v] = chal[sub[v].challenge] /\ chal[sub[v].challenge].state = "live"
             /\ v # NoUser
  BY <1>2, UsersAssumption DEF SubmissionInv, AllRowsHeld, RowHeld, TypeOK, Submission
<1>3. ASSUME NEW u \in Users, UserStep(u), NEW v \in Users PROVE RowHeld(v)'
  <2>1. CASE v = u
    BY <1>3, <2>1, OwnRowHeld
  <2>2. CASE v # u
    <3>1. pc'[v] = pc[v] /\ sub'[v] = sub[v] /\ held'[v] = held[v]
      BY <1>3, <2>2, Others
    <3>2. ASSUME pc[v] = "record"
          PROVE  /\ lock'[sub[v].challenge] = v
                 /\ chal'[sub[v].challenge] = chal[sub[v].challenge]
      BY <1>2, <1>3, <2>2, <3>2, LocksRespected
    <3>3. ASSUME pc'[v] = "record"
          PROVE  /\ lock'[sub'[v].challenge] = v /\ held'[v] = chal'[sub'[v].challenge]
                 /\ chal'[sub'[v].challenge].state = "live"
      <4>1. pc[v] = "record"
        BY <3>1, <3>3
      <4>2. held[v] = chal[sub[v].challenge] /\ chal[sub[v].challenge].state = "live"
        BY <1>2, <4>1
      <4>3. lock'[sub[v].challenge] = v /\ chal'[sub[v].challenge] = chal[sub[v].challenge]
        BY <3>2, <4>1
      <4> QED BY <3>1, <4>2, <4>3
    <3> QED BY <3>3 DEF RowHeld
  <2> QED BY <2>1, <2>2
<1>4. ASSUME AdminStep, NEW v \in Users PROVE RowHeld(v)'
  <2>1. pc' = pc /\ sub' = sub /\ held' = held /\ lock' = lock
    BY <1>4 DEF AdminStep, CreateChallenge, ReadForUpdate, WriteUpdate, DeleteChallenge, BanTeam,
                UnbanTeam, DisbandTeam, ResetSoloTeam, HardDeleteTeam, KeepSubmissions, reqVars
  <2>2. ASSUME NEW c \in Challenges, lock[c] # NoUser, chal[c].state = "live"
        PROVE  chal'[c] = chal[c]
    <3>1. ASSUME NEW d \in Challenges, NEW f \in Flags, NEW p \in Prices, NEW k \in Curves,
                 CreateChallenge(d, f, p, k)
          PROVE  chal'[c] = chal[c]
      BY <1>1, <2>2, <3>1 DEF CreateChallenge
    <3>2. ASSUME NEW a \in Admins, WriteUpdate(a) PROVE chal'[c] = chal[c]
      <4>1. edit[a].challenge # c /\ edit[a].challenge \in Challenges
        BY <2>2, <3>2 DEF WriteUpdate, Lockable, SubmissionInv, TypeOK, Edit
      <4>2. CASE chal[edit[a].challenge].state = "live"
        BY <3>2, <4>1, <4>2, UpdateWrites
      <4>3. CASE chal[edit[a].challenge].state # "live"
        BY <3>2, <4>3 DEF WriteUpdate
      <4> QED BY <4>2, <4>3
    <3>3. ASSUME NEW d \in Challenges, DeleteChallenge(d) PROVE chal'[c] = chal[c]
      <4>1. d # c /\ chal' = [chal EXCEPT ![d] = [chal[d] EXCEPT !.state = "gone"]]
        BY <2>2, <3>3 DEF DeleteChallenge, Lockable
      <4> DEFINE gone == [chal[d] EXCEPT !.state = "gone"]
      <4> HIDE DEF gone
      <4> QED BY <1>1, <4>1 DEF gone
    <3>4. (\/ \E d \in Challenges, f \in Flags, p \in Prices, k \in Curves, a \in Admins :
                ReadForUpdate(a, d, f, p, k)
           \/ \E t \in Teams : \/ BanTeam(t) \/ UnbanTeam(t) \/ DisbandTeam(t)
                               \/ ResetSoloTeam(t) \/ HardDeleteTeam(t))
            => chal' = chal
      BY DEF ReadForUpdate, BanTeam, UnbanTeam, DisbandTeam, ResetSoloTeam, HardDeleteTeam,
             KeepSubmissions
    <3> QED BY <1>4, <3>1, <3>2, <3>3, <3>4 DEF AdminStep
  <2> QED BY <1>2, <2>1, <2>2 DEF RowHeld
<1>5. CASE UNCHANGED vars
  BY <1>5 DEF vars, SubmissionInv, AllRowsHeld, RowHeld
<1> QED BY <1>3, <1>4, <1>5 DEF Next, UserStep, AdminStep, AllRowsHeld

-----------------------------------------------------------------------------
(* Counts, prices, edits and answers.                                        *)

(* Recording apart, a step changes neither the history nor any solve_count   *)
(* but that of a challenge it creates, which is zero.                        *)
LEMMA CountsStay ==
  ASSUME SubmissionInv, [Next]_vars, \A u \in Users : ~Record(u), NEW c \in Challenges
  PROVE  /\ recorded' = recorded
         /\ chal'[c].count = chal[c].count
         /\ chal'[c].state = "none" => chal[c].state = "none"
<1>1. chal \in [Challenges -> Row] /\ chal[c] \in Row
  BY DEF SubmissionInv, TypeOK
<1>2. ASSUME NEW d \in Challenges, NEW f \in Flags, NEW p \in Prices, NEW k \in Curves,
             CreateChallenge(d, f, p, k)
      PROVE  recorded' = recorded /\ chal'[c].count = chal[c].count
             /\ (chal'[c].state = "none" => chal[c].state = "none")
  <2>1. CASE d = c
    <3>1. chal'[c].count = 0 /\ chal'[c].state = "live" /\ chal[c].state = "none"
      BY <1>1, <1>2, <2>1 DEF CreateChallenge
    <3> QED BY <1>2, <3>1 DEF CreateChallenge, ledgerVars, SubmissionInv,
                              RowsStartEmpty, NoSolvesBefore
  <2>2. CASE d # c
    BY <1>1, <1>2, <2>2 DEF CreateChallenge, ledgerVars
  <2> QED BY <2>1, <2>2
<1>3. ASSUME NEW a \in Admins, WriteUpdate(a)
      PROVE  recorded' = recorded /\ chal'[c].count = chal[c].count
             /\ (chal'[c].state = "none" => chal[c].state = "none")
  <2>1. edit[a].challenge \in Challenges
    BY DEF SubmissionInv, TypeOK, Edit
  <2>2. CASE chal[edit[a].challenge].state = "live"
    BY <1>3, <2>1, <2>2, UpdateWrites DEF WriteUpdate, ledgerVars
  <2>3. CASE chal[edit[a].challenge].state # "live"
    BY <1>3, <2>3 DEF WriteUpdate, ledgerVars
  <2> QED BY <2>2, <2>3
<1>4. ASSUME NEW d \in Challenges, DeleteChallenge(d)
      PROVE  recorded' = recorded /\ chal'[c].count = chal[c].count
             /\ (chal'[c].state = "none" => chal[c].state = "none")
  <2> DEFINE gone == Gone(chal[d])
  <2>1. gone.count = chal[d].count /\ gone.state = "gone"
    BY <1>1, GoneRow DEF SubmissionInv, TypeOK
  <2>2. chal' = [chal EXCEPT ![d] = gone] /\ recorded' = recorded
    BY <1>4 DEF DeleteChallenge, EraseChallenge, Gone
  <2> HIDE DEF gone
  <2> QED BY <1>1, <2>1, <2>2
<1>5. ASSUME UNCHANGED <<recorded, chal>>
      PROVE  recorded' = recorded /\ chal'[c].count = chal[c].count
             /\ (chal'[c].state = "none" => chal[c].state = "none")
  BY <1>5
<1>6. \/ \E d \in Challenges, f \in Flags, p \in Prices, k \in Curves :
           CreateChallenge(d, f, p, k)
      \/ \E a \in Admins : WriteUpdate(a)
      \/ \E d \in Challenges : DeleteChallenge(d)
      \/ UNCHANGED <<recorded, chal>>
  BY DEF Next, SubmissionStep, Submit, CheckFlag, CheckExisting, LockChallenge,
         RefuseDuplicate, Notify, LogSubmission, Fail, Abandon, ReadForUpdate, BanTeam,
         UnbanTeam, DisbandTeam, ResetSoloTeam, HardDeleteTeam, EraseTeam,
         KeepSubmissions, ledgerVars, vars
<1> QED BY <1>2, <1>3, <1>4, <1>5, <1>6

LEMMA RecordCounts ==
  ASSUME SubmissionInv, NEW u \in Users, Record(u), NEW c \in Challenges
  PROVE  /\ chal'[c].count = Len(recorded'[c])
         /\ chal'[c].state = "none" => chal'[c].count = 0
<1>1. /\ sub[u].challenge \in Challenges /\ sub[u].team \in Teams
      /\ recorded \in [Challenges -> Seq(Teams)] /\ chal[c].count = Len(recorded[c])
      /\ chal[c].state = "none" => chal[c].count = 0
  BY DEF SubmissionInv, TypeOK, LedgerTypeOK, Submission, SolveCountExact,
         RowsStartEmpty, NoSolvesBefore
<1>2. recorded' = [recorded EXCEPT ![sub[u].challenge] = Append(@, sub[u].team)]
  BY DEF Record
<1>3. CASE c = sub[u].challenge
  <2>1. chal[c].state = "live"
    BY <1>3 DEF SubmissionInv, AllRowsHeld, RowHeld, Record
  <2>2. chal'[c].count = chal[c].count + 1 /\ chal'[c].state = chal[c].state
    BY <1>3, RecordWrites
  <2>3. recorded'[c] = Append(recorded[c], sub[u].team)
    BY <1>1, <1>2, <1>3
  <2>4. Len(recorded'[c]) = Len(recorded[c]) + 1
    BY <1>1, <2>3, AppendedHistory
  <2> QED BY <1>1, <2>1, <2>2, <2>4
<1>4. CASE c # sub[u].challenge
  <2>1. chal'[c] = chal[c]
    BY <1>1, <1>4, RecordWrites
  <2>2. recorded'[c] = recorded[c]
    BY <1>1, <1>2, <1>4
  <2> QED BY <1>1, <2>1, <2>2
<1> QED BY <1>3, <1>4

LEMMA CountsStayExact ==
  ASSUME SubmissionInv, [Next]_vars
  PROVE  SolveCountExact' /\ RowsStartEmpty'
<1>1. CASE \E u \in Users : Record(u)
  <2>1. PICK u \in Users : Record(u)
    BY <1>1
  <2> QED BY <2>1, RecordCounts DEF SolveCountExact, RowsStartEmpty, NoSolvesBefore
<1>2. CASE \A u \in Users : ~Record(u)
  <2>1. ASSUME NEW c \in Challenges
        PROVE  chal'[c].count = Len(recorded'[c])
               /\ (chal'[c].state = "none" => chal'[c].count = 0)
    BY <1>2, CountsStay DEF SubmissionInv, SolveCountExact, RowsStartEmpty, NoSolvesBefore
  <2> QED BY <2>1 DEF SolveCountExact, RowsStartEmpty, NoSolvesBefore
<1> QED BY <1>1, <1>2

PriceFollows(c) ==
  Dynamic(chal[c]) /\ chal[c].count > 0 /\ ~edited[c] =>
    chal[c].points = CurvePoints(chal[c], chal[c].count)

LEMMA PriceStays ==
  ASSUME NEW c \in Challenges, PriceFollows(c), chal'[c].curve = chal[c].curve,
         chal'[c].count = chal[c].count, chal'[c].points = chal[c].points,
         edited'[c] = edited[c]
  PROVE  PriceFollows(c)'
  BY DEF PriceFollows, Dynamic, CurvePoints

LEMMA RecordPrices ==
  ASSUME SubmissionInv, NEW u \in Users, Record(u), NEW c \in Challenges
  PROVE  PriceFollows(c)'
<1>1. /\ sub[u].challenge \in Challenges /\ edited \in [Challenges -> BOOLEAN]
      /\ PriceFollows(c)
  BY DEF SubmissionInv, TypeOK, Submission, PointsFollowCount, PriceFollows
<1>2. edited' = [edited EXCEPT ![sub[u].challenge] = @ /\ ~Dynamic(held[u])]
  BY DEF Record
<1>3. CASE c # sub[u].challenge
  <2>1. chal'[c] = chal[c] /\ edited'[c] = edited[c]
    BY <1>1, <1>2, <1>3, RecordWrites
  <2> QED BY <1>1, <2>1, PriceStays
<1>4. CASE c = sub[u].challenge
  <2> DEFINE n == chal[c].count + 1
  <2>1. held[u] = chal[c]
    BY <1>4 DEF SubmissionInv, AllRowsHeld, RowHeld, Record
  <2>2. /\ chal'[c].count = n /\ chal'[c].curve = chal[c].curve
        /\ chal'[c].points = PriceAfter(chal[c], chal[c].points, n)
    BY <1>4, RecordWrites
  <2>3. ASSUME chal'[c].curve.initial > 0, chal'[c].curve.decay > 0
        PROVE  chal'[c].points = CalculateDynamicScore(chal'[c].curve.initial,
                 chal'[c].curve.minScore, chal'[c].curve.decay, chal'[c].count)
    BY <2>2, <2>3 DEF PriceAfter, Dynamic, CurvePoints
  <2> QED BY <2>3 DEF PriceFollows, Dynamic, CurvePoints
<1> QED BY <1>3, <1>4

LEMMA PricesStayRight ==
  ASSUME SubmissionInv, [Next]_vars
  PROVE  PointsFollowCount'
<1>1. /\ chal \in [Challenges -> Row] /\ edited \in [Challenges -> BOOLEAN]
      /\ \A c \in Challenges : PriceFollows(c)
  BY DEF SubmissionInv, TypeOK, PointsFollowCount, PriceFollows
<1>2. ASSUME NEW u \in Users, Record(u), NEW c \in Challenges PROVE PriceFollows(c)'
  BY <1>2, RecordPrices
<1>3. ASSUME NEW d \in Challenges, NEW f \in Flags, NEW p \in Prices, NEW k \in Curves,
             CreateChallenge(d, f, p, k), NEW c \in Challenges
      PROVE  PriceFollows(c)'
  <2>1. CASE c = d
    <3>1. chal'[c].count = 0
      BY <1>1, <1>3, <2>1 DEF CreateChallenge
    <3> QED BY <3>1 DEF PriceFollows
  <2>2. CASE c # d
    <3>1. chal'[c] = chal[c] /\ edited' = edited
      BY <1>1, <1>3, <2>2 DEF CreateChallenge
    <3> QED BY <1>1, <3>1, PriceStays
  <2> QED BY <2>1, <2>2
<1>4. ASSUME NEW a \in Admins, WriteUpdate(a), NEW c \in Challenges PROVE PriceFollows(c)'
  <2>1. edit[a].challenge \in Challenges
    BY DEF SubmissionInv, TypeOK, Edit
  <2>2. CASE chal[edit[a].challenge].state = "live"
    <3>1. edited' = [edited EXCEPT ![edit[a].challenge] = TRUE]
      BY <1>4, <2>2 DEF WriteUpdate
    <3>2. CASE c = edit[a].challenge
      BY <1>1, <2>1, <3>1, <3>2 DEF PriceFollows
    <3>3. CASE c # edit[a].challenge
      <4>1. chal'[c] = chal[c] /\ edited'[c] = edited[c]
        BY <1>1, <1>4, <2>1, <2>2, <3>1, <3>3, UpdateWrites
      <4> QED BY <1>1, <4>1, PriceStays
    <3> QED BY <3>2, <3>3
  <2>3. CASE chal[edit[a].challenge].state # "live"
    <3>1. chal' = chal /\ edited' = edited
      BY <1>4, <2>3 DEF WriteUpdate
    <3> QED BY <1>1, <3>1, PriceStays
  <2> QED BY <2>2, <2>3
<1>5. ASSUME NEW d \in Challenges, DeleteChallenge(d), NEW c \in Challenges
      PROVE  PriceFollows(c)'
  <2> DEFINE gone == Gone(chal[d])
  <2>1. gone.count = chal[d].count /\ gone.points = chal[d].points /\ gone.curve = chal[d].curve
    BY <1>1, GoneRow
  <2>2. chal' = [chal EXCEPT ![d] = gone] /\ edited' = edited
    BY <1>5 DEF DeleteChallenge, Gone
  <2> HIDE DEF gone
  <2>3. /\ chal'[c].count = chal[c].count /\ chal'[c].points = chal[c].points
        /\ chal'[c].curve = chal[c].curve
    BY <1>1, <2>1, <2>2
  <2> QED BY <1>1, <2>2, <2>3, PriceStays
<1>6. ASSUME UNCHANGED <<chal, edited>>, NEW c \in Challenges PROVE PriceFollows(c)'
  BY <1>1, <1>6, PriceStays
<1>7. \/ \E u \in Users : Record(u)
      \/ \E d \in Challenges, f \in Flags, p \in Prices, k \in Curves :
           CreateChallenge(d, f, p, k)
      \/ \E a \in Admins : WriteUpdate(a)
      \/ \E d \in Challenges : DeleteChallenge(d)
      \/ UNCHANGED <<chal, edited>>
  BY DEF Next, SubmissionStep, Submit, CheckFlag, CheckExisting, LockChallenge,
         RefuseDuplicate, Notify, LogSubmission, Fail, Abandon, ReadForUpdate, BanTeam,
         UnbanTeam, DisbandTeam, ResetSoloTeam, HardDeleteTeam, KeepSubmissions, vars
<1>8. \A c \in Challenges : PriceFollows(c)'
  BY <1>2, <1>3, <1>4, <1>5, <1>6, <1>7
<1> QED BY <1>8 DEF PriceFollows, PointsFollowCount

LEMMA EditsStayLive ==
  ASSUME SubmissionInv, [Next]_vars
  PROVE  EditsAreLive'
<1>1. /\ chal \in [Challenges -> Row] /\ edit \in [Admins -> Edit]
      /\ \A b \in Admins : edit[b].on => edit[b].row.state = "live"
  BY DEF SubmissionInv, TypeOK, EditsAreLive, EditIsLive
<1>2. ASSUME NEW a \in Admins, WriteUpdate(a), NEW b \in Admins
      PROVE  edit'[b].on => edit'[b].row.state = "live"
  BY <1>1, <1>2 DEF WriteUpdate, NoEdit
<1>3. ASSUME NEW c \in Challenges, NEW f \in Flags, NEW p \in Prices, NEW k \in Curves,
             NEW a \in Admins, ReadForUpdate(a, c, f, p, k), NEW b \in Admins
      PROVE  edit'[b].on => edit'[b].row.state = "live"
  <2> DEFINE copy == [chal[c] EXCEPT !.flag = f, !.points = p, !.curve = k]
  <2>1. copy.state = "live"
    <3>1. chal[c] \in Row /\ chal[c].state = "live"
      BY <1>1, <1>3 DEF ReadForUpdate
    <3>2. copy.state = chal[c].state
      <4>1. ASSUME NEW row \in Row
            PROVE  [row EXCEPT !.flag = f, !.points = p, !.curve = k].state = row.state
        BY DEF Row
      <4> QED BY <3>1, <4>1, Zenon
    <3> HIDE DEF copy
    <3> QED BY <3>1, <3>2
  <2>2. edit' = [edit EXCEPT ![a] = [on |-> TRUE, challenge |-> c, row |-> copy]]
    BY <1>3 DEF ReadForUpdate
  <2> HIDE DEF copy
  <2> QED BY <1>1, <2>1, <2>2
<1>4. \/ \E a \in Admins : WriteUpdate(a)
      \/ \E c \in Challenges, f \in Flags, p \in Prices, k \in Curves, a \in Admins :
           ReadForUpdate(a, c, f, p, k)
      \/ edit' = edit
  BY DEF Next, SubmissionStep, Submit, CheckFlag, CheckExisting, LockChallenge, Record,
         RefuseDuplicate, Notify, LogSubmission, Fail, Abandon, CreateChallenge,
         DeleteChallenge, BanTeam, UnbanTeam, DisbandTeam, ResetSoloTeam, HardDeleteTeam,
         KeepSubmissions, vars
<1>5. \A b \in Admins : edit'[b].on => edit'[b].row.state = "live"
  BY <1>1, <1>2, <1>3, <1>4
<1> QED BY <1>5 DEF EditsAreLive, EditIsLive

LEMMA SolvedIsHistory ==
  ASSUME SubmissionInv, NEW t, NEW c \in Challenges, Solved(t, c)
  PROVE  \E i \in Positions(c) : recorded[c][i] = t
  BY DEF SubmissionInv, TypeOK, LedgerTypeOK, Solved

(* The answers of a user's own step.                                         *)
LEMMA OwnAnswers ==
  ASSUME SubmissionInv, [Next]_vars, NEW u \in Users, UserStep(u)
  PROVE  RightEarned(u)' /\ FirstEarned(u)'
<1> DEFINE Earned ==
      LET c == sub'[u].challenge
          t == sub'[u].team
      IN /\ right'[u] => pc'[u] # "idle" /\ \E i \in 1 .. Len(recorded'[c]) : recorded'[c][i] = t
         /\ first'[u] => pc'[u] # "idle" /\ recorded'[c] # << >> /\ recorded'[c][1] = t
<1> SUFFICES Earned
  BY DEF RightEarned, FirstEarned, Positions
<1>1. /\ ReqType /\ LedgerTypeOK /\ sub[u].challenge \in Challenges /\ sub[u].team \in Teams
      /\ RightEarned(u) /\ FirstEarned(u)
  BY DEF SubmissionInv, TypeOK, ReqType, Submission, AnswersEarned
<1>2. CASE EndRequest(u)
  BY <1>1, <1>2 DEF EndRequest, Answer, ReqType
<1>3. CASE \E t \in Teams, c \in Challenges, g \in Flags \cup {WrongFlag} : Submit(u, t, c, g)
  <2>1. ~right[u] /\ ~first[u] /\ right' = right /\ first' = first
    BY <1>1, <1>3 DEF Submit, RightEarned, FirstEarned
  <2> QED BY <2>1
<1>4. ASSUME sub' = sub, recorded' = recorded, first' = first, right'[u] = right[u],
             pc'[u] # "idle"
      PROVE  Earned
  BY <1>1, <1>4 DEF RightEarned, FirstEarned, Positions
<1>5. ASSUME sub' = sub, recorded' = recorded, first' = first, pc'[u] # "idle",
             right'[u] => Solved(sub[u].team, sub[u].challenge)
      PROVE  Earned
  <2>1. right'[u] => \E i \in Positions(sub[u].challenge) :
                       recorded[sub[u].challenge][i] = sub[u].team
    BY <1>1, <1>5, SolvedIsHistory
  <2> QED BY <1>1, <1>5, <2>1 DEF FirstEarned, Positions
<1>6. CASE CheckFlag(u) /\ ~EndRequest(u)
  BY <1>1, <1>4, <1>6 DEF CheckFlag, Goto, ReqType, ledgerVars
<1>7. CASE CheckExisting(u)
  <2>1. pc'[u] # "idle"
    BY <1>1, <1>7 DEF CheckExisting, Goto, ReqType
  <2>2. right'[u] => Solved(sub[u].team, sub[u].challenge)
    BY <1>1, <1>7 DEF CheckExisting, Answer, AlreadySolved, ReqType
  <2> QED BY <1>5, <1>7, <2>1, <2>2 DEF CheckExisting, ledgerVars
<1>8. CASE LockChallenge(u) /\ ~EndRequest(u)
  BY <1>1, <1>4, <1>8 DEF LockChallenge, Goto, ReqType, ledgerVars
<1>9. CASE RefuseDuplicate(u)
  <2>1. pc'[u] # "idle"
    BY <1>1, <1>9 DEF RefuseDuplicate, Goto, ReqType
  <2> QED BY <1>5, <1>9, <2>1 DEF RefuseDuplicate, ledgerVars
<1>10. CASE Notify(u)
  BY <1>1, <1>4, <1>10 DEF Notify, Goto, ReqType
<1>11. CASE Record(u)
  <2> DEFINE c == sub[u].challenge
             t == sub[u].team
  <2>1. /\ recorded'[c] = Append(recorded[c], t) /\ recorded[c] \in Seq(Teams)
        /\ sub' = sub /\ pc'[u] # "idle"
    BY <1>1, <1>11 DEF Record, LedgerTypeOK, Goto, ReqType
  <2>2. first'[u] => Len(recorded[c]) + 1 = 1
    BY <1>1, <1>11 DEF Record, SolveNumber, SubmissionInv, SolveCountExact, ReqType
  <2>3. /\ recorded'[c] # << >> /\ Len(recorded'[c]) = Len(recorded[c]) + 1
        /\ Len(recorded[c]) \in Nat /\ recorded'[c][Len(recorded[c]) + 1] = t
    <3> DEFINE s == recorded[c]
    <3>1. s \in Seq(Teams) /\ t \in Teams /\ recorded'[c] = Append(s, t)
      BY <1>1, <2>1 DEF ReqType, Submission
    <3> HIDE DEF s, t
    <3>2. Append(s, t) # << >> /\ Len(Append(s, t)) = Len(s) + 1 /\ Append(s, t)[Len(s) + 1] = t
      BY <3>1, AppendedHistory
    <3>3. Len(s) \in Nat
      BY <3>1
    <3> QED
      BY <3>1, <3>2, <3>3 DEF s
  <2>4. Len(recorded[c]) + 1 \in 1 .. Len(recorded'[c])
    BY <2>3
  <2> QED BY <2>1, <2>2, <2>3, <2>4
<1> QED
  BY <1>2, <1>3, <1>6, <1>7, <1>8, <1>9, <1>10, <1>11
     DEF UserStep, SubmissionStep, Fail, Abandon, LogSubmission

LEMMA AnswersStayEarned ==
  ASSUME SubmissionInv, [Next]_vars
  PROVE  AnswersEarned'
<1>1. ASSUME NEW v \in Users, pc'[v] = pc[v], sub'[v] = sub[v], right'[v] = right[v],
             first'[v] = first[v]
      PROVE  RightEarned(v)' /\ FirstEarned(v)'
  <2> DEFINE c == sub[v].challenge
  <2>1. RightEarned(v) /\ FirstEarned(v) /\ c \in Challenges /\ LedgerTypeOK
    BY DEF SubmissionInv, TypeOK, Submission, AnswersEarned
  <2>2. [LedgerNext]_ledgerVars
    BY StepRefines
  <2>3. /\ 1 .. Len(recorded[c]) \subseteq 1 .. Len(recorded'[c])
        /\ \A i \in 1 .. Len(recorded[c]) : recorded'[c][i] = recorded[c][i]
        /\ recorded[c] # << >> => recorded'[c] # << >> /\ recorded'[c][1] = recorded[c][1]
    BY <2>1, <2>2, HistoryOnlyGrows DEF Positions
  <2> QED BY <1>1, <2>1, <2>3 DEF RightEarned, FirstEarned, Positions
<1>2. ASSUME NEW u \in Users, UserStep(u), NEW v \in Users
      PROVE  RightEarned(v)' /\ FirstEarned(v)'
  BY <1>1, <1>2, Others, OwnAnswers
<1>3. ASSUME AdminStep \/ UNCHANGED vars, NEW v \in Users
      PROVE  RightEarned(v)' /\ FirstEarned(v)'
  <2>1. UNCHANGED <<pc, sub, right, first>>
    BY <1>3 DEF AdminStep, CreateChallenge, ReadForUpdate, WriteUpdate, DeleteChallenge, BanTeam,
                UnbanTeam, DisbandTeam, ResetSoloTeam, HardDeleteTeam, KeepSubmissions,
                reqVars, vars
  <2> QED BY <1>1, <2>1
<1> QED BY <1>2, <1>3 DEF Next, UserStep, AdminStep, AnswersEarned

-----------------------------------------------------------------------------
(* Every step of every actor keeps the invariant.                            *)
LEMMA StepInv == SubmissionInv /\ [Next]_vars => SubmissionInv'
<1> SUFFICES ASSUME SubmissionInv, [Next]_vars PROVE SubmissionInv'
  OBVIOUS
<1>1. LedgerInv'
  BY StepRefines, LedgerStep DEF SubmissionInv
<1>2. TypeOK'
  <2>1. CASE UNCHANGED vars
    BY <2>1 DEF vars, SubmissionInv, TypeOK, LedgerTypeOK, Positions
  <2> QED BY <1>1, <2>1, SubmitTypes, SubmissionTypes, AdminTypes DEF LedgerInv, Next
<1> QED
  BY <1>1, <1>2, RowsStayHeld, CountsStayExact, PricesStayRight, EditsStayLive,
     AnswersStayEarned DEF SubmissionInv

(* In every reachable state locked rows are current, counts and prices follow *)
(* the solves, and no answer on its way is unearned.                          *)
THEOREM SubmissionSafe == Spec => []SubmissionInv
<1> QED BY InitInv, StepInv, PTL DEF Spec

(* Type correctness of the submission model.                                 *)
THEOREM SubmissionsWellTyped == Spec => []TypeOK
<1>1. SubmissionInv => TypeOK
  BY DEF SubmissionInv
<1> QED BY <1>1, SubmissionSafe, PTL

(* However submissions overlap with each other, with edits, deletions, bans   *)
(* and resets, the solves table behaves as the atomic ledger.                *)
THEOREM ImplementsLedger == Spec => LedgerSpec
<1>1. Init => LedgerInit
  BY DEF Init
<1>2. SubmissionInv /\ [Next]_vars => [LedgerNext]_ledgerVars
  BY StepRefines
<1> QED BY <1>1, <1>2, SubmissionSafe, PTL DEF Spec, LedgerSpec

(* No interleaving of submissions stores two solves of a team.               *)
THEOREM SolvesAreSingle == Spec => []OneSolvePerTeam
<1>1. LedgerInv => OneSolvePerTeam
  BY DEF LedgerInv
<1> QED BY <1>1, ImplementsLedger, LedgerSafe, PTL

(* First blood is announced for the team of the first solve only.            *)
THEOREM FirstBloodIsUnique == Spec => []FirstBloodAgrees
<1> QED BY ImplementsLedger, LedgerFirstBlood, PTL

(* Only solves are logged as correct.                                        *)
THEOREM CreditEarned == Spec => []CreditIsEarned
<1>1. LedgerInv => CreditIsEarned
  BY DEF LedgerInv
<1> QED BY <1>1, ImplementsLedger, LedgerSafe, PTL

(* A solve is priced from the row as the table has it.                       *)
THEOREM PricedUnderLock == Spec => []LockedRowIsCurrent
<1>1. SubmissionInv => LockedRowIsCurrent
  BY DEF SubmissionInv, AllRowsHeld, RowHeld, LockedRowIsCurrent
<1> QED BY <1>1, SubmissionSafe, PTL

(* No solve is lost from solve_count.                                        *)
THEOREM CountIsExact == Spec => []SolveCountExact
<1>1. SubmissionInv => SolveCountExact
  BY DEF SubmissionInv
<1> QED BY <1>1, SubmissionSafe, PTL

(* The price follows the curve until an administrator sets it.               *)
THEOREM PriceFollowsCount == Spec => []PointsFollowCount
<1>1. SubmissionInv => PointsFollowCount
  BY DEF SubmissionInv
<1> QED BY <1>1, SubmissionSafe, PTL
-----------------------------------------------------------------------------
(* Waiting for a challenges row.  Whoever holds one has come to its inserts. *)
HoldersGoOn == \A c \in Challenges : lock[c] # NoUser => pc[lock[c]] = "record"

LEMMA OwnLocks ==
  ASSUME SubmissionInv, HoldersGoOn, NEW u \in Users, UserStep(u), NEW c \in Challenges
  PROVE  lock'[c] \in {lock[c], u, NoUser} /\ (lock'[c] = u => pc'[u] = "record")
<1>1. /\ lock \in [Challenges -> Users \cup {NoUser}] /\ pc \in [Users -> Steps]
      /\ u # NoUser /\ (lock[c] = u => pc[u] = "record")
  BY UsersAssumption DEF SubmissionInv, TypeOK, HoldersGoOn
<1>2. CASE Unlock(u)
  BY <1>1, <1>2 DEF Unlock
<1>3. CASE UNCHANGED lock /\ pc[u] # "record"
  BY <1>1, <1>3
<1>4. CASE lock' = [lock EXCEPT ![sub[u].challenge] = u] /\ Goto(u, "record")
  BY <1>1, <1>4 DEF Goto
<1>5. Unlock(u) \/ (UNCHANGED lock /\ pc[u] # "record")
        \/ (lock' = [lock EXCEPT ![sub[u].challenge] = u] /\ Goto(u, "record"))
  BY DEF UserStep, SubmissionStep, Submit, CheckFlag, CheckExisting, LockChallenge, Record,
         RefuseDuplicate, Notify, LogSubmission, Fail, Abandon
<1> QED
  BY <1>2, <1>3, <1>4, <1>5

LEMMA HoldersStep == SubmissionInv /\ HoldersGoOn /\ [Next]_vars => HoldersGoOn'
<1> SUFFICES ASSUME SubmissionInv, HoldersGoOn, [Next]_vars PROVE HoldersGoOn'
  OBVIOUS
<1>1. ASSUME NEW u \in Users, UserStep(u) PROVE HoldersGoOn'
  <2> SUFFICES ASSUME NEW c \in Challenges, lock'[c] # NoUser PROVE pc'[lock'[c]] = "record"
    BY DEF HoldersGoOn
  <2>1. lock'[c] \in {lock[c], u} /\ (lock'[c] = u => pc'[u] = "record")
    BY <1>1, OwnLocks
  <2>2. CASE lock'[c] = lock[c] /\ lock[c] # u
    <3>1. lock[c] \in Users \ {u} /\ pc[lock[c]] = "record"
      BY <2>2 DEF SubmissionInv, TypeOK, HoldersGoOn
    <3>2. pc'[lock[c]] = pc[lock[c]]
      BY <1>1, <3>1, Others
    <3> QED
      BY <2>2, <3>1, <3>2
  <2> QED
    BY <2>1, <2>2
<1>2. CASE AdminStep \/ UNCHANGED vars
  <2>1. UNCHANGED <<pc, lock>>
    BY <1>2 DEF AdminStep, vars, reqVars, KeepSubmissions, CreateChallenge, ReadForUpdate,
           WriteUpdate, DeleteChallenge, BanTeam, UnbanTeam, DisbandTeam, ResetSoloTeam,
           HardDeleteTeam
  <2> QED
    BY <2>1 DEF HoldersGoOn
<1> QED
  BY <1>1, <1>2 DEF Next, UserStep, AdminStep

(* However many submissions and edits meet at a challenges row: its holder   *)
(* can always go on, so that no circle of waiting sessions arises.           *)
THEOREM SubmissionsNeverWaitInVain == Spec => []HeldRowsComeBack
<1>1. Init => HoldersGoOn
  BY DEF Init, HoldersGoOn
<1>2. ASSUME SubmissionInv, HoldersGoOn PROVE HeldRowsComeBack
  <2>1. ASSUME NEW c \in Challenges PROVE Lockable(c) \/ GoesOn(lock[c])
    BY <1>2, <2>1 DEF Lockable, HoldersGoOn, GoesOn
  <2>2. ASSUME NEW u \in Users, pc[u] # "idle"
        PROVE  GoesOn(u) \/ GoesOn(lock[sub[u].challenge])
    <3>1. sub[u].challenge \in Challenges
      BY <1>2, <2>2 DEF SubmissionInv, TypeOK, Submission
    <3>2. Lockable(sub[u].challenge) \/ GoesOn(lock[sub[u].challenge])
      BY <2>1, <3>1
    <3> QED
      BY <2>2, <3>2 DEF GoesOn
  <2>3. ASSUME NEW a \in Admins
        PROVE  Lockable(edit[a].challenge) \/ GoesOn(lock[edit[a].challenge])
    BY <1>2, <2>1, <2>3 DEF SubmissionInv, TypeOK, Edit
  <2> QED
    BY <2>2, <2>3 DEF HeldRowsComeBack
<1> QED
  BY <1>1, <1>2, HoldersStep, SubmissionSafe, PTL DEF Spec
=============================================================================
