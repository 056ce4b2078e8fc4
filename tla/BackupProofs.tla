---------------------------- MODULE BackupProofs ----------------------------
(* Export and import over concurrent writes and file operations, for any     *)
(* number of teams, challenges and files and any bound on the writes.        *)
EXTENDS Backup, FiniteSetTheorems, WellFoundedInduction, TLAPS

-----------------------------------------------------------------------------
(* Tables as partial functions. *)

LEMMA PartialFunction ==
  ASSUME NEW S, NEW T, NEW D \in SUBSET S, NEW f \in [D -> T]
  PROVE  f \in Partial(S, T) /\ DOMAIN f = D
BY DEF Partial

LEMMA PartialElim ==
  ASSUME NEW S, NEW T, NEW f \in Partial(S, T)
  PROVE  DOMAIN f \in SUBSET S /\ f \in [DOMAIN f -> T]
BY DEF Partial

LEMMA PutRow ==
  ASSUME NEW S, NEW T, NEW f \in Partial(S, T), NEW k \in S, NEW v \in T
  PROVE  /\ Put(f, k, v) \in Partial(S, T)
         /\ DOMAIN Put(f, k, v) = DOMAIN f \cup {k}
<1>1. DOMAIN f \in SUBSET S /\ f \in [DOMAIN f -> T]
  BY PartialElim
<1>2. Put(f, k, v) \in [DOMAIN f \cup {k} -> T]
  BY <1>1 DEF Put
<1>3. DOMAIN f \cup {k} \in SUBSET S
  BY <1>1
<1> QED
  BY <1>2, <1>3, PartialFunction

LEMMA RestrictRows ==
  ASSUME NEW S, NEW T, NEW f \in Partial(S, T), NEW D \in SUBSET DOMAIN f
  PROVE  /\ Restrict(f, D) \in Partial(S, T)
         /\ DOMAIN Restrict(f, D) = D
         /\ \A x \in D : Restrict(f, D)[x] = f[x]
<1>1. DOMAIN f \in SUBSET S /\ f \in [DOMAIN f -> T]
  BY PartialElim
<1>2. Restrict(f, D) \in [D -> T] /\ D \in SUBSET S
  BY <1>1 DEF Restrict
<1> QED
  BY <1>2, PartialFunction DEF Restrict

LEMMA UpdateRow ==
  ASSUME NEW S, NEW T, NEW f \in Partial(S, T), NEW k \in DOMAIN f, NEW v \in T
  PROVE  /\ [f EXCEPT ![k] = v] \in Partial(S, T)
         /\ DOMAIN [f EXCEPT ![k] = v] = DOMAIN f
<1>1. DOMAIN f \in SUBSET S /\ f \in [DOMAIN f -> T]
  BY PartialElim
<1>2. [f EXCEPT ![k] = v] \in [DOMAIN f -> T]
  BY <1>1
<1> QED
  BY <1>1, <1>2, PartialFunction

-----------------------------------------------------------------------------
(* The target of an import is the oldest file of its path. *)

(* A set of numbers has a least one: of the intervals below its members, one  *)
(* is inside all others.                                                     *)
LEMMA NatMinimum ==
  ASSUME NEW S \in SUBSET Nat, S # {}
  PROVE  Min(S) \in S
<1>1. PICK n \in S : TRUE
  OBVIOUS
<1> DEFINE R == StrictSubsetOrdering(0..n)
           B == {0..x : x \in {y \in S : y <= n}}
<1> HIDE DEF R
<1>2. IsFiniteSet(0..n)
  BY <1>1, FS_Interval
<1>3. IsWellFoundedOn(R, SUBSET (0..n))
  BY <1>2, FS_StrictSubsetOrderingWellFounded, FS_FiniteSubsetsOfFinite DEF R
<1>4. B \subseteq SUBSET (0..n) /\ B # {}
  BY <1>1
<1>5. PICK s \in B : \A u \in B : <<u, s>> \notin R
  BY <1>3, <1>4, WFMin
<1>6. PICK x \in S : x <= n /\ s = 0..x
  BY <1>5
<1>7. ASSUME NEW y \in S, y < x PROVE FALSE
  <2>1. 0..y \in B
    BY <1>1, <1>6, <1>7
  <2>2. 0..y \subseteq 0..x /\ 0..y # 0..x /\ 0..x \subseteq 0..n
    <3>1. x \in 0..x /\ x \notin 0..y
      BY <1>7
    <3> QED
      BY <1>1, <1>6, <1>7, <3>1
  <2>3. <<0..y, s>> \in R
    BY <1>6, <2>2 DEF R, StrictSubsetOrdering
  <2> QED
    BY <1>5, <2>1, <2>3
<1>8. \A y \in S : x <= y
  BY <1>7
<1> QED
  BY <1>8 DEF Min

LEMMA TargetInArchive ==
  ASSUME archive.files \subseteq Files, NEW f \in archive.files
  PROVE  Target(f) \in archive.files /\ Target(f) \in Files
<1> DEFINE S == {g \in archive.files : PathOf[g] = PathOf[f]}
<1>1. S \in SUBSET Nat /\ S # {}
  BY FileNumbers
<1>2. Min(S) \in S
  BY <1>1, NatMinimum
<1> QED
  BY <1>2 DEF Target

-----------------------------------------------------------------------------
(* The rows of the tables, and the references between them. *)

DbRecord ==
  [users : SUBSET Teams, teams : Partial(Teams, {"active", "deleted"}),
   awards : SUBSET Teams, challenges : Partial(Challenges, ChallengeRow),
   solves : SUBSET (Teams \X Challenges), files : SUBSET Files]

FilesOf(ch) == {f \in Files : PathOf[f][1] \in ch}

References(d) ==
  /\ DOMAIN d.teams \subseteq d.users
  /\ d.awards \subseteq DOMAIN d.teams
  /\ d.solves \subseteq (DOMAIN d.teams) \X (DOMAIN d.challenges)
  /\ d.files \subseteq FilesOf(DOMAIN d.challenges)

RowsOK(d) == d \in DbRecord /\ References(d)

LEMMA RowIntro ==
  ASSUME NEW u \in SUBSET Teams, NEW t \in Partial(Teams, {"active", "deleted"}),
         NEW a \in SUBSET Teams, NEW c \in Partial(Challenges, ChallengeRow),
         NEW s \in SUBSET (Teams \X Challenges), NEW f \in SUBSET Files,
         DOMAIN t \subseteq u, a \subseteq DOMAIN t,
         s \subseteq (DOMAIN t) \X (DOMAIN c), f \subseteq FilesOf(DOMAIN c)
  PROVE  RowsOK([users |-> u, teams |-> t, awards |-> a, challenges |-> c,
                 solves |-> s, files |-> f])
BY DEF RowsOK, DbRecord, References

Row(u, t, a, c, s, f) ==
  [users |-> u, teams |-> t, awards |-> a, challenges |-> c, solves |-> s, files |-> f]

(* One field at a time. *)
WithUsers(d, v) == [d EXCEPT !.users = v]
WithTeams(d, v) == [d EXCEPT !.teams = v]
WithAwards(d, v) == [d EXCEPT !.awards = v]
WithChallenges(d, v) == [d EXCEPT !.challenges = v]
WithSolves(d, v) == [d EXCEPT !.solves = v]
WithFiles(d, v) == [d EXCEPT !.files = v]

LEMMA RowFields ==
  ASSUME NEW d \in DbRecord
  PROVE  d = Row(d.users, d.teams, d.awards, d.challenges, d.solves, d.files)
BY DEF Row, DbRecord

LEMMA RowEdit ==
  ASSUME NEW u, NEW t, NEW a, NEW c, NEW s, NEW f, NEW v
  PROVE  /\ WithUsers(Row(u, t, a, c, s, f), v) = Row(v, t, a, c, s, f)
         /\ WithTeams(Row(u, t, a, c, s, f), v) = Row(u, v, a, c, s, f)
         /\ WithAwards(Row(u, t, a, c, s, f), v) = Row(u, t, v, c, s, f)
         /\ WithChallenges(Row(u, t, a, c, s, f), v) = Row(u, t, a, v, s, f)
         /\ WithSolves(Row(u, t, a, c, s, f), v) = Row(u, t, a, c, v, f)
         /\ WithFiles(Row(u, t, a, c, s, f), v) = Row(u, t, a, c, s, v)
BY DEF Row, WithUsers, WithTeams, WithAwards, WithChallenges, WithSolves, WithFiles

LEMMA RegisterRows ==
  ASSUME NEW d, RowsOK(d), NEW t \in Teams
  PROVE  RowsOK([d EXCEPT !.users = @ \cup {t}, !.teams = Put(@, t, "active")])
<1> DEFINE p == Put(d.teams, t, "active")
           v == d.users \cup {t}
<1>1. d = Row(d.users, d.teams, d.awards, d.challenges, d.solves, d.files)
  BY RowFields DEF RowsOK
<1>2. p \in Partial(Teams, {"active", "deleted"}) /\ DOMAIN p = DOMAIN d.teams \cup {t}
  BY PutRow DEF RowsOK, DbRecord
<1> HIDE DEF p, v
<1>3. WithUsers(d, v) = Row(v, d.teams, d.awards, d.challenges, d.solves, d.files)
  BY <1>1, RowEdit
<1>4. WithTeams(WithUsers(d, v), p) = Row(v, p, d.awards, d.challenges, d.solves, d.files)
  BY <1>3, RowEdit
<1>5. RowsOK(Row(v, p, d.awards, d.challenges, d.solves, d.files))
  BY <1>2, RowIntro DEF RowsOK, DbRecord, References, v, Row
<1>6. [d EXCEPT !.users = v, !.teams = p] = WithTeams(WithUsers(d, v), p)
  BY DEF RowsOK, DbRecord, WithTeams, WithUsers
<1>7. RowsOK([d EXCEPT !.users = v, !.teams = p])
  BY <1>4, <1>5, <1>6, Zenon
<1> QED
  BY <1>7 DEF p, v

LEMMA DisbandRows ==
  ASSUME NEW d, RowsOK(d), NEW t \in DOMAIN d.teams
  PROVE  RowsOK([d EXCEPT !.teams[t] = "deleted"])
<1> DEFINE p == [d.teams EXCEPT ![t] = "deleted"]
<1>1. d = Row(d.users, d.teams, d.awards, d.challenges, d.solves, d.files)
  BY RowFields DEF RowsOK
<1>2. p \in Partial(Teams, {"active", "deleted"}) /\ DOMAIN p = DOMAIN d.teams
  BY UpdateRow DEF RowsOK, DbRecord
<1>3. [d EXCEPT !.teams[t] = "deleted"] = WithTeams(d, p)
  BY DEF RowsOK, DbRecord, WithTeams
<1> HIDE DEF p
<1>4. WithTeams(d, p) = Row(d.users, p, d.awards, d.challenges, d.solves, d.files)
  BY <1>1, RowEdit
<1>5. RowsOK(Row(d.users, p, d.awards, d.challenges, d.solves, d.files))
  BY <1>2, RowIntro DEF RowsOK, DbRecord, References, Row
<1> QED
  BY <1>3, <1>4, <1>5, Zenon

LEMMA HardDeleteRows ==
  ASSUME NEW d, RowsOK(d), NEW t
  PROVE  RowsOK([d EXCEPT !.teams = Restrict(@, DOMAIN @ \ {t}), !.awards = @ \ {t},
                          !.solves = {s \in @ : s[1] # t}])
<1> DEFINE p == Restrict(d.teams, DOMAIN d.teams \ {t})
           w == d.awards \ {t}
           x == {s \in d.solves : s[1] # t}
<1>1. d = Row(d.users, d.teams, d.awards, d.challenges, d.solves, d.files)
  BY RowFields DEF RowsOK
<1>2. p \in Partial(Teams, {"active", "deleted"}) /\ DOMAIN p = DOMAIN d.teams \ {t}
  BY RestrictRows DEF RowsOK, DbRecord
<1>3. x \in SUBSET (Teams \X Challenges)
  BY DEF RowsOK, DbRecord
<1>4. x \subseteq (DOMAIN d.teams \ {t}) \X (DOMAIN d.challenges)
  BY DEF RowsOK, References
<1>5. w \in SUBSET Teams /\ w \subseteq DOMAIN d.teams \ {t}
  BY DEF RowsOK, DbRecord, References
<1> HIDE DEF p, w, x
<1>6. WithTeams(d, p) = Row(d.users, p, d.awards, d.challenges, d.solves, d.files)
  BY <1>1, RowEdit
<1>7. WithAwards(WithTeams(d, p), w) = Row(d.users, p, w, d.challenges, d.solves, d.files)
  BY <1>6, RowEdit
<1>8. WithSolves(WithAwards(WithTeams(d, p), w), x) = Row(d.users, p, w, d.challenges, x, d.files)
  BY <1>7, RowEdit
<1>9. RowsOK(Row(d.users, p, w, d.challenges, x, d.files))
  <2>1. DOMAIN p \subseteq d.users
    BY <1>2 DEF RowsOK, References
  <2> QED
    BY <1>2, <1>3, <1>4, <1>5, <2>1, RowIntro DEF RowsOK, DbRecord, References, Row
<1>10. [d EXCEPT !.teams = p, !.awards = w, !.solves = x] =
         WithSolves(WithAwards(WithTeams(d, p), w), x)
  BY DEF RowsOK, DbRecord, WithTeams, WithAwards, WithSolves
<1>11. RowsOK([d EXCEPT !.teams = p, !.awards = w, !.solves = x])
  BY <1>8, <1>9, <1>10, Zenon
<1> QED
  BY <1>11 DEF p, w, x

LEMMA AwardRows ==
  ASSUME NEW d, RowsOK(d), NEW t \in DOMAIN d.teams
  PROVE  RowsOK([d EXCEPT !.awards = @ \cup {t}])
<1> DEFINE w == d.awards \cup {t}
<1>1. d = Row(d.users, d.teams, d.awards, d.challenges, d.solves, d.files)
  BY RowFields DEF RowsOK
<1>2. DOMAIN d.teams \subseteq Teams
  BY PartialElim DEF RowsOK, DbRecord
<1>3. w \in SUBSET Teams /\ w \subseteq DOMAIN d.teams
  BY <1>2 DEF RowsOK, DbRecord, References
<1>4. [d EXCEPT !.awards = @ \cup {t}] = WithAwards(d, w)
  BY DEF RowsOK, DbRecord, WithAwards
<1> HIDE DEF w
<1>5. WithAwards(d, w) = Row(d.users, d.teams, w, d.challenges, d.solves, d.files)
  BY <1>1, RowEdit
<1>6. RowsOK(Row(d.users, d.teams, w, d.challenges, d.solves, d.files))
  BY <1>3, RowIntro DEF RowsOK, DbRecord, References, Row
<1> QED
  BY <1>4, <1>5, <1>6, Zenon

(* Rows whose challenges change and keep their set or gain one. *)
LEMMA ChallengeRows ==
  ASSUME NEW d, RowsOK(d), NEW c \in Partial(Challenges, ChallengeRow),
         DOMAIN d.challenges \subseteq DOMAIN c
  PROVE  /\ WithChallenges(d, c) = Row(d.users, d.teams, d.awards, c, d.solves, d.files)
         /\ RowsOK(WithChallenges(d, c))
<1>1. d = Row(d.users, d.teams, d.awards, d.challenges, d.solves, d.files)
  BY RowFields DEF RowsOK
<1>2. WithChallenges(d, c) = Row(d.users, d.teams, d.awards, c, d.solves, d.files)
  BY <1>1, RowEdit
<1>3. d.solves \subseteq (DOMAIN d.teams) \X (DOMAIN c)
  BY DEF RowsOK, References
<1>4. d.files \subseteq FilesOf(DOMAIN c)
  BY DEF RowsOK, References, FilesOf
<1>5. RowsOK(Row(d.users, d.teams, d.awards, c, d.solves, d.files))
  BY <1>3, <1>4, RowIntro DEF RowsOK, DbRecord, References, Row
<1> QED
  BY <1>2, <1>5

LEMMA NoTeamYet == 0 \in 0..Cardinality(Teams) /\ Cardinality(Teams) \in Nat
BY TeamsFinite, FS_CardinalityType

LEMMA PutChallengeRows ==
  ASSUME NEW d, RowsOK(d), NEW c \in Challenges, NEW row \in ChallengeRow
  PROVE  RowsOK(WithChallenges(d, Put(d.challenges, c, row)))
<1> DEFINE p == Put(d.challenges, c, row)
<1>1. /\ DOMAIN d.challenges \in SUBSET Challenges
      /\ d.challenges \in [DOMAIN d.challenges -> ChallengeRow]
  BY PartialElim DEF RowsOK, DbRecord
<1>2. p \in [DOMAIN d.challenges \cup {c} -> ChallengeRow]
  BY <1>1 DEF Put
<1>3. DOMAIN d.challenges \cup {c} \in SUBSET Challenges
  BY <1>1
<1> HIDE DEF p
<1>4. p \in Partial(Challenges, ChallengeRow) /\ DOMAIN p = DOMAIN d.challenges \cup {c}
  BY <1>2, <1>3, PartialFunction
<1>5. RowsOK(WithChallenges(d, p))
  BY <1>4, ChallengeRows
<1> QED
  BY <1>5 DEF p

LEMMA CreateChallengeRows ==
  ASSUME NEW d, RowsOK(d), NEW c \in Challenges
  PROVE  RowsOK([d EXCEPT !.challenges = Put(@, c, [count |-> 0, hidden |-> FALSE])])
<1>1. [count |-> 0, hidden |-> FALSE] \in ChallengeRow
  BY NoTeamYet DEF ChallengeRow
<1>2. RowsOK(WithChallenges(d, Put(d.challenges, c, [count |-> 0, hidden |-> FALSE])))
  BY <1>1, PutChallengeRows
<1> QED
  BY <1>2 DEF WithChallenges

LEMMA HideRows ==
  ASSUME NEW d, RowsOK(d), NEW c \in DOMAIN d.challenges
  PROVE  RowsOK([d EXCEPT !.challenges[c].hidden = ~@])
<1> DEFINE row == [d.challenges[c] EXCEPT !.hidden = ~@]
           p == [d.challenges EXCEPT ![c] = row]
<1>1. d.challenges[c] \in ChallengeRow
  BY PartialElim DEF RowsOK, DbRecord
<1>2. row \in ChallengeRow
  BY <1>1 DEF ChallengeRow
<1>3. p \in Partial(Challenges, ChallengeRow) /\ DOMAIN p = DOMAIN d.challenges
  BY <1>2, UpdateRow DEF RowsOK, DbRecord
<1>4. [d EXCEPT !.challenges[c].hidden = ~@] = WithChallenges(d, p)
  BY DEF WithChallenges
<1> HIDE DEF p
<1>5. RowsOK(WithChallenges(d, p))
  BY <1>3, ChallengeRows
<1> QED
  BY <1>4, <1>5, Zenon

LEMMA DeleteChallengeRows ==
  ASSUME NEW d, RowsOK(d), NEW c
  PROVE  RowsOK([d EXCEPT !.challenges = Restrict(@, DOMAIN @ \ {c}),
                          !.solves = {s \in @ : s[2] # c},
                          !.files = {f \in @ : PathOf[f][1] # c}])
<1> DEFINE p == Restrict(d.challenges, DOMAIN d.challenges \ {c})
           w == {s \in d.solves : s[2] # c}
           x == {f \in d.files : PathOf[f][1] # c}
<1>1. d = Row(d.users, d.teams, d.awards, d.challenges, d.solves, d.files)
  BY RowFields DEF RowsOK
<1>2. p \in Partial(Challenges, ChallengeRow) /\ DOMAIN p = DOMAIN d.challenges \ {c}
  BY RestrictRows DEF RowsOK, DbRecord
<1>3. w \in SUBSET (Teams \X Challenges) /\ x \in SUBSET Files
  BY DEF RowsOK, DbRecord
<1>4. w \subseteq (DOMAIN d.teams) \X (DOMAIN d.challenges \ {c})
  BY DEF RowsOK, References
<1>5. x \subseteq FilesOf(DOMAIN d.challenges \ {c})
  BY DEF RowsOK, References, FilesOf
<1> HIDE DEF p, w, x
<1>6. WithChallenges(d, p) = Row(d.users, d.teams, d.awards, p, d.solves, d.files)
  BY <1>1, RowEdit
<1>7. WithSolves(WithChallenges(d, p), w) = Row(d.users, d.teams, d.awards, p, w, d.files)
  BY <1>6, RowEdit
<1>8. WithFiles(WithSolves(WithChallenges(d, p), w), x) = Row(d.users, d.teams, d.awards, p, w, x)
  BY <1>7, RowEdit
<1>9. RowsOK(Row(d.users, d.teams, d.awards, p, w, x))
  BY <1>2, <1>3, <1>4, <1>5, RowIntro DEF RowsOK, DbRecord, References, Row
<1>10. [d EXCEPT !.challenges = p, !.solves = w, !.files = x] =
         WithFiles(WithSolves(WithChallenges(d, p), w), x)
  BY DEF RowsOK, DbRecord, WithChallenges, WithSolves, WithFiles
<1>11. RowsOK([d EXCEPT !.challenges = p, !.solves = w, !.files = x])
  BY <1>8, <1>9, <1>10, Zenon
<1> QED
  BY <1>11 DEF p, w, x

(* The bound keeps solve_count in its range. *)
LEMMA SolveRows ==
  ASSUME NEW d, RowsOK(d), NEW t \in DOMAIN d.teams, NEW c \in DOMAIN d.challenges,
         d.challenges[c].count < Cardinality(Teams)
  PROVE  RowsOK([d EXCEPT !.solves = @ \cup {<<t, c>>}, !.challenges[c].count = @ + 1])
<1> DEFINE row == [d.challenges[c] EXCEPT !.count = @ + 1]
           p == [d.challenges EXCEPT ![c] = row]
           w == d.solves \cup {<<t, c>>}
<1>1. d.challenges[c] \in ChallengeRow
  BY PartialElim DEF RowsOK, DbRecord
<1>2. row \in ChallengeRow
  BY <1>1, NoTeamYet DEF ChallengeRow
<1>3. p \in Partial(Challenges, ChallengeRow) /\ DOMAIN p = DOMAIN d.challenges
  BY <1>2, UpdateRow DEF RowsOK, DbRecord
<1>4. DOMAIN d.teams \subseteq Teams /\ DOMAIN d.challenges \subseteq Challenges
  BY PartialElim DEF RowsOK, DbRecord
<1>5. /\ w \in SUBSET (Teams \X Challenges)
      /\ w \subseteq (DOMAIN d.teams) \X (DOMAIN d.challenges)
  BY <1>4 DEF RowsOK, DbRecord, References
<1>6. [d EXCEPT !.solves = w, !.challenges[c].count = @ + 1] =
        WithChallenges(WithSolves(d, w), p)
  BY DEF RowsOK, DbRecord, WithChallenges, WithSolves
<1>7. d = Row(d.users, d.teams, d.awards, d.challenges, d.solves, d.files)
  BY RowFields DEF RowsOK
<1> HIDE DEF p, w
<1>8. WithSolves(d, w) = Row(d.users, d.teams, d.awards, d.challenges, w, d.files)
  BY <1>7, RowEdit
<1>9. WithChallenges(WithSolves(d, w), p) = Row(d.users, d.teams, d.awards, p, w, d.files)
  BY <1>8, RowEdit
<1>10. RowsOK(Row(d.users, d.teams, d.awards, p, w, d.files))
  BY <1>3, <1>5, RowIntro DEF RowsOK, DbRecord, References, Row
<1>11. RowsOK([d EXCEPT !.solves = w, !.challenges[c].count = @ + 1])
  BY <1>6, <1>9, <1>10, Zenon
<1> QED
  BY <1>11 DEF w

LEMMA FileRows ==
  ASSUME NEW d, RowsOK(d), NEW f \in Files, NEW fs,
         \/ fs = d.files \ {f}
         \/ fs = d.files \cup {f} /\ PathOf[f][1] \in DOMAIN d.challenges
  PROVE  RowsOK(WithFiles(d, fs))
<1>1. d = Row(d.users, d.teams, d.awards, d.challenges, d.solves, d.files)
  BY RowFields DEF RowsOK
<1>2. WithFiles(d, fs) = Row(d.users, d.teams, d.awards, d.challenges, d.solves, fs)
  BY <1>1, RowEdit
<1>3. fs \in SUBSET Files /\ fs \subseteq FilesOf(DOMAIN d.challenges)
  BY DEF RowsOK, DbRecord, References, FilesOf
<1>4. RowsOK(Row(d.users, d.teams, d.awards, d.challenges, d.solves, fs))
  BY <1>3, RowIntro DEF RowsOK, DbRecord, References, Row
<1> QED
  BY <1>2, <1>4

-----------------------------------------------------------------------------
(* The rows an import writes. *)

ArchiveRecord ==
  [challenges : Partial(Challenges, ChallengeRow), teams : SUBSET Teams,
   awards : SUBSET Teams, files : SUBSET Files, entry : Partial(Files, Contents)]

ImportedChallenges(d) ==
  [c \in DOMAIN d.challenges \cup DOMAIN archive.challenges |->
     IF c \in DOMAIN archive.challenges THEN archive.challenges[c] ELSE d.challenges[c]]

ImportedTeams(d) ==
  [t \in DOMAIN d.teams \cup archive.teams |->
     IF t \in DOMAIN d.teams THEN d.teams[t] ELSE "active"]

ImportedRow(d) ==
  Row(d.users, ImportedTeams(d), d.awards \cup archive.awards, ImportedChallenges(d),
      d.solves, d.files \cup archive.files)

LEMMA ImportedRows ==
  ASSUME NEW d \in DbRecord
  PROVE  Imported(d) = ImportedRow(d)
<1> DEFINE e == WithChallenges(d, ImportedChallenges(d))
           g == WithTeams(e, ImportedTeams(d))
           h == WithAwards(g, d.awards \cup archive.awards)
<1>1. d = Row(d.users, d.teams, d.awards, d.challenges, d.solves, d.files)
  BY RowFields
<1>2. e = Row(d.users, d.teams, d.awards, ImportedChallenges(d), d.solves, d.files)
  BY <1>1, RowEdit
<1>3. g = Row(d.users, ImportedTeams(d), d.awards, ImportedChallenges(d), d.solves, d.files)
  BY <1>2, RowEdit
<1>4. h = Row(d.users, ImportedTeams(d), d.awards \cup archive.awards, ImportedChallenges(d),
              d.solves, d.files)
  BY <1>3, RowEdit
<1>5. WithFiles(h, d.files \cup archive.files) = ImportedRow(d)
  BY <1>4, RowEdit DEF ImportedRow
<1>6. ImportChallenges(d) = e
  BY DEF ImportChallenges, WithChallenges, ImportedChallenges
<1>7. e.teams = d.teams
  BY <1>2 DEF Row
<1>8. ImportTeams(e) = g
  <2>1. ImportTeams(e) = WithTeams(e, ImportedTeams(e))
    BY DEF ImportTeams, WithTeams, ImportedTeams
  <2>2. ImportedTeams(e) = ImportedTeams(d)
    BY <1>7 DEF ImportedTeams
  <2> QED
    BY <2>1, <2>2
<1>9. ImportAwards(g) = h
  <2>1. g.awards = d.awards
    BY <1>3 DEF Row
  <2> QED
    BY <2>1 DEF ImportAwards, WithAwards
<1>10. ImportFileMetadata(h) = WithFiles(h, d.files \cup archive.files)
  <2>1. h.files = d.files
    BY <1>4 DEF Row
  <2> QED
    BY <2>1 DEF ImportFileMetadata, WithFiles
<1> HIDE DEF e, g, h
<1>11. Imported(d) = ImportFileMetadata(ImportAwards(ImportTeams(ImportChallenges(d))))
  BY DEF Imported
<1> QED
  BY <1>5, <1>6, <1>8, <1>9, <1>10, <1>11, Zenon

LEMMA NoRowsOK == RowsOK(NoRows) /\ NoRows \in DbRecord
<1>1. [t \in {} |-> 0] \in Partial(Teams, {"active", "deleted"}) /\ DOMAIN [t \in {} |-> 0] = {}
  <2>1. [t \in {} |-> 0] \in [{} -> {"active", "deleted"}]
    OBVIOUS
  <2> QED
    BY <2>1, Zenon DEF Partial
<1>2. [c \in {} |-> 0] \in Partial(Challenges, ChallengeRow) /\ DOMAIN [c \in {} |-> 0] = {}
  BY DEF Partial
<1>3. NoRows = Row({}, [t \in {} |-> 0], {}, [c \in {} |-> 0], {}, {})
  BY DEF NoRows, Row
<1>4. RowsOK(Row({}, [t \in {} |-> 0], {}, [c \in {} |-> 0], {}, {}))
  BY <1>1, <1>2, RowIntro DEF Row
<1> QED
  BY <1>3, <1>4 DEF RowsOK

(* The checked references of the new rows, and the solves, which an import   *)
(* leaves as they are.                                                       *)
LEMMA ImportKeepsRows ==
  ASSUME NEW d, RowsOK(d), archive \in ArchiveRecord, ReferencesHold(Imported(d))
  PROVE  RowsOK(Imported(d))
<1> DEFINE c == ImportedChallenges(d)
           t == ImportedTeams(d)
           a == d.awards \cup archive.awards
           f == d.files \cup archive.files
<1>1. /\ c \in Partial(Challenges, ChallengeRow)
      /\ DOMAIN c = DOMAIN d.challenges \cup DOMAIN archive.challenges
  <2>1. DOMAIN d.challenges \in SUBSET Challenges /\ d.challenges \in [DOMAIN d.challenges -> ChallengeRow]
    BY PartialElim DEF RowsOK, DbRecord
  <2>2. /\ DOMAIN archive.challenges \in SUBSET Challenges
        /\ archive.challenges \in [DOMAIN archive.challenges -> ChallengeRow]
    BY PartialElim DEF ArchiveRecord
  <2>3. c \in [DOMAIN d.challenges \cup DOMAIN archive.challenges -> ChallengeRow]
    BY <2>1, <2>2 DEF ImportedChallenges
  <2>4. DOMAIN d.challenges \cup DOMAIN archive.challenges \in SUBSET Challenges
    BY <2>1, <2>2
  <2> QED
    BY <2>3, <2>4, PartialFunction
<1>2. t \in Partial(Teams, {"active", "deleted"}) /\ DOMAIN t = DOMAIN d.teams \cup archive.teams
  <2>1. DOMAIN d.teams \in SUBSET Teams /\ d.teams \in [DOMAIN d.teams -> {"active", "deleted"}]
    BY PartialElim DEF RowsOK, DbRecord
  <2>2. t \in [DOMAIN d.teams \cup archive.teams -> {"active", "deleted"}]
    BY <2>1 DEF ImportedTeams
  <2>3. DOMAIN d.teams \cup archive.teams \in SUBSET Teams
    BY <2>1 DEF ArchiveRecord
  <2> QED
    BY <2>2, <2>3, PartialFunction
<1> HIDE DEF c, t
<1>3. Imported(d) = Row(d.users, t, a, c, d.solves, f)
  BY ImportedRows DEF RowsOK, ImportedRow, c, t
<1>4. a \in SUBSET Teams /\ f \in SUBSET Files
  BY DEF RowsOK, DbRecord, ArchiveRecord
<1> HIDE DEF a, f
<1>5. ReferencesHold(Row(d.users, t, a, c, d.solves, f))
  BY <1>3
<1>6. DOMAIN t \subseteq d.users /\ a \subseteq DOMAIN t /\ f \subseteq FilesOf(DOMAIN c)
  BY <1>4, <1>5 DEF ReferencesHold, Row, FilesOf
<1>7. d.solves \subseteq (DOMAIN t) \X (DOMAIN c)
  BY <1>1, <1>2 DEF RowsOK, References
<1>8. RowsOK(Row(d.users, t, a, c, d.solves, f))
  BY <1>1, <1>2, <1>4, <1>6, <1>7, RowIntro DEF RowsOK, DbRecord, Row
<1> QED
  BY <1>3, <1>8

-----------------------------------------------------------------------------
(* The inductive invariant. *)

FilesOK ==
  /\ object \in [Files -> Contents \cup {NoObject}]
  /\ step \in [Files -> {"none", "upload", "delete"}]

(* A file table not read yet is empty in the archive; a file of the archive  *)
(* has an entry or is still to stream; an export starts with none to stream. *)
ArchiveOK ==
  /\ archive \in ArchiveRecord
  /\ unread \subseteq Tables \/ unread = {"start"}
  /\ unread = {"start"} => unsent = {}
  /\ "files" \in unread => archive.files = {}
  /\ unsent \subseteq archive.files
  /\ DOMAIN archive.entry = archive.files \ unsent

ImportRecord ==
  [phase : {"none", "upload", "refused"}, validate : BOOLEAN, todo : SUBSET Files,
   wrong : SUBSET Files, failed : BOOLEAN, deleted : SUBSET Files]

(* An import runs over a complete archive, and only then. *)
ImportOK ==
  /\ import \in ImportRecord
  /\ import.phase = "none" => import = NoImport
  /\ import.phase # "none" => unread = {} /\ unsent = {}
  /\ import.phase = "refused" => import.todo = {}
  /\ import.todo \subseteq archive.files
  /\ import.wrong \subseteq import.todo

(* An upload under way has no row yet, and no archive knows its location. *)
FreshUploads ==
  \A f \in Files : step[f] = "upload" => f \notin db.files \cup archive.files

(* While nobody writes, the tables hold whatever the archive has of them.    *)
(* They may hold more, the rows that an export leaves out; and they do hold  *)
(* it after an import that erased them, so equality would be too strong.     *)
QuietOK ==
  quiet =>
    /\ "challenges" \notin unread =>
         /\ DOMAIN archive.challenges \subseteq DOMAIN db.challenges
         /\ \A c \in DOMAIN archive.challenges : archive.challenges[c] = db.challenges[c]
    /\ "teams" \notin unread => archive.teams \subseteq DOMAIN db.teams
    /\ "awards" \notin unread => archive.awards \subseteq db.awards
    /\ "files" \notin unread => archive.files \subseteq db.files

(* What the goroutines that are done have put in place is still there, or a  *)
(* wrong copy over it waits to be dropped, and the error to be reported.     *)
UploadsOK ==
  (import.phase = "upload" /\ import.validate /\ ~import.failed) =>
    \A f \in archive.files \ import.todo :
      \/ Target(f) \in import.deleted
      \/ object[Target(f)] = Target(f)
      \/ \E g \in import.wrong : Target(g) = Target(f)

HistoryOK == quiet \in BOOLEAN /\ writes \in 0..MaxWrites

BackupInv ==
  /\ RowsOK(db) /\ FilesOK /\ ArchiveOK /\ ImportOK
  /\ FreshUploads /\ QuietOK /\ UploadsOK /\ HistoryOK

LEMMA UploadsStay ==
  ASSUME UploadsOK, UNCHANGED <<archive, import, object>>
  PROVE  UploadsOK'
<1>1. archive' = archive /\ import' = import /\ object' = object
  OBVIOUS
<1>2. ASSUME NEW f PROVE Target(f)' = Target(f)
  BY <1>1 DEF Target
<1> QED
  BY <1>1, <1>2 DEF UploadsOK

LEMMA InvTypes == BackupInv => TypeOK
<1> SUFFICES ASSUME BackupInv PROVE TypeOK
  OBVIOUS
<1>1. /\ db.users \subseteq Teams
      /\ db.teams \in Partial(Teams, {"active", "deleted"}) /\ DOMAIN db.teams \subseteq db.users
      /\ db.awards \subseteq DOMAIN db.teams
      /\ db.challenges \in Partial(Challenges, ChallengeRow)
      /\ db.solves \subseteq (DOMAIN db.teams) \X (DOMAIN db.challenges)
  BY DEF BackupInv, RowsOK, DbRecord, References
<1>2. db.files \subseteq {f \in Files : PathOf[f][1] \in DOMAIN db.challenges}
  BY DEF BackupInv, RowsOK, References, FilesOf
<1>3. archive.entry \in Partial(archive.files, Contents)
  <2>1. archive.entry \in [DOMAIN archive.entry -> Contents]
    BY PartialElim DEF BackupInv, ArchiveOK, ArchiveRecord
  <2>2. DOMAIN archive.entry \in SUBSET archive.files
    BY DEF BackupInv, ArchiveOK
  <2> QED
    BY <2>1, <2>2, PartialFunction
<1>4. unread \subseteq Tables \cup {"start"} /\ unsent \subseteq archive.files
  BY DEF BackupInv, ArchiveOK
<1>5. import.todo \subseteq archive.files /\ import.wrong \subseteq import.todo
  BY DEF BackupInv, ImportOK
<1> QED
  BY <1>1, <1>2, <1>3, <1>4, <1>5, Zenon DEF TypeOK, BackupInv, FilesOK, HistoryOK

LEMMA NoArchiveOK ==
  /\ NoArchive \in ArchiveRecord
  /\ NoArchive.files = {} /\ DOMAIN NoArchive.entry = {}
<1>1. [c \in {} |-> 0] \in Partial(Challenges, ChallengeRow)
  BY DEF Partial
<1>2. [f \in {} |-> 0] \in Partial(Files, Contents)
  BY DEF Partial
<1> QED
  BY <1>1, <1>2 DEF NoArchive, ArchiveRecord

LEMMA NoImportOK == NoImport \in ImportRecord
BY DEF NoImport, ImportRecord

LEMMA InitInv == Init => BackupInv
<1> SUFFICES ASSUME Init PROVE BackupInv
  OBVIOUS
<1>1. RowsOK(db)
  BY NoRowsOK DEF Init
<1>2. FilesOK
  BY DEF Init, FilesOK
<1>3. ArchiveOK
  BY NoArchiveOK DEF Init, ArchiveOK
<1>4. ImportOK
  BY NoImportOK DEF Init, ImportOK, NoImport
<1>5. FreshUploads /\ QuietOK
  BY DEF Init, FreshUploads, QuietOK
<1>6. UploadsOK
  BY DEF Init, UploadsOK, NoImport
<1>7. HistoryOK
  <2>1. writes \in 0..MaxWrites
    BY WritesBounded DEF Init
  <2> QED
    BY <2>1 DEF Init, HistoryOK
<1> QED
  BY <1>1, <1>2, <1>3, <1>4, <1>5, <1>6, <1>7 DEF BackupInv

-----------------------------------------------------------------------------
(* Players and administrators write rows. *)

RowWrite ==
  \/ \E t \in Teams : \/ RegisterTeam(t) \/ DisbandTeam(t) \/ HardDeleteTeam(t) \/ GiveAward(t)
                       \/ \E c \in Challenges : Solve(t, c)
  \/ \E c \in Challenges : CreateChallenge(c) \/ HideChallenge(c) \/ DeleteChallenge(c)

LEMMA WriteCounted ==
  ASSUME HistoryOK, Write
  PROVE  HistoryOK'
<1>1. writes' \in 0..MaxWrites
  BY WritesBounded DEF Write, HistoryOK
<1>2. quiet' \in BOOLEAN
  BY DEF Write
<1> QED
  BY <1>1, <1>2 DEF HistoryOK

LEMMA RowWritesKeepRows ==
  ASSUME RowsOK(db), RowWrite
  PROVE  RowsOK(db)'
<1>1. ASSUME NEW t \in Teams, RegisterTeam(t) PROVE RowsOK(db')
  BY <1>1, RegisterRows DEF RegisterTeam
<1>2. ASSUME NEW t \in Teams, DisbandTeam(t) PROVE RowsOK(db')
  BY <1>2, DisbandRows DEF DisbandTeam
<1>3. ASSUME NEW t \in Teams, HardDeleteTeam(t) PROVE RowsOK(db')
  BY <1>3, HardDeleteRows DEF HardDeleteTeam
<1>4. ASSUME NEW t \in Teams, GiveAward(t) PROVE RowsOK(db')
  BY <1>4, AwardRows DEF GiveAward
<1>5. ASSUME NEW t \in Teams, NEW c \in Challenges, Solve(t, c) PROVE RowsOK(db')
  BY <1>5, SolveRows DEF Solve
<1>6. ASSUME NEW c \in Challenges, CreateChallenge(c) PROVE RowsOK(db')
  BY <1>6, CreateChallengeRows DEF CreateChallenge
<1>7. ASSUME NEW c \in Challenges, HideChallenge(c) PROVE RowsOK(db')
  BY <1>7, HideRows DEF HideChallenge
<1>8. ASSUME NEW c \in Challenges, DeleteChallenge(c) PROVE RowsOK(db')
  BY <1>8, DeleteChallengeRows DEF DeleteChallenge
<1>9. RowsOK(db')
  BY <1>1, <1>2, <1>3, <1>4, <1>5, <1>6, <1>7, <1>8 DEF RowWrite
<1> QED
  BY <1>9 DEF RowsOK, DbRecord, References, FilesOf

LEMMA RowWritesOnly ==
  ASSUME RowsOK(db), RowWrite
  PROVE  Write /\ RowsOnly /\ db'.files \subseteq db.files
<1>1. Write /\ RowsOnly
  BY DEF RowWrite, RegisterTeam, DisbandTeam, HardDeleteTeam, GiveAward, Solve,
         CreateChallenge, HideChallenge, DeleteChallenge
<1>2. db'.files \subseteq db.files
  BY DEF RowWrite, RegisterTeam, DisbandTeam, HardDeleteTeam, GiveAward, Solve,
         CreateChallenge, HideChallenge, DeleteChallenge, RowsOK, DbRecord
<1> QED
  BY <1>1, <1>2

LEMMA RowWritesKeepInv ==
  ASSUME BackupInv, RowWrite
  PROVE  BackupInv'
<1>1. RowsOK(db)'
  BY RowWritesKeepRows DEF BackupInv
<1>2. Write /\ RowsOnly /\ db'.files \subseteq db.files
  BY RowWritesOnly DEF BackupInv
<1>3. FilesOK' /\ ArchiveOK' /\ ImportOK'
  BY <1>2 DEF RowsOnly, BackupInv, FilesOK, ArchiveOK, ImportOK
<1>4. FreshUploads'
  BY <1>2 DEF RowsOnly, BackupInv, FreshUploads
<1>5. QuietOK'
  BY <1>2 DEF Write, QuietOK
<1>6. UploadsOK'
  BY <1>2, UploadsStay DEF RowsOnly, BackupInv
<1>7. HistoryOK'
  BY <1>2, WriteCounted DEF BackupInv
<1> QED
  BY <1>1, <1>3, <1>4, <1>5, <1>6, <1>7 DEF BackupInv

-----------------------------------------------------------------------------
(* The file use case. *)

LEMMA UploadFileKeepsInv ==
  ASSUME BackupInv, NEW f \in Files, UploadFile(f)
  PROVE  BackupInv'
<1> USE DEF UploadFile
<1>1. RowsOK(db)'
  BY DEF BackupInv, RowsOK, DbRecord, References, FilesOf
<1>2. FilesOK'
  BY DEF BackupInv, FilesOK, Contents
<1>3. ArchiveOK' /\ ImportOK'
  BY DEF BackupInv, ArchiveOK, ImportOK
<1>4. FreshUploads'
  BY DEF BackupInv, FreshUploads, FilesOK
<1>5. QuietOK'
  BY DEF Write, QuietOK
<1>6. UploadsOK'
  <2>1. \A g \in archive.files : Target(g) \in archive.files /\ Target(g) \in Files
    BY TargetInArchive DEF BackupInv, ArchiveOK, ArchiveRecord
  <2>2. \A g \in archive.files : object'[Target(g)] = object[Target(g)]
    BY <2>1 DEF BackupInv, FilesOK
  <2>3. \A g : Target(g)' = Target(g)
    BY DEF Target
  <2> QED
    BY <2>2, <2>3 DEF BackupInv, UploadsOK
<1>7. HistoryOK'
  BY WriteCounted DEF BackupInv
<1> QED
  BY <1>1, <1>2, <1>3, <1>4, <1>5, <1>6, <1>7 DEF BackupInv

LEMMA CreateFileRowKeepsInv ==
  ASSUME BackupInv, NEW f \in Files, CreateFileRow(f)
  PROVE  BackupInv'
<1> USE DEF CreateFileRow
<1>0. step[f] = "upload" /\ f \notin db.files \cup archive.files
  BY DEF BackupInv, FreshUploads
<1>1. RowsOK(db)'
  <2>1. CASE PathOf[f][1] \in DOMAIN db.challenges /\ db' = [db EXCEPT !.files = @ \cup {f}]
    <3>1. RowsOK(WithFiles(db, db.files \cup {f}))
      BY <2>1, FileRows DEF BackupInv
    <3>2. RowsOK(db')
      BY <2>1, <3>1 DEF WithFiles
    <3> QED
      BY <3>2 DEF RowsOK, DbRecord, References, FilesOf
  <2>2. CASE db' = db
    BY <2>2 DEF BackupInv, RowsOK, DbRecord, References, FilesOf
  <2> QED
    BY <2>1, <2>2
<1>2. FilesOK'
  BY DEF BackupInv, FilesOK
<1>3. ArchiveOK' /\ ImportOK'
  BY DEF BackupInv, ArchiveOK, ImportOK
<1>4. FreshUploads'
  <2>1. db'.files \subseteq db.files \cup {f}
    BY DEF BackupInv, RowsOK, DbRecord
  <2>2. \A g \in Files : step'[g] = "upload" => g # f /\ step[g] = "upload"
    BY DEF BackupInv, FilesOK
  <2> QED
    BY <2>1, <2>2 DEF BackupInv, FreshUploads
<1>5. QuietOK'
  <2>1. CASE quiet' = FALSE
    BY <2>1 DEF QuietOK
  <2>2. CASE UNCHANGED <<db, quiet>>
    BY <2>2 DEF BackupInv, QuietOK
  <2> QED
    BY <2>1, <2>2
<1>6. UploadsOK'
  <2>1. \A g \in archive.files : Target(g) \in archive.files /\ Target(g) \in Files
    BY TargetInArchive DEF BackupInv, ArchiveOK, ArchiveRecord
  <2>2. \A g \in archive.files : object'[Target(g)] = object[Target(g)]
    BY <1>0, <2>1 DEF BackupInv, FilesOK
  <2>3. \A g : Target(g)' = Target(g)
    BY DEF Target
  <2> QED
    BY <2>2, <2>3 DEF BackupInv, UploadsOK
<1>7. HistoryOK'
  BY DEF BackupInv, HistoryOK
<1> QED
  BY <1>1, <1>2, <1>3, <1>4, <1>5, <1>6, <1>7 DEF BackupInv

(* A file deleted while an import puts objects in place is no longer its     *)
(* business.                                                                 *)
LEMMA DeleteFileKeepsInv ==
  ASSUME BackupInv, NEW f \in Files, DeleteFile(f)
  PROVE  BackupInv'
<1> USE DEF DeleteFile
<1>1. RowsOK(db)'
  BY DEF BackupInv, RowsOK, DbRecord, References, FilesOf
<1>2. FilesOK'
  BY DEF BackupInv, FilesOK
<1>3. ArchiveOK'
  BY DEF BackupInv, ArchiveOK
<1>0. /\ import' \in ImportRecord
      /\ import'.phase = import.phase /\ import'.validate = import.validate
      /\ import'.todo = import.todo /\ import'.wrong = import.wrong
      /\ import'.failed = import.failed
      /\ import.phase = "upload" => import'.deleted = import.deleted \cup {f}
      /\ import.phase # "upload" => import' = import
  BY DEF BackupInv, ImportOK, ImportRecord
<1>4. ImportOK'
  BY <1>0 DEF BackupInv, ImportOK
<1>5. FreshUploads'
  BY DEF BackupInv, FreshUploads, FilesOK
<1>6. QuietOK'
  BY DEF Write, QuietOK
<1>7. UploadsOK'
  <2>1. \A g \in archive.files : Target(g) \in archive.files /\ Target(g) \in Files
    BY TargetInArchive DEF BackupInv, ArchiveOK, ArchiveRecord
  <2>2. \A g \in archive.files : Target(g) # f => object'[Target(g)] = object[Target(g)]
    BY <2>1 DEF BackupInv, FilesOK
  <2>3. \A g : Target(g)' = Target(g)
    BY DEF Target
  <2> QED
    BY <1>0, <2>2, <2>3 DEF BackupInv, UploadsOK
<1>8. HistoryOK'
  BY WriteCounted DEF BackupInv
<1> QED
  BY <1>1, <1>2, <1>3, <1>4, <1>5, <1>6, <1>7, <1>8 DEF BackupInv

LEMMA DeleteFileRowKeepsInv ==
  ASSUME BackupInv, NEW f \in Files, DeleteFileRow(f)
  PROVE  BackupInv'
<1> USE DEF DeleteFileRow
<1>1. RowsOK(db)'
  <2>1. CASE db' = [db EXCEPT !.files = @ \ {f}]
    <3>1. RowsOK(WithFiles(db, db.files \ {f}))
      BY FileRows DEF BackupInv
    <3>2. RowsOK(db')
      BY <2>1, <3>1 DEF WithFiles
    <3> QED
      BY <3>2 DEF RowsOK, DbRecord, References, FilesOf
  <2>2. CASE db' = db
    BY <2>2 DEF BackupInv, RowsOK, DbRecord, References, FilesOf
  <2> QED
    BY <2>1, <2>2
<1>2. FilesOK'
  BY DEF BackupInv, FilesOK
<1>3. ArchiveOK' /\ ImportOK'
  BY DEF BackupInv, ArchiveOK, ImportOK
<1>4. FreshUploads'
  <2>1. db'.files \subseteq db.files
    BY DEF BackupInv, RowsOK, DbRecord
  <2>2. \A g \in Files : step'[g] = "upload" => step[g] = "upload"
    BY DEF BackupInv, FilesOK
  <2> QED
    BY <2>1, <2>2 DEF BackupInv, FreshUploads
<1>5. QuietOK'
  <2>1. CASE quiet' = FALSE
    BY <2>1 DEF QuietOK
  <2>2. CASE UNCHANGED <<db, quiet>>
    BY <2>2 DEF BackupInv, QuietOK
  <2> QED
    BY <2>1, <2>2
<1>6. UploadsOK'
  <2>1. UNCHANGED <<archive, import, object>>
    OBVIOUS
  <2> QED
    BY <2>1, UploadsStay DEF BackupInv
<1>7. HistoryOK'
  BY DEF BackupInv, HistoryOK
<1> QED
  BY <1>1, <1>2, <1>3, <1>4, <1>5, <1>6, <1>7 DEF BackupInv

-----------------------------------------------------------------------------
(* The export. *)

(* Steps that leave the tables and the file use case alone. *)
LEMMA RowsStay ==
  ASSUME BackupInv, UNCHANGED <<db, step>>
  PROVE  /\ RowsOK(db)'
         /\ object' \in [Files -> Contents \cup {NoObject}] => FilesOK'
BY DEF BackupInv, RowsOK, DbRecord, References, FilesOf, FilesOK

LEMMA StartExportKeepsInv ==
  ASSUME BackupInv, StartExport
  PROVE  BackupInv'
<1> USE DEF StartExport
<1>1. RowsOK(db)' /\ FilesOK'
  BY RowsStay DEF BackupInv, FilesOK
<1>2. ArchiveOK'
  BY NoArchiveOK DEF BackupInv, ArchiveOK, Tables
<1>3. ImportOK'
  BY DEF BackupInv, ImportOK, NoImport
<1>4. FreshUploads'
  BY NoArchiveOK DEF BackupInv, FreshUploads
<1>5. QuietOK'
  BY DEF QuietOK, Tables
<1>6. UploadsOK'
  BY DEF UploadsOK
<1>7. HistoryOK'
  BY DEF BackupInv, HistoryOK
<1> QED
  BY <1>1, <1>2, <1>3, <1>4, <1>5, <1>6, <1>7 DEF BackupInv

LEMMA ArchiveEdit ==
  ASSUME NEW a \in ArchiveRecord, NEW v
  PROVE  /\ [a EXCEPT !.challenges = v] =
               [challenges |-> v, teams |-> a.teams, awards |-> a.awards,
                files |-> a.files, entry |-> a.entry]
         /\ [a EXCEPT !.teams = v] =
               [challenges |-> a.challenges, teams |-> v, awards |-> a.awards,
                files |-> a.files, entry |-> a.entry]
         /\ [a EXCEPT !.awards = v] =
               [challenges |-> a.challenges, teams |-> a.teams, awards |-> v,
                files |-> a.files, entry |-> a.entry]
         /\ [a EXCEPT !.files = v] =
               [challenges |-> a.challenges, teams |-> a.teams, awards |-> a.awards,
                files |-> v, entry |-> a.entry]
         /\ [a EXCEPT !.entry = v] =
               [challenges |-> a.challenges, teams |-> a.teams, awards |-> a.awards,
                files |-> a.files, entry |-> v]
BY DEF ArchiveRecord

(* What one read puts into the archive, and what it leaves. *)
LEMMA ReadTableArchive ==
  ASSUME BackupInv, NEW x \in Tables, ReadTable(x)
  PROVE  /\ archive' \in ArchiveRecord /\ archive'.entry = archive.entry
         /\ archive'.challenges = IF x = "challenges" THEN ExportedChallenges ELSE archive.challenges
         /\ archive'.teams = IF x = "teams" THEN ActiveTeams ELSE archive.teams
         /\ archive'.awards = IF x = "awards" THEN db.awards ELSE archive.awards
         /\ archive'.files = IF x = "files" THEN db.files ELSE archive.files
<1>0. archive \in ArchiveRecord /\ db \in DbRecord
  BY DEF BackupInv, ArchiveOK, RowsOK
<1>1. ExportedChallenges \in Partial(Challenges, ChallengeRow)
  <2>1. db.challenges \in Partial(Challenges, ChallengeRow) /\ Visible \in SUBSET DOMAIN db.challenges
    BY <1>0 DEF DbRecord, Visible
  <2> QED
    BY <2>1, RestrictRows DEF ExportedChallenges
<1>2. ActiveTeams \in SUBSET Teams
  BY <1>0, PartialElim DEF DbRecord, ActiveTeams
<1>3. CASE x = "challenges"
  <2>1. archive' = [archive EXCEPT !.challenges = ExportedChallenges]
    BY <1>3 DEF ReadTable
  <2> HIDE DEF ExportedChallenges
  <2> QED
    BY <1>0, <1>1, <1>3, <2>1, ArchiveEdit DEF ArchiveRecord
<1>4. CASE x = "teams"
  <2>1. archive' = [archive EXCEPT !.teams = ActiveTeams]
    BY <1>4 DEF ReadTable
  <2> QED
    BY <1>0, <1>2, <1>4, <2>1, ArchiveEdit DEF ArchiveRecord
<1>5. CASE x = "awards"
  <2>1. archive' = [archive EXCEPT !.awards = db.awards]
    BY <1>5 DEF ReadTable
  <2> QED
    BY <1>0, <1>5, <2>1, ArchiveEdit DEF ArchiveRecord, DbRecord
<1>6. CASE x = "files"
  <2>1. archive' = [archive EXCEPT !.files = db.files]
    BY <1>6 DEF ReadTable
  <2> QED
    BY <1>0, <1>6, <2>1, ArchiveEdit DEF ArchiveRecord, DbRecord
<1> QED
  BY <1>3, <1>4, <1>5, <1>6 DEF Tables

LEMMA ReadTableKeepsInv ==
  ASSUME BackupInv, NEW x \in Tables, ReadTable(x)
  PROVE  BackupInv'
<1>0. /\ x \in unread /\ unread' = unread \ {x} /\ unread \subseteq Tables
      /\ unsent' = IF x = "files" THEN db.files ELSE unsent
      /\ UNCHANGED <<db, object, step, quiet, import, writes>>
  BY DEF ReadTable, BackupInv, ArchiveOK, Tables
<1>1. RowsOK(db)' /\ FilesOK'
  BY <1>0, RowsStay DEF BackupInv, FilesOK
<1>2. import = NoImport
  BY <1>0 DEF BackupInv, ImportOK
<1>3. ArchiveOK'
  <2>1. CASE x = "files"
    <3>1. archive.files = {} /\ DOMAIN archive.entry = {}
      BY <1>0, <2>1 DEF BackupInv, ArchiveOK
    <3>2. archive'.files = db.files /\ unsent' = db.files /\ DOMAIN archive'.entry = {}
      BY <1>0, <2>1, <3>1, ReadTableArchive
    <3>3. unread' \subseteq Tables /\ unread' # {"start"} /\ "files" \notin unread'
      BY <1>0, <2>1 DEF Tables
    <3> QED
      BY <3>2, <3>3, ReadTableArchive DEF ArchiveOK
  <2>2. CASE x # "files"
    <3>1. archive'.files = archive.files /\ unsent' = unsent /\ archive'.entry = archive.entry
      BY <1>0, <2>2, ReadTableArchive
    <3>2. /\ unread' \subseteq Tables /\ unread' # {"start"}
          /\ "files" \in unread' => "files" \in unread
      BY <1>0 DEF Tables
    <3> QED
      BY <3>1, <3>2, ReadTableArchive DEF ArchiveOK, BackupInv
  <2> QED
    BY <2>1, <2>2
<1>4. ImportOK'
  BY <1>0, <1>2, NoImportOK DEF ImportOK, NoImport
<1>5. FreshUploads'
  BY <1>0, ReadTableArchive DEF BackupInv, FreshUploads
<1>6. QuietOK'
  <2> SUFFICES ASSUME quiet PROVE QuietOK'
    BY <1>0 DEF QuietOK
  <2>1. "challenges" \notin unread' =>
          /\ DOMAIN archive'.challenges \subseteq DOMAIN db.challenges
          /\ \A c \in DOMAIN archive'.challenges : archive'.challenges[c] = db.challenges[c]
    <3>1. CASE x = "challenges"
      <4>1. archive'.challenges = ExportedChallenges
        BY <3>1, ReadTableArchive
      <4> QED
        BY <4>1 DEF ExportedChallenges, Restrict, Visible
    <3>2. CASE x # "challenges"
      BY <1>0, <3>2, ReadTableArchive DEF BackupInv, QuietOK
    <3> QED
      BY <3>1, <3>2
  <2>2. "teams" \notin unread' => archive'.teams \subseteq DOMAIN db.teams
    BY <1>0, ReadTableArchive DEF BackupInv, QuietOK, ActiveTeams
  <2>3. "awards" \notin unread' => archive'.awards \subseteq db.awards
    BY <1>0, ReadTableArchive DEF BackupInv, QuietOK
  <2>4. "files" \notin unread' => archive'.files \subseteq db.files
    BY <1>0, ReadTableArchive DEF BackupInv, QuietOK
  <2> QED
    BY <1>0, <2>1, <2>2, <2>3, <2>4 DEF QuietOK
<1>7. UploadsOK'
  BY <1>0, <1>2 DEF UploadsOK, NoImport
<1>8. HistoryOK'
  BY <1>0 DEF BackupInv, HistoryOK
<1> QED
  BY <1>1, <1>3, <1>4, <1>5, <1>6, <1>7, <1>8 DEF BackupInv

LEMMA StreamFileKeepsInv ==
  ASSUME BackupInv, NEW f \in Files, StreamFile(f)
  PROVE  BackupInv'
<1>0. /\ unread = {} /\ f \in unsent /\ unsent' = unsent \ {f}
      /\ UNCHANGED <<db, object, step, unread, quiet, import, writes>>
  BY DEF StreamFile
<1>1. PICK content \in {IF object[f] = NoObject THEN Blank ELSE object[f], Blank} :
        archive' = [archive EXCEPT !.entry = Put(archive.entry, f, content)]
  BY DEF StreamFile
<1>2. content \in Contents
  BY DEF BackupInv, FilesOK, Contents
<1>3. archive \in ArchiveRecord /\ archive.entry \in Partial(Files, Contents)
  BY DEF BackupInv, ArchiveOK, ArchiveRecord
<1> DEFINE e == Put(archive.entry, f, content)
<1>4. e \in [DOMAIN archive.entry \cup {f} -> Contents] /\ DOMAIN archive.entry \cup {f} \in SUBSET Files
  BY <1>2, <1>3, PartialElim DEF Put
<1> HIDE DEF e
<1>5. e \in Partial(Files, Contents) /\ DOMAIN e = DOMAIN archive.entry \cup {f}
  BY <1>4, PartialFunction
<1>6. archive' = [challenges |-> archive.challenges, teams |-> archive.teams,
                  awards |-> archive.awards, files |-> archive.files, entry |-> e]
  BY <1>1, <1>3, ArchiveEdit DEF e
<1>7. /\ archive' \in ArchiveRecord /\ archive'.files = archive.files /\ archive'.entry = e
      /\ archive'.challenges = archive.challenges /\ archive'.teams = archive.teams
      /\ archive'.awards = archive.awards
  BY <1>3, <1>5, <1>6 DEF ArchiveRecord
<1>8. RowsOK(db)' /\ FilesOK'
  BY <1>0, RowsStay DEF BackupInv, FilesOK
<1>9. ArchiveOK'
  BY <1>0, <1>5, <1>7 DEF BackupInv, ArchiveOK
<1>10. import = NoImport
  BY <1>0 DEF BackupInv, ImportOK
<1>11. ImportOK'
  BY <1>0, <1>10, NoImportOK DEF ImportOK, NoImport
<1>12. FreshUploads'
  BY <1>0, <1>7 DEF BackupInv, FreshUploads
<1>13. QuietOK'
  BY <1>0, <1>7 DEF BackupInv, QuietOK
<1>14. UploadsOK'
  BY <1>0, <1>10 DEF UploadsOK, NoImport
<1>15. HistoryOK'
  BY <1>0 DEF BackupInv, HistoryOK
<1> QED
  BY <1>8, <1>9, <1>11, <1>12, <1>13, <1>14, <1>15 DEF BackupInv

-----------------------------------------------------------------------------
(* The import. *)

Started(j) ==
  /\ j \in ImportRecord
  /\ j.phase = "upload" /\ j.todo = archive.files /\ j.wrong = {}

Refused(j) ==
  /\ j \in ImportRecord
  /\ j.phase = "refused" /\ j.todo = {} /\ j.wrong = {}

Base(erase) == IF erase THEN NoRows ELSE db

(* The outcome of the transaction: all of its rows or none. *)
LEMMA ImportZIPOutcome ==
  ASSUME NEW erase \in BOOLEAN, NEW validate \in BOOLEAN, ImportZIP(erase, validate),
         archive.files \subseteq Files
  PROVE  \/ /\ ReferencesHold(Imported(Base(erase)))
            /\ db' = Imported(Base(erase)) /\ Started(import')
         \/ /\ ~ReferencesHold(Imported(Base(erase)))
            /\ db' = db /\ Refused(import')
<1>1. Refused([NoImport EXCEPT !.phase = "refused"])
  BY DEF NoImport, ImportRecord, Refused
<1>2. Started([NoImport EXCEPT !.phase = "upload", !.validate = validate, !.todo = archive.files])
  <2>1. NoImport \in ImportRecord /\ NoImport.wrong = {}
    BY NoImportOK DEF NoImport
  <2> HIDE DEF NoImport
  <2> QED
    BY <2>1 DEF ImportRecord, Started
<1> QED
  BY <1>1, <1>2 DEF ImportZIP, Base, EraseAllTables

LEMMA ImportZIPKeepsInv ==
  ASSUME BackupInv, NEW erase \in BOOLEAN, NEW validate \in BOOLEAN,
         ImportZIP(erase, validate)
  PROVE  BackupInv'
<1>0. /\ unread = {} /\ unsent = {} /\ import.phase = "none"
      /\ UNCHANGED <<object, step, archive, unread, unsent, quiet, writes>>
  BY DEF ImportZIP
<1>1. RowsOK(Base(erase)) /\ archive \in ArchiveRecord
  BY NoRowsOK DEF BackupInv, ArchiveOK, Base
<1>2. FilesOK' /\ ArchiveOK' /\ HistoryOK'
  BY <1>0 DEF BackupInv, FilesOK, ArchiveOK, HistoryOK
<1>3. archive.files \in SUBSET Files
  BY <1>1 DEF ArchiveRecord
<1>4. CASE /\ ReferencesHold(Imported(Base(erase)))
           /\ db' = Imported(Base(erase)) /\ Started(import')
  <2>1. RowsOK(db')
    BY <1>1, <1>4, ImportKeepsRows
  <2>2. RowsOK(db)'
    BY <2>1 DEF RowsOK, DbRecord, References, FilesOf
  <2>3. db' = ImportedRow(Base(erase))
    BY <1>1, <1>4, ImportedRows DEF RowsOK
  <2>4. ImportOK'
    BY <1>0, <1>3, <1>4 DEF ImportOK, Started
  <2>5. Base(erase).files \subseteq db.files
    BY DEF Base, NoRows
  <2>6. FreshUploads'
    <3>1. db'.files \subseteq db.files \cup archive.files
      BY <2>3, <2>5 DEF ImportedRow, Row
    <3> QED
      BY <1>0, <3>1 DEF BackupInv, FreshUploads
  <2>7. QuietOK'
    <3>1. /\ DOMAIN archive.challenges \subseteq DOMAIN db'.challenges
          /\ \A c \in DOMAIN archive.challenges : archive.challenges[c] = db'.challenges[c]
      BY <2>3 DEF ImportedRow, Row, ImportedChallenges
    <3>2. archive.teams \subseteq DOMAIN db'.teams
      BY <2>3 DEF ImportedRow, Row, ImportedTeams
    <3>3. archive.awards \subseteq db'.awards /\ archive.files \subseteq db'.files
      BY <2>3 DEF ImportedRow, Row
    <3> QED
      BY <1>0, <3>1, <3>2, <3>3 DEF QuietOK
  <2>8. UploadsOK'
    BY <1>0, <1>4 DEF UploadsOK, Started
  <2> QED
    BY <1>2, <2>2, <2>4, <2>6, <2>7, <2>8 DEF BackupInv
<1>5. CASE db' = db /\ Refused(import')
  <2>1. RowsOK(db)'
    BY <1>0, <1>5, RowsStay
  <2>2. ImportOK'
    BY <1>0, <1>3, <1>5 DEF ImportOK, Refused
  <2>3. FreshUploads' /\ QuietOK'
    BY <1>0, <1>5 DEF BackupInv, FreshUploads, QuietOK
  <2>4. UploadsOK'
    BY <1>5 DEF UploadsOK, Refused
  <2> QED
    BY <1>2, <2>1, <2>2, <2>3, <2>4 DEF BackupInv
<1> QED
  BY <1>3, <1>4, <1>5, ImportZIPOutcome

(* While objects are put in place, tables and archive stand still. *)
LEMMA PlacingKeepsInv ==
  ASSUME BackupInv, import.phase = "upload",
         UNCHANGED <<db, step, archive, unread, unsent, quiet, writes>>,
         object' \in [Files -> Contents \cup {NoObject}],
         import' \in ImportRecord, import'.phase = "upload",
         import'.todo \subseteq import.todo, import'.wrong \subseteq import'.todo,
         UploadsOK'
  PROVE  BackupInv'
<1>1. RowsOK(db)' /\ FilesOK'
  BY RowsStay
<1>2. ArchiveOK' /\ HistoryOK'
  BY DEF BackupInv, ArchiveOK, HistoryOK
<1>3. ImportOK'
  BY DEF BackupInv, ImportOK
<1>4. FreshUploads' /\ QuietOK'
  BY DEF BackupInv, FreshUploads, QuietOK
<1> QED
  BY <1>1, <1>2, <1>3, <1>4 DEF BackupInv

(* What one goroutine reports. *)
LEMMA UploadOutcome ==
  ASSUME BackupInv, NEW f \in Files, Upload(f)
  PROVE  /\ import.phase = "upload" /\ f \in import.todo /\ f \notin import.wrong
         /\ UNCHANGED <<db, step, archive, unread, unsent, quiet, writes>>
         /\ import' \in ImportRecord
         /\ import'.phase = "upload" /\ import'.validate = import.validate
         /\ import'.deleted = import.deleted
         /\ \/ /\ object' = [object EXCEPT ![Target(f)] = archive.entry[f]]
               /\ archive.entry[f] = Target(f) \/ ~import.validate
               /\ import'.todo = import.todo \ {f} /\ import'.wrong = import.wrong
               /\ import'.failed = import.failed
            \/ /\ object' = [object EXCEPT ![Target(f)] = archive.entry[f]]
               /\ import'.todo = import.todo /\ import'.wrong = import.wrong \cup {f}
               /\ import'.failed = import.failed
            \/ /\ object' \in {object, [object EXCEPT ![Target(f)] = Blank]}
               /\ import'.todo = import.todo \ {f} /\ import'.wrong = import.wrong
               /\ import'.failed = TRUE
<1>0. import \in ImportRecord
  BY DEF BackupInv, ImportOK
<1>1. /\ import.phase = "upload" /\ f \in import.todo /\ f \notin import.wrong
      /\ UNCHANGED <<db, step, archive, unread, unsent, quiet, writes>>
  BY DEF Upload
<1>2. CASE /\ object' = [object EXCEPT ![Target(f)] = archive.entry[f]]
           /\ archive.entry[f] = Target(f) \/ ~import.validate
           /\ import' = [import EXCEPT !.todo = @ \ {f}]
  BY <1>0, <1>1, <1>2 DEF ImportRecord
<1>3. CASE /\ object' = [object EXCEPT ![Target(f)] = archive.entry[f]]
           /\ import' = [import EXCEPT !.wrong = @ \cup {f}]
  BY <1>0, <1>1, <1>3 DEF ImportRecord
<1>4. CASE /\ object' \in {object, [object EXCEPT ![Target(f)] = Blank]}
           /\ import' = [import EXCEPT !.todo = @ \ {f}, !.failed = TRUE]
  BY <1>0, <1>1, <1>4 DEF ImportRecord
<1> QED
  BY <1>2, <1>3, <1>4 DEF Upload

LEMMA UploadKeepsInv ==
  ASSUME BackupInv, NEW f \in Files, Upload(f)
  PROVE  BackupInv'
<1>1. /\ archive.files \subseteq Files /\ f \in archive.files
      /\ import.todo \subseteq archive.files /\ import.wrong \subseteq import.todo
  BY UploadOutcome DEF BackupInv, ArchiveOK, ArchiveRecord, ImportOK
<1>2. archive.entry[f] \in Contents
  <2>1. DOMAIN archive.entry = archive.files
    BY UploadOutcome DEF BackupInv, ArchiveOK, ImportOK
  <2>2. archive.entry \in [DOMAIN archive.entry -> Contents]
    BY PartialElim DEF BackupInv, ArchiveOK, ArchiveRecord
  <2> QED
    BY <1>1, <2>1, <2>2
<1>3. object \in [Files -> Contents \cup {NoObject}]
  BY DEF BackupInv, FilesOK
<1>4. object' \in [Files -> Contents \cup {NoObject}]
  <2>1. Blank \in Contents
    BY DEF Contents
  <2> QED
    BY <1>2, <1>3, <2>1, UploadOutcome
<1>5. import'.todo \subseteq import.todo /\ import'.wrong \subseteq import'.todo
  BY <1>1, UploadOutcome
<1>6. UploadsOK'
  <2>1. \A g : Target(g)' = Target(g)
    BY UploadOutcome DEF Target
  <2>2. \A g \in archive.files : Target(g) \in Files
    BY <1>1, TargetInArchive
  <2> SUFFICES ASSUME import.validate, ~import'.failed, NEW g \in archive.files \ import'.todo
               PROVE  \/ Target(g) \in import.deleted
                      \/ object'[Target(g)] = Target(g)
                      \/ \E h \in import'.wrong : Target(h) = Target(g)
    BY <2>1, UploadOutcome DEF UploadsOK
  <2>3. CASE /\ object' = [object EXCEPT ![Target(f)] = archive.entry[f]]
             /\ archive.entry[f] = Target(f) \/ ~import.validate
             /\ import'.todo = import.todo \ {f} /\ import'.wrong = import.wrong
             /\ import'.failed = import.failed
    <3>1. CASE Target(g) = Target(f)
      BY <1>1, <1>3, <2>2, <2>3, <3>1
    <3>2. CASE Target(g) # Target(f)
      <4>1. object'[Target(g)] = object[Target(g)] /\ g \notin import.todo
        BY <1>3, <2>2, <2>3, <3>2
      <4> QED
        BY <2>3, <4>1, UploadOutcome DEF BackupInv, UploadsOK
    <3> QED
      BY <3>1, <3>2
  <2>4. CASE /\ object' = [object EXCEPT ![Target(f)] = archive.entry[f]]
             /\ import'.todo = import.todo /\ import'.wrong = import.wrong \cup {f}
             /\ import'.failed = import.failed
    <3>1. CASE Target(g) = Target(f)
      BY <2>4, <3>1
    <3>2. CASE Target(g) # Target(f)
      <4>1. object'[Target(g)] = object[Target(g)] /\ g \notin import.todo
        BY <1>3, <2>2, <2>4, <3>2
      <4> QED
        BY <2>4, <4>1, UploadOutcome DEF BackupInv, UploadsOK
    <3> QED
      BY <3>1, <3>2
  <2> QED
    BY <2>3, <2>4, UploadOutcome
<1> QED
  BY <1>4, <1>5, <1>6, UploadOutcome, PlacingKeepsInv

LEMMA DropWrongKeepsInv ==
  ASSUME BackupInv, NEW f \in Files, DropWrong(f)
  PROVE  BackupInv'
<1>0. import \in ImportRecord /\ object \in [Files -> Contents \cup {NoObject}]
  BY DEF BackupInv, ImportOK, FilesOK
<1>1. import.phase = "upload" /\ import.wrong \subseteq import.todo
  BY DEF DropWrong, BackupInv, ImportOK, NoImport, ImportRecord
<1>2. UNCHANGED <<db, step, archive, unread, unsent, quiet, writes>>
  BY DEF DropWrong
<1>3. /\ import' \in ImportRecord /\ import'.phase = "upload"
      /\ import'.todo = import.todo \ {f} /\ import'.wrong = import.wrong \ {f}
      /\ import'.failed = TRUE
  <2>1. import' = [import EXCEPT !.todo = @ \ {f}, !.wrong = @ \ {f}, !.failed = TRUE]
    BY DEF DropWrong
  <2> QED
    BY <1>0, <1>1, <2>1 DEF ImportRecord
<1>4. object' \in [Files -> Contents \cup {NoObject}]
  BY <1>0 DEF DropWrong
<1>5. UploadsOK'
  BY <1>3 DEF UploadsOK
<1>6. import'.todo \subseteq import.todo /\ import'.wrong \subseteq import'.todo
  BY <1>1, <1>3
<1> QED
  BY <1>1, <1>2, <1>3, <1>4, <1>5, <1>6, PlacingKeepsInv

LEMMA FinishImportKeepsInv ==
  ASSUME BackupInv, FinishImport
  PROVE  BackupInv'
<1>0. /\ import' = NoImport /\ unread' \in {unread, {"start"}}
      /\ import.phase # "none"
      /\ UNCHANGED <<db, object, step, archive, unsent, quiet, writes>>
  BY DEF FinishImport
<1>1. unread = {} /\ unsent = {}
  BY <1>0 DEF BackupInv, ImportOK
<1>2. RowsOK(db)' /\ FilesOK'
  BY <1>0, RowsStay DEF BackupInv, FilesOK
<1>3. ArchiveOK' /\ HistoryOK'
  BY <1>0, <1>1 DEF BackupInv, ArchiveOK, HistoryOK
<1>4. ImportOK'
  BY <1>0, NoImportOK DEF ImportOK, NoImport
<1>5. FreshUploads' /\ QuietOK'
  BY <1>0, <1>1 DEF BackupInv, FreshUploads, QuietOK
<1>6. UploadsOK'
  BY <1>0 DEF UploadsOK, NoImport
<1> QED
  BY <1>2, <1>3, <1>4, <1>5, <1>6 DEF BackupInv

LEMMA NextInv == BackupInv /\ [Next]_vars => BackupInv'
<1> SUFFICES ASSUME BackupInv, [Next]_vars PROVE BackupInv'
  OBVIOUS
<1>1. CASE UNCHANGED vars
  <2>1. RowsOK(db)' /\ FilesOK'
    BY <1>1, RowsStay DEF vars, BackupInv, FilesOK
  <2>2. ArchiveOK' /\ ImportOK'
    BY <1>1 DEF vars, BackupInv, ArchiveOK, ImportOK
  <2>3. FreshUploads' /\ QuietOK' /\ HistoryOK'
    BY <1>1 DEF vars, BackupInv, FreshUploads, QuietOK, HistoryOK
  <2>4. UploadsOK'
    <3>1. UNCHANGED <<archive, import, object>>
      BY <1>1 DEF vars
    <3> QED
      BY <3>1, UploadsStay DEF BackupInv
  <2> QED
    BY <2>1, <2>2, <2>3, <2>4 DEF BackupInv
<1>2. CASE RowWrite
  BY <1>2, RowWritesKeepInv
<1>3. ASSUME NEW f \in Files,
             UploadFile(f) \/ CreateFileRow(f) \/ DeleteFile(f) \/ DeleteFileRow(f)
      PROVE  BackupInv'
  BY <1>3, UploadFileKeepsInv, CreateFileRowKeepsInv, DeleteFileKeepsInv, DeleteFileRowKeepsInv
<1>4. ASSUME NEW f \in Files, StreamFile(f) \/ Upload(f) \/ DropWrong(f)
      PROVE  BackupInv'
  BY <1>4, StreamFileKeepsInv, UploadKeepsInv, DropWrongKeepsInv
<1>5. ASSUME NEW x \in Tables, ReadTable(x) PROVE BackupInv'
  BY <1>5, ReadTableKeepsInv
<1>6. ASSUME NEW erase \in BOOLEAN, NEW validate \in BOOLEAN, ImportZIP(erase, validate)
      PROVE  BackupInv'
  BY <1>6, ImportZIPKeepsInv
<1>7. CASE StartExport \/ FinishImport
  BY <1>7, StartExportKeepsInv, FinishImportKeepsInv
<1> QED
  BY <1>1, <1>2, <1>3, <1>4, <1>5, <1>6, <1>7 DEF Next, RowWrite

-----------------------------------------------------------------------------
(* The theorems. *)

(* Export, import, file operations and row writes keep the invariant. *)
THEOREM BackupInvHolds == Spec => []BackupInv
<1> QED
  BY InitInv, NextInv, PTL DEF Spec

(* Types of the tables, of the archive and of an import; the references of   *)
(* the tables hold, and an entry of the archive belongs to one of its files. *)
THEOREM BackupTypeOK == Spec => []TypeOK
<1> QED
  BY BackupInvHolds, InvTypes, PTL

(* A validated import that reports no error has every object in place, in    *)
(* whatever order its goroutines ran.                                        *)
THEOREM ValidatedImportHolds == Spec => []ValidatedImportIsSound
<1>1. BackupInv => ValidatedImportIsSound
  <2> SUFFICES ASSUME BackupInv, import.phase = "upload", import.validate,
                      import.todo = {}, ~import.failed, NEW f \in archive.files
               PROVE  Target(f) \in import.deleted \/ object[Target(f)] = Target(f)
    BY DEF ValidatedImportIsSound
  <2>1. import.wrong = {} /\ f \in archive.files \ import.todo
    BY DEF BackupInv, ImportOK
  <2> QED
    BY <2>1 DEF BackupInv, UploadsOK
<1> QED
  BY <1>1, BackupInvHolds, PTL

(* Importing rows the tables already hold. *)
LEMMA QuietImportIsNoOp ==
  ASSUME BackupInv, quiet, unread = {}
  PROVE  Imported(db) = db /\ ReferencesHold(Imported(db))
<1>0. db \in DbRecord /\ RowsOK(db)
  BY DEF BackupInv, RowsOK
<1>1. db = Row(db.users, db.teams, db.awards, db.challenges, db.solves, db.files)
  BY <1>0, RowFields
<1>2. ImportedTeams(db) = db.teams
  <2>1. db.teams \in [DOMAIN db.teams -> {"active", "deleted"}]
    BY <1>0, PartialElim DEF DbRecord
  <2>2. DOMAIN db.teams \cup archive.teams = DOMAIN db.teams
    BY DEF BackupInv, QuietOK
  <2>3. ImportedTeams(db) = [t \in DOMAIN db.teams |-> db.teams[t]]
    BY <2>2 DEF ImportedTeams
  <2> QED
    BY <2>1, <2>3
<1>3. ImportedChallenges(db) = db.challenges
  <2>1. db.challenges \in [DOMAIN db.challenges -> ChallengeRow]
    BY <1>0, PartialElim DEF DbRecord
  <2>2. /\ DOMAIN db.challenges \cup DOMAIN archive.challenges = DOMAIN db.challenges
        /\ \A c \in DOMAIN archive.challenges : archive.challenges[c] = db.challenges[c]
    BY DEF BackupInv, QuietOK
  <2>3. ImportedChallenges(db) = [c \in DOMAIN db.challenges |-> db.challenges[c]]
    BY <2>2 DEF ImportedChallenges
  <2> QED
    BY <2>1, <2>3
<1>4. db.awards \cup archive.awards = db.awards /\ db.files \cup archive.files = db.files
  BY DEF BackupInv, QuietOK
<1>5. ImportedRow(db) = Row(db.users, db.teams, db.awards, db.challenges, db.solves, db.files)
  BY <1>2, <1>3, <1>4 DEF ImportedRow
<1>6. Imported(db) = db
  BY <1>0, <1>1, <1>5, ImportedRows
<1>7. ReferencesHold(db)
  BY <1>0 DEF RowsOK, References, FilesOf, ReferencesHold
<1> QED
  BY <1>6, <1>7

LEMMA QuietRoundTrip ==
  ASSUME BackupInv, quiet, NEW validate \in BOOLEAN, ImportZIP(FALSE, validate)
  PROVE  import'.phase = "upload" /\ db' = db
<1>1. archive.files \subseteq Files
  BY DEF BackupInv, ArchiveOK, ArchiveRecord
<1>2. Base(FALSE) = db
  BY DEF Base
<1>3. Imported(db) = db /\ ReferencesHold(Imported(db))
  BY QuietImportIsNoOp DEF ImportZIP
<1> QED
  BY <1>1, <1>2, <1>3, ImportZIPOutcome DEF Started

(* What an import that nothing disturbed restores is what is there. *)
THEOREM RoundTrip == Spec => RoundTripIsNoOp
<1>1. BackupInv /\ [Next]_vars =>
        [quiet /\ (\E validate \in BOOLEAN : ImportZIP(FALSE, validate)) =>
           import'.phase = "upload" /\ db' = db]_vars
  BY QuietRoundTrip
<1> QED
  BY <1>1, BackupInvHolds, PTL DEF Spec, RoundTripIsNoOp

(* Only ImportZIP begins an import. *)
LEMMA ImportBegins ==
  ASSUME BackupInv, [Next]_vars, Importing
  PROVE  \E erase, validate \in BOOLEAN : ImportZIP(erase, validate)
<1>1. CASE UNCHANGED vars
  BY <1>1 DEF vars, Importing
<1>2. CASE RowWrite
  BY <1>2, RowWritesOnly DEF RowsOnly, Importing, BackupInv
<1>3. CASE StartExport \/ \E x \in Tables : ReadTable(x)
  BY <1>3 DEF StartExport, ReadTable, Importing
<1>4. ASSUME NEW f \in Files,
             \/ UploadFile(f) \/ CreateFileRow(f) \/ DeleteFile(f) \/ DeleteFileRow(f)
             \/ StreamFile(f)
      PROVE  FALSE
  <2>1. import' = import \/ import' = [import EXCEPT !.deleted =
                               IF import.phase = "upload" THEN @ \cup {f} ELSE @]
    BY <1>4 DEF UploadFile, CreateFileRow, DeleteFile, DeleteFileRow, StreamFile
  <2>2. import'.phase = import.phase
    BY <2>1 DEF BackupInv, ImportOK, ImportRecord
  <2> QED
    BY <2>2 DEF Importing
<1>5. ASSUME NEW f \in Files, Upload(f) PROVE FALSE
  BY <1>5 DEF Upload, Importing
<1>6. ASSUME NEW f \in Files, DropWrong(f) PROVE FALSE
  BY <1>6 DEF DropWrong, Importing, BackupInv, ImportOK, NoImport
<1>7. CASE FinishImport
  BY <1>7 DEF FinishImport, Importing
<1> QED
  BY <1>1, <1>2, <1>3, <1>4, <1>5, <1>6, <1>7 DEF Next, RowWrite

LEMMA ImportKeeps ==
  ASSUME BackupInv, NEW validate \in BOOLEAN, ImportZIP(FALSE, validate),
         db' = Imported(db)
  PROVE  Kept
<1>1. db' = ImportedRow(db)
  BY ImportedRows DEF BackupInv, RowsOK
<1>2. \A t \in DOMAIN db.teams : t \in DOMAIN db'.teams /\ db'.teams[t] = db.teams[t]
  BY <1>1 DEF ImportedRow, Row, ImportedTeams
<1> QED
  BY <1>1, <1>2 DEF Kept, ImportedRow, Row

(* No archive holds users, so an import over erased tables has no teams to   *)
(* refer to, and with them no awards.                                        *)
LEMMA ImportReplaces ==
  ASSUME BackupInv, ReferencesHold(Imported(NoRows)), db' = Imported(NoRows)
  PROVE  Replaced
<1>1. db' = ImportedRow(NoRows) /\ ReferencesHold(db')
  BY NoRowsOK, ImportedRows
<1>2. ImportedRow(NoRows) =
        Row({}, ImportedTeams(NoRows), archive.awards, ImportedChallenges(NoRows), {}, archive.files)
  BY DEF ImportedRow, NoRows
<1>3. DOMAIN ImportedTeams(NoRows) = archive.teams
  BY DEF ImportedTeams, NoRows
<1>4. archive.teams = {} /\ archive.awards = {}
  <2>1. DOMAIN ImportedTeams(NoRows) \subseteq {} /\ archive.awards \subseteq DOMAIN ImportedTeams(NoRows)
    BY <1>1, <1>2 DEF ReferencesHold, Row
  <2> QED
    BY <1>3, <2>1
<1>5. ImportedTeams(NoRows) = NoRows.teams
  BY <1>4 DEF ImportedTeams, NoRows
<1>6. ImportedChallenges(NoRows) = archive.challenges
  <2>1. archive.challenges \in [DOMAIN archive.challenges -> ChallengeRow]
    BY PartialElim DEF BackupInv, ArchiveOK, ArchiveRecord
  <2>2. ImportedChallenges(NoRows) = [c \in DOMAIN archive.challenges |-> archive.challenges[c]]
    BY DEF ImportedChallenges, NoRows
  <2> QED
    BY <2>1, <2>2
<1>7. [NoRows EXCEPT !.challenges = archive.challenges, !.files = archive.files] =
        Row({}, NoRows.teams, {}, archive.challenges, {}, archive.files)
  <2>1. NoRows = Row({}, NoRows.teams, {}, NoRows.challenges, {}, {})
    BY DEF NoRows, Row
  <2>2. WithChallenges(NoRows, archive.challenges) =
          Row({}, NoRows.teams, {}, archive.challenges, {}, {})
    BY <2>1, RowEdit
  <2>3. WithFiles(WithChallenges(NoRows, archive.challenges), archive.files) =
          Row({}, NoRows.teams, {}, archive.challenges, {}, archive.files)
    BY <2>2, RowEdit
  <2>4. [NoRows EXCEPT !.challenges = archive.challenges, !.files = archive.files] =
          WithFiles(WithChallenges(NoRows, archive.challenges), archive.files)
    <3>1. NoRows \in DbRecord
      BY NoRowsOK
    <3> HIDE DEF NoRows
    <3> QED
      BY <3>1 DEF DbRecord, WithChallenges, WithFiles
  <2> QED
    BY <2>3, <2>4
<1>8. db' = Row({}, NoRows.teams, {}, archive.challenges, {}, archive.files)
  BY <1>1, <1>2, <1>4, <1>5, <1>6
<1> QED
  BY <1>4, <1>7, <1>8 DEF Replaced

(* An import takes effect whole or not at all, and never in between: nothing *)
(* is lost unless it erases, and what erases brings no team back.            *)
THEOREM ImportIsAllOrNothing == Spec => ImportKeepsOrReplaces
<1>1. ASSUME BackupInv, [Next]_vars, Importing
      PROVE  IF import'.phase = "refused" THEN db' = db ELSE Kept \/ Replaced
  <2>1. PICK erase \in BOOLEAN, validate \in BOOLEAN : ImportZIP(erase, validate)
    BY <1>1, ImportBegins
  <2>2. archive.files \subseteq Files
    BY <1>1 DEF BackupInv, ArchiveOK, ArchiveRecord
  <2>3. CASE /\ ReferencesHold(Imported(Base(erase)))
             /\ db' = Imported(Base(erase)) /\ Started(import')
    <3>1. CASE erase = TRUE
      BY <1>1, <2>3, <3>1, ImportReplaces DEF Base, Started
    <3>2. CASE erase = FALSE
      BY <1>1, <2>1, <2>3, <3>2, ImportKeeps DEF Base, Started
    <3> QED
      BY <3>1, <3>2
  <2>4. CASE db' = db /\ Refused(import')
    BY <2>4 DEF Refused
  <2> QED
    BY <2>1, <2>2, <2>3, <2>4, ImportZIPOutcome
<1>2. BackupInv /\ [Next]_vars =>
        [Importing => IF import'.phase = "refused" THEN db' = db ELSE Kept \/ Replaced]_vars
  BY <1>1
<1> QED
  BY <1>2, BackupInvHolds, PTL DEF Spec, ImportKeepsOrReplaces
=============================================================================
