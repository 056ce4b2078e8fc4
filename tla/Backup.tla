------------------------------- MODULE Backup -------------------------------
(* ZIP export and import (internal/usecase/competition/backup.go) with the   *)
(* file use case (internal/usecase/challenge/file.go).  Export reads table   *)
(* after table without a snapshot and then streams the stored objects;       *)
(* import writes the rows in one transaction and then the objects, each in   *)
(* a goroutine of its own.  A captain stands for its team's user row, and a  *)
(* file's number for its row, its location and its content.                  *)
EXTENDS Naturals, FiniteSetsExt, Functions

CONSTANTS Teams, Challenges,
          Files,      \* numbers in the order the files were uploaded
          PathOf,     \* challenge and file name of each file
          Blank,      \* content of an empty or cut off object
          NoObject,
          MaxWrites   \* bound: writes of players and administrators

ASSUME FileNumbers == Files \subseteq Nat /\ Blank \notin Files /\ NoObject \notin Files
ASSUME FilePaths == PathOf \in [Files -> Challenges \X STRING]
ASSUME WritesBounded == MaxWrites \in Nat
(* Bound: solve_count is modelled up to the number of teams. *)
ASSUME TeamsFinite == IsFiniteSet(Teams)

VARIABLES db,       \* the tables an import writes
          object,   \* object storage: content at each file's location
          step,     \* Upload and Delete of the file use case under way
          archive,  \* the exported archive
          unread,   \* tables the running export has still to read
          unsent,   \* files the running export has still to stream
          quiet,    \* history: nothing was written since the export began
          import,   \* the running or last import
          writes

vars == <<db, object, step, archive, unread, unsent, quiet, import, writes>>

Tables == {"challenges", "teams", "awards", "files"}
ChallengeRow == [count : 0..Cardinality(Teams), hidden : BOOLEAN]
Contents == Files \cup {Blank}
Partial(S, T) == UNION {[D -> T] : D \in SUBSET S}

TypeOK ==
  /\ db.users \subseteq Teams
  /\ db.teams \in Partial(Teams, {"active", "deleted"}) /\ DOMAIN db.teams \subseteq db.users
  /\ db.awards \subseteq DOMAIN db.teams
  /\ db.challenges \in Partial(Challenges, ChallengeRow)
  /\ db.solves \subseteq (DOMAIN db.teams) \X (DOMAIN db.challenges)
  /\ db.files \subseteq {f \in Files : PathOf[f][1] \in DOMAIN db.challenges}
  /\ object \in [Files -> Contents \cup {NoObject}]
  /\ step \in [Files -> {"none", "upload", "delete"}]
  /\ unread \subseteq Tables \cup {"start"} /\ unsent \subseteq archive.files
  /\ archive.entry \in Partial(archive.files, Contents)
  /\ import.todo \subseteq archive.files
  /\ import.wrong \subseteq import.todo
  /\ quiet \in BOOLEAN /\ writes \in 0..MaxWrites

NoArchive == [challenges |-> [c \in {} |-> 0], teams |-> {}, awards |-> {},
              files |-> {}, entry |-> [f \in {} |-> 0]]
NoImport == [phase |-> "none", validate |-> FALSE, todo |-> {}, wrong |-> {},
             failed |-> FALSE, deleted |-> {}]
NoRows == [users |-> {}, teams |-> [t \in {} |-> 0], awards |-> {},
           challenges |-> [c \in {} |-> 0], solves |-> {}, files |-> {}]

Init ==
  /\ db = NoRows
  /\ object = [f \in Files |-> NoObject] /\ step = [f \in Files |-> "none"]
  /\ archive = NoArchive /\ unread = {"start"} /\ unsent = {}
  /\ quiet = FALSE /\ import = NoImport /\ writes = 0

----------------------------------------------------------------------------
(* What players and administrators do meanwhile.                             *)
Write == writes < MaxWrites /\ writes' = writes + 1 /\ quiet' = FALSE
Put(f, k, v) == [x \in DOMAIN f \cup {k} |-> IF x = k THEN v ELSE f[x]]
RowsOnly == UNCHANGED <<object, step, archive, unread, unsent, import>>

RegisterTeam(t) ==
  /\ Write /\ t \notin DOMAIN db.teams /\ t \notin db.users
  /\ db' = [db EXCEPT !.users = @ \cup {t}, !.teams = Put(@, t, "active")]
  /\ RowsOnly

DisbandTeam(t) ==
  /\ Write /\ t \in DOMAIN db.teams /\ db.teams[t] = "active"
  /\ db' = [db EXCEPT !.teams[t] = "deleted"]
  /\ RowsOnly

HardDeleteTeam(t) ==
  /\ Write /\ t \in DOMAIN db.teams /\ db.teams[t] = "deleted"
  /\ db' = [db EXCEPT !.teams = Restrict(@, DOMAIN @ \ {t}), !.awards = @ \ {t},
                      !.solves = {s \in @ : s[1] # t}]
  /\ RowsOnly

GiveAward(t) ==
  /\ Write /\ t \in DOMAIN db.teams
  /\ db' = [db EXCEPT !.awards = @ \cup {t}]
  /\ RowsOnly

CreateChallenge(c) ==
  /\ Write /\ c \notin DOMAIN db.challenges
  /\ db' = [db EXCEPT !.challenges = Put(@, c, [count |-> 0, hidden |-> FALSE])]
  /\ RowsOnly

HideChallenge(c) ==
  /\ Write /\ c \in DOMAIN db.challenges
  /\ db' = [db EXCEPT !.challenges[c].hidden = ~@]
  /\ RowsOnly

DeleteChallenge(c) ==
  /\ Write /\ c \in DOMAIN db.challenges
  /\ db' = [db EXCEPT !.challenges = Restrict(@, DOMAIN @ \ {c}),
                      !.solves = {s \in @ : s[2] # c},
                      !.files = {f \in @ : PathOf[f][1] # c}]
  /\ RowsOnly

Solve(t, c) ==
  /\ Write /\ t \in DOMAIN db.teams /\ db.teams[t] = "active"
  /\ c \in DOMAIN db.challenges /\ ~db.challenges[c].hidden /\ <<t, c>> \notin db.solves
  /\ db.challenges[c].count < Cardinality(Teams)
  /\ db' = [db EXCEPT !.solves = @ \cup {<<t, c>>}, !.challenges[c].count = @ + 1]
  /\ RowsOnly

----------------------------------------------------------------------------
(* The file use case: object first, then row; object first again on Delete.  *)
(* A location is random: no upload meets one that an archive knows.          *)
UploadFile(f) ==
  /\ Write /\ step[f] = "none" /\ object[f] = NoObject
  /\ f \notin db.files \cup archive.files
  /\ object' = [object EXCEPT ![f] = f] /\ step' = [step EXCEPT ![f] = "upload"]
  /\ UNCHANGED <<db, archive, unread, unsent, import>>

CreateFileRow(f) ==
  /\ step[f] = "upload" /\ step' = [step EXCEPT ![f] = "none"]
  /\ \/ /\ PathOf[f][1] \in DOMAIN db.challenges
        /\ db' = [db EXCEPT !.files = @ \cup {f}] /\ quiet' = FALSE
        /\ UNCHANGED object
     \/ /\ object' = [object EXCEPT ![f] = NoObject] /\ UNCHANGED <<db, quiet>>
     \/ UNCHANGED <<db, object, quiet>>
  /\ UNCHANGED <<archive, unread, unsent, import, writes>>

DeleteFile(f) ==
  /\ Write /\ step[f] = "none" /\ f \in db.files
  /\ object' = [object EXCEPT ![f] = NoObject] /\ step' = [step EXCEPT ![f] = "delete"]
  /\ import' = [import EXCEPT !.deleted = IF import.phase = "upload" THEN @ \cup {f} ELSE @]
  /\ UNCHANGED <<db, archive, unread, unsent>>

DeleteFileRow(f) ==
  /\ step[f] = "delete" /\ step' = [step EXCEPT ![f] = "none"]
  /\ \/ db' = [db EXCEPT !.files = @ \ {f}] /\ quiet' = FALSE
     \/ UNCHANGED <<db, quiet>>
  /\ UNCHANGED <<object, archive, unread, unsent, import, writes>>

----------------------------------------------------------------------------
(* Export.  GetAll of challenges leaves out the hidden ones, GetAll of teams *)
(* the deleted ones; awards and files are exported whole.  Users, solves and *)
(* unlocked hints are not part of a ZIP.                                     *)
Visible == {c \in DOMAIN db.challenges : ~db.challenges[c].hidden}
ActiveTeams == {t \in DOMAIN db.teams : db.teams[t] = "active"}

StartExport ==
  /\ unread = {"start"} /\ import.phase = "none"
  /\ unread' = Tables /\ quiet' = TRUE /\ archive' = NoArchive
  /\ UNCHANGED <<db, object, step, unsent, import, writes>>

(* Variant: the export forgets solve_count. *)
ExportedWithoutCount ==
  [c \in Visible |-> [db.challenges[c] EXCEPT !.count = 0]]
ExportedChallenges == Restrict(db.challenges, Visible)

ReadTable(x) ==
  /\ x \in unread \ {"start"} /\ unread' = unread \ {x}
  /\ archive' = CASE x = "challenges" -> [archive EXCEPT !.challenges = ExportedChallenges]
                  [] x = "teams"      -> [archive EXCEPT !.teams = ActiveTeams]
                  [] x = "awards"     -> [archive EXCEPT !.awards = db.awards]
                  [] x = "files"      -> [archive EXCEPT !.files = db.files]
  /\ unsent' = IF x = "files" THEN db.files ELSE unsent
  /\ UNCHANGED <<db, object, step, quiet, import, writes>>

(* The entry is created before the download, and stays blank if that fails.  *)
StreamFile(f) ==
  /\ unread = {} /\ f \in unsent /\ unsent' = unsent \ {f}
  /\ \E content \in {IF object[f] = NoObject THEN Blank ELSE object[f], Blank} :
       archive' = [archive EXCEPT !.entry = Put(@, f, content)]
  /\ UNCHANGED <<db, object, step, unread, quiet, import, writes>>

----------------------------------------------------------------------------
(* Variant: the users are kept. *)
EraseAllButUsers(d) == [NoRows EXCEPT !.users = d.users]
(* Import: one transaction, in the order of importZIPRunTxImports.           *)
EraseAllTables(d) == NoRows

ImportChallenges(d) == [d EXCEPT !.challenges =
  [c \in DOMAIN @ \cup DOMAIN archive.challenges |->
     IF c \in DOMAIN archive.challenges THEN archive.challenges[c] ELSE @[c]]]
ImportTeams(d) == [d EXCEPT !.teams =
  [t \in DOMAIN @ \cup archive.teams |-> IF t \in DOMAIN @ THEN @[t] ELSE "active"]]
ImportAwards(d) == [d EXCEPT !.awards = @ \cup archive.awards]
ImportFileMetadata(d) == [d EXCEPT !.files = @ \cup archive.files]

Imported(d) == ImportFileMetadata(ImportAwards(ImportTeams(ImportChallenges(d))))
(* Variant: no foreign key from awards to teams. *)
AnyAward(d) ==
  /\ DOMAIN d.teams \subseteq d.users
  /\ \A f \in d.files : PathOf[f][1] \in DOMAIN d.challenges
(* A row that refers to nothing fails the transaction, which is rolled back. *)
ReferencesHold(d) ==
  /\ DOMAIN d.teams \subseteq d.users
  /\ d.awards \subseteq DOMAIN d.teams
  /\ \A f \in d.files : PathOf[f][1] \in DOMAIN d.challenges

(* importFilesBuildFileMap: of the files of one path the oldest comes last.  *)
Target(f) == Min({g \in archive.files : PathOf[g] = PathOf[f]})

ImportZIP(erase, validate) ==
  LET rows == Imported(IF erase THEN EraseAllTables(db) ELSE db) IN
  /\ unread = {} /\ unsent = {} /\ import.phase = "none"
  /\ IF ReferencesHold(rows)
     THEN /\ db' = rows
          /\ import' = [NoImport EXCEPT !.phase = "upload", !.validate = validate,
                                        !.todo = archive.files]
     ELSE /\ import' = [NoImport EXCEPT !.phase = "refused"] /\ UNCHANGED db
  /\ UNCHANGED <<object, step, archive, unread, unsent, quiet, writes>>

(* One entry written over its target, or the write fails or is cut off.      *)
Upload(f) ==
  LET ok == archive.entry[f] = Target(f) IN
  /\ import.phase = "upload" /\ f \in import.todo \ import.wrong
  /\ \/ /\ object' = [object EXCEPT ![Target(f)] = archive.entry[f]]
        /\ import' = IF ok \/ ~import.validate
                     THEN [import EXCEPT !.todo = @ \ {f}]
                     ELSE [import EXCEPT !.wrong = @ \cup {f}]
     \/ /\ object' \in {object, [object EXCEPT ![Target(f)] = Blank]}
        /\ import' = [import EXCEPT !.todo = @ \ {f}, !.failed = TRUE]
  /\ UNCHANGED <<db, step, archive, unread, unsent, quiet, writes>>

(* Variant: the object is deleted, the error is not reported. *)
DropQuietly(f) ==
  /\ f \in import.wrong
  /\ object' \in {object, [object EXCEPT ![Target(f)] = NoObject]}
  /\ import' = [import EXCEPT !.todo = @ \ {f}, !.wrong = @ \ {f}]
  /\ UNCHANGED <<db, step, archive, unread, unsent, quiet, writes>>
(* The hash differs: the object is deleted and the error reported.           *)
DropWrong(f) ==
  /\ f \in import.wrong
  /\ object' \in {object, [object EXCEPT ![Target(f)] = NoObject]}
  /\ import' = [import EXCEPT !.todo = @ \ {f}, !.wrong = @ \ {f}, !.failed = TRUE]
  /\ UNCHANGED <<db, step, archive, unread, unsent, quiet, writes>>

(* The answer is given; another export or import of the archive may follow.  *)
FinishImport ==
  /\ import.phase \in {"upload", "refused"} /\ import.todo = {}
  /\ import' = NoImport
  /\ unread' \in {unread, {"start"}}
  /\ UNCHANGED <<db, object, step, archive, unsent, quiet, writes>>

Next ==
  \/ StartExport \/ FinishImport
  \/ \E t \in Teams : \/ RegisterTeam(t) \/ DisbandTeam(t) \/ HardDeleteTeam(t) \/ GiveAward(t)
                      \/ \E c \in Challenges : Solve(t, c)
  \/ \E c \in Challenges : CreateChallenge(c) \/ HideChallenge(c) \/ DeleteChallenge(c)
  \/ \E f \in Files : \/ UploadFile(f) \/ CreateFileRow(f) \/ DeleteFile(f) \/ DeleteFileRow(f)
                      \/ StreamFile(f) \/ Upload(f) \/ DropWrong(f)
  \/ \E x \in Tables : ReadTable(x)
  \/ \E erase, validate \in BOOLEAN : ImportZIP(erase, validate)

Spec == Init /\ [][Next]_vars

----------------------------------------------------------------------------
Importing == import.phase = "none" /\ import'.phase # "none"

(* An archive taken while nobody writes, and imported before anybody does    *)
(* over the rows it was taken from, is accepted and changes no row.          *)
RoundTripIsNoOp ==
  [][quiet /\ (\E validate \in BOOLEAN : ImportZIP(FALSE, validate)) =>
       import'.phase = "upload" /\ db' = db]_vars

(* An import that is refused changes nothing.  One that keeps existing rows  *)
(* loses none.  One that erases brings back challenges and files only: users *)
(* are erased too, no archive holds them, and no team can be without one.    *)
Kept == /\ db'.users = db.users /\ db'.solves = db.solves
        /\ \A t \in DOMAIN db.teams : t \in DOMAIN db'.teams /\ db'.teams[t] = db.teams[t]
        /\ db.awards \subseteq db'.awards /\ db.files \subseteq db'.files
Replaced == /\ db' = [NoRows EXCEPT !.challenges = archive.challenges, !.files = archive.files]
            /\ archive.teams = {} /\ archive.awards = {}
ImportKeepsOrReplaces ==
  [][Importing => IF import'.phase = "refused" THEN db' = db ELSE Kept \/ Replaced]_vars

(* An import with validate_files that reports no error has put the right     *)
(* object at the location of every file it wrote, whatever order its         *)
(* goroutines ran in, unless an administrator deleted the file meanwhile.    *)
ValidatedImportIsSound ==
  import.phase = "upload" /\ import.validate /\ import.todo = {} /\ ~import.failed =>
    \A f \in archive.files : Target(f) \in import.deleted \/ object[Target(f)] = Target(f)
=============================================================================
