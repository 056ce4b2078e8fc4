----------------------------- MODULE AccountMail -----------------------------
(* Registration and the links of e-mails (internal/usecase/user/user.go,      *)
(* internal/usecase/email/email.go) over the asynchronous mailer.  Every      *)
(* statement is a transaction of its own, so that calls for one account mix   *)
(* statement by statement, fail between two of them, or vanish in a restart.  *)
(* The links are numbered as they are created; link k says whose it is.       *)
EXTENDS AsyncMailer, Functions

CONSTANTS Users, Calls,
          MaxLinks   \* bound: links ever created

ASSUME LinksBounded == MaxLinks \in Nat /\ NoMail \notin 1..MaxLinks

VARIABLES account,   \* users: none, unverified, verified
          password,  \* 0, or the link that set it
          link,      \* user and type of every link created so far
          live,      \* rows of verification_tokens
          call,      \* the calls under way
          used,      \* history: links through which a call reported success
          sends,     \* history: how the sends of a user and type have ended
          lost       \* history: mail that was in the queue at a crash

accountVars == <<account, password, link, live, call, used, sends, lost>>
vars == <<mailerVars, accountVars>>

Types == {"verify", "reset"}
Pairs == Users \X Types
Links == 1..Len(link)
Sending == {"insert", "check", "enqueue"}
Redeeming == {"apply", "clean"}
Idle == [at |-> "idle", pair |-> <<>>, link |-> 0]

AccountInit ==
  /\ account = [u \in Users |-> "none"] /\ password = [u \in Users |-> 0]
  /\ link = <<>> /\ live = {} /\ used = {} /\ lost = {}
  /\ call = [h \in Calls |-> Idle] /\ sends = [p \in Pairs |-> "none"]
Init == MailerInit /\ AccountInit

Goto(h, at) == call' = [call EXCEPT ![h].at = at]
Return(h) == call' = [call EXCEPT ![h] = Idle]
Busy(p) == \E h \in Calls : call[h].pair = p /\ call[h].at \in Sending
Owned(p) == {k \in live : link[k] = p}

----------------------------------------------------------------------------
(* Register: the name and the address are free, then the row is inserted if   *)
(* they still are, then custom fields may fail, then the mail is sent.        *)
Register(h, u) ==
  /\ call[h] = Idle /\ account[u] = "none"
  /\ call' = [call EXCEPT ![h] = [Idle EXCEPT !.at = "create", !.pair = <<u, "verify">>]]
  /\ UNCHANGED <<mailerVars, account, password, link, live, used, sends, lost>>

CreateUser(h) ==
  LET u == call[h].pair[1] IN
  /\ call[h].at = "create"
  /\ \/ /\ account[u] = "none" /\ account' = [account EXCEPT ![u] = "unverified"]
        /\ \/ Goto(h, "delete")
           \/ Return(h)
     \/ /\ Return(h) /\ UNCHANGED account
  /\ UNCHANGED <<mailerVars, password, link, live, used, sends, lost>>

(* ResendVerification and SendPasswordResetEmail.                             *)
AskForLink(h, p) ==
  /\ call[h] = Idle /\ account[p[1]] # "none"
  /\ p[2] = "verify" => account[p[1]] # "verified"
  /\ call' = [call EXCEPT ![h] = [Idle EXCEPT !.at = "delete", !.pair = p]]
  /\ UNCHANGED <<mailerVars, account, password, link, live, used, sends, lost>>

(* The common tail of both: delete the old links, create one, mail it.        *)
DeleteOldLinks(h) ==
  LET p == call[h].pair IN
  /\ call[h].at = "delete" /\ Goto(h, "insert")
  /\ live' = live \ Owned(p)
  /\ sends' = IF Busy(p) THEN sends ELSE [sends EXCEPT ![p] = "none"]
  /\ UNCHANGED <<mailerVars, account, password, link, used, lost>>

CreateLink(h) ==
  LET k == Len(link) + 1 IN
  /\ call[h].at = "insert" /\ k <= MaxLinks
  /\ link' = Append(link, call[h].pair) /\ live' = live \cup {k}
  /\ call' = [call EXCEPT ![h].at = "check", ![h].link = k]
  /\ UNCHANGED <<mailerVars, account, password, used, sends, lost>>

CheckStopped(h) ==
  /\ call[h].at = "check" /\ ~Stopped /\ Goto(h, "enqueue")
  /\ UNCHANGED <<mailerVars, account, password, link, live, used, sends, lost>>

Ended(p) == [sends EXCEPT ![p] = IF @ = "broken" THEN @ ELSE "ok"]

(* Variant: a full queue drops the mail and reports success. *)
IgnoreFullQueue(h) ==
  /\ call[h].at = "enqueue" /\ Return(h) /\ sends' = Ended(call[h].pair)
  /\ \/ Enqueue(call[h].link)
     \/ QueueFull /\ UNCHANGED mailerVars
  /\ UNCHANGED <<account, password, link, live, used, lost>>
EnqueueMail(h) ==
  /\ call[h].at = "enqueue" /\ Enqueue(call[h].link)
  /\ Return(h) /\ sends' = Ended(call[h].pair)
  /\ UNCHANGED <<account, password, link, live, used, lost>>

(* A failed statement, a stopped mailer or a full queue ends the call; what   *)
(* its earlier statements did remains.                                        *)
FailSend(h) ==
  /\ \/ call[h].at \in {"delete", "insert"}
     \/ call[h].at = "check" /\ Stopped
     \/ call[h].at = "enqueue" /\ QueueFull
  /\ sends' = IF call[h].at = "delete" THEN sends
              ELSE [sends EXCEPT ![call[h].pair] = "broken"]
  /\ Return(h)
  /\ UNCHANGED <<mailerVars, account, password, link, live, used, lost>>

----------------------------------------------------------------------------
(* VerifyEmail and ResetPassword: find the link, use it, delete the links of  *)
(* its type.  No transaction holds the three statements together.  A link that *)
(* has expired is one no call finds any more.                                 *)
FindLink(h, k) ==
  /\ call[h] = Idle /\ k \in handed \cap live
  /\ call' = [call EXCEPT ![h] = [at |-> "apply", pair |-> link[k], link |-> k]]
  /\ UNCHANGED <<mailerVars, account, password, link, live, used, sends, lost>>

UseLink(h) ==
  LET u == call[h].pair[1] IN
  /\ call[h].at = "apply" /\ Goto(h, "clean")
  /\ IF call[h].pair[2] = "verify"
     THEN account' = [account EXCEPT ![u] = "verified"] /\ UNCHANGED password
     ELSE password' = [password EXCEPT ![u] = call[h].link] /\ UNCHANGED account
  /\ UNCHANGED <<mailerVars, link, live, used, sends, lost>>

(* Variant: the links of the other type are deleted. *)
DeleteVerifyLinks(h) ==
  LET p == call[h].pair IN
  /\ call[h].at = "clean" /\ Return(h)
  /\ live' = live \ Owned(<<p[1], "verify">>) /\ used' = used \cup {call[h].link}
  /\ sends' = [sends EXCEPT ![p] = "broken"]
  /\ UNCHANGED <<mailerVars, account, password, link, lost>>
DeleteLinks(h) ==
  LET p == call[h].pair IN
  /\ call[h].at = "clean" /\ Return(h)
  /\ live' = live \ Owned(p) /\ used' = used \cup {call[h].link}
  /\ sends' = [sends EXCEPT ![p] = "broken"]
  /\ UNCHANGED <<mailerVars, account, password, link, lost>>

FailRedeem(h) ==
  /\ call[h].at \in Redeeming /\ Return(h)
  /\ UNCHANGED <<mailerVars, account, password, link, live, used, sends, lost>>

(* The process ends, after Stop or by a crash, and starts again: calls, queue *)
(* and workers are gone, the database is not.                                 *)
Waiting == (Range(queue) \cup {worker[w].msg : w \in Workers}) \ {NoMail}
Restart ==
  /\ queue' = <<>> /\ worker' = Started /\ stop' = "no"
  /\ call' = [h \in Calls |-> Idle]
  /\ lost' = IF stop = "returned" THEN lost ELSE lost \cup Waiting
  /\ sends' = [p \in Pairs |->
       IF Busy(p) \/ \E k \in Waiting : link[k] = p THEN "broken" ELSE sends[p]]
  /\ UNCHANGED <<handed, account, password, link, live, used>>

Next ==
  \/ \E h \in Calls :
       \/ \E u \in Users : Register(h, u)
       \/ \E p \in Pairs : AskForLink(h, p)
       \/ CreateUser(h) \/ DeleteOldLinks(h) \/ CreateLink(h) \/ CheckStopped(h)
       \/ EnqueueMail(h) \/ FailSend(h)
       \/ \E k \in Links : FindLink(h, k)
       \/ UseLink(h) \/ DeleteLinks(h) \/ FailRedeem(h)
  \/ \E w \in Workers : Work(w) /\ UNCHANGED accountVars
  \/ Stop /\ UNCHANGED accountVars
  \/ Restart

Spec == Init /\ [][Next]_vars
FairSpec == Spec /\ \A w \in Workers : WF_vars(Work(w) /\ UNCHANGED accountVars)

----------------------------------------------------------------------------
(* A link through which a call reported success is dead: it acts once more    *)
(* only for a call that had found it before.  A password is only ever set     *)
(* through a reset link mailed to its own user, and an account is only        *)
(* verified through a verification link mailed to it.                         *)
LinksActAsIssued ==
  /\ used \cap live = {}
  /\ \A u \in Users : password[u] # 0 =>
       password[u] \in handed /\ link[password[u]] = <<u, "reset">>
  /\ \A u \in Users : account[u] = "verified" => \E k \in handed : link[k] = <<u, "verify">>

(* Links are deleted and created by calls that overlap, yet when every mail   *)
(* asked for lately was accepted, none of its links used and no call is under *)
(* way, one of the links mailed is still in the database: the user is never   *)
(* left with dead links only, unless a send failed half way.                  *)
LastMailHasLiveLink ==
  \A p \in Pairs : sends[p] = "ok" /\ ~Busy(p) =>
    Owned(p) \cap (handed \cup Waiting) # {}

(* Mail that is in the queue while a worker still runs is given to the        *)
(* delegate, also when Stop runs meanwhile.  Only a crash loses it; what a    *)
(* sender adds after the last worker has gone is not covered.                 *)
AcceptedMailIsHandedOver ==
  \A k \in 1..MaxLinks :
    (k \in Range(queue) /\ ~AllExited) ~> (k \in handed \cup lost)

(* A mail that was accepted leaves the queue and the workers only for the     *)
(* delegate or in a crash, as long as a worker runs, and the worker that      *)
(* returns last leaves none behind.                                           *)
AcceptedMailIsKept ==
  [][/\ ~AllExited => Waiting \subseteq Waiting' \cup handed' \cup lost'
     /\ (~AllExited /\ AllExited') => Waiting' = {}]_vars
=============================================================================
