------------------------- MODULE AccountMailProofs -------------------------
(* For any number of users, calls and workers, and any queue: what a link    *)
(* may do, and that the last mail a user asked for holds a link that works.  *)
EXTENDS AccountMail, SequenceTheorems, TLAPS

Numbers == 1..MaxLinks
CallRow == [at : {"idle", "create", "delete"} \cup Sending \cup Redeeming,
            pair : Pairs \cup {<<>>}, link : Numbers \cup {0}]

MailerTypeOK ==
  /\ queue \in Seq(Numbers) /\ Len(queue) <= QueueSize
  /\ worker \in [Workers -> [loop : {"select", "drain", "exited"}, msg : Numbers \cup {NoMail}]]
  /\ stop \in {"no", "flagged", "quit", "returned"}

AccountTypeOK ==
  /\ link \in Seq(Pairs) /\ Len(link) <= MaxLinks
  /\ handed \cup Waiting \subseteq Links
  /\ live \subseteq Links /\ used \subseteq Links /\ lost \subseteq Links
  /\ account \in [Users -> {"none", "unverified", "verified"}]
  /\ password \in [Users -> Numbers \cup {0}]
  /\ call \in [Calls -> CallRow]
  /\ sends \in [Pairs -> {"none", "ok", "broken"}]

(* What a call has in hand: the link it created, or the one it was shown.    *)
CallOK(h) ==
  /\ call[h].at = "idle" \/ call[h].pair \in Pairs
  /\ call[h].at \in {"check", "enqueue"} \cup Redeeming =>
       call[h].link \in Links /\ link[call[h].link] = call[h].pair
  /\ call[h].at \in Redeeming => call[h].link \in handed

(* A call will still mail a live link: it has deleted and is about to create *)
(* one, or nobody has deleted the one it created.                            *)
WillMail(h, p) ==
  /\ call[h].pair = p
  /\ \/ call[h].at = "insert"
     \/ call[h].at \in {"check", "enqueue"} /\ call[h].link \in live

Served(p) ==
  \/ Owned(p) \cap (handed \cup Waiting) # {}
  \/ \E h \in Calls : WillMail(h, p)

(* Calls for one user delete each other's links, but never the last one:     *)
(* who deletes creates, so while no send has failed someone's link survives. *)
SendsOK(p) == sends[p] # "broken" /\ (sends[p] = "ok" \/ Busy(p)) => Served(p)

MailInv ==
  /\ MailerTypeOK /\ AccountTypeOK
  /\ \A h \in Calls : CallOK(h)
  /\ LinksActAsIssued
  /\ \A p \in Pairs : SendsOK(p)

-----------------------------------------------------------------------------
(* The mailer: what it accepts, it holds or has handed over.                 *)
LEMMA Bounds == MaxLinks \in Nat /\ NoMail \notin Numbers /\ QueueSize \in Nat \ {0}
BY LinksBounded, QueueHasRoom DEF Numbers

LEMMA AppendRange ==
  ASSUME NEW S, NEW s \in Seq(S), NEW x \in S
  PROVE  Range(Append(s, x)) = Range(s) \cup {x}
<1>1. /\ Append(s, x) \in Seq(S) /\ Len(Append(s, x)) = Len(s) + 1 /\ Len(s) \in Nat
      /\ DOMAIN Append(s, x) = 1 .. Len(s) + 1 /\ DOMAIN s = 1 .. Len(s)
      /\ \A i \in 1 .. Len(s) : Append(s, x)[i] = s[i]
      /\ Append(s, x)[Len(s) + 1] = x
  OBVIOUS
<1> QED
  BY <1>1 DEF Range

LEMMA HeadTailRange ==
  ASSUME NEW S, NEW s \in Seq(S), s # <<>>
  PROVE  /\ Head(s) \in S /\ Tail(s) \in Seq(S) /\ Len(Tail(s)) < Len(s)
         /\ Range(s) = {Head(s)} \cup Range(Tail(s))
<1>1. /\ Head(s) \in S /\ Tail(s) \in Seq(S) /\ Len(Tail(s)) = Len(s) - 1
      /\ Len(s) \in Nat \ {0} /\ Head(s) = s[1]
      /\ \A i \in 1 .. Len(s) - 1 : Tail(s)[i] = s[i + 1]
      /\ DOMAIN s = 1 .. Len(s) /\ DOMAIN Tail(s) = 1 .. Len(s) - 1
  OBVIOUS
<1>2. ASSUME NEW y \in Range(s) PROVE y \in {Head(s)} \cup Range(Tail(s))
  <2>1. PICK i \in 1 .. Len(s) : y = s[i]
    BY <1>1, <1>2 DEF Range
  <2>2. CASE i = 1
    BY <1>1, <2>1, <2>2
  <2>3. CASE i # 1
    <3>1. i - 1 \in 1 .. Len(s) - 1 /\ Tail(s)[i - 1] = s[i]
      BY <1>1, <2>1, <2>3
    <3> QED
      BY <1>1, <2>1, <3>1 DEF Range
  <2> QED
    BY <2>2, <2>3
<1>3. ASSUME NEW y \in {Head(s)} \cup Range(Tail(s)) PROVE y \in Range(s)
  <2>1. CASE y = Head(s)
    BY <1>1, <2>1 DEF Range
  <2>2. CASE y \in Range(Tail(s))
    BY <1>1, <2>2 DEF Range
  <2> QED
    BY <1>3, <2>1, <2>2
<1> QED
  BY <1>1, <1>2, <1>3

(* The mail a worker holds, and the mail in the queue. *)
Held == {worker[w].msg : w \in Workers}

LEMMA EnqueueWaits ==
  ASSUME MailerTypeOK, NEW k \in Numbers, Enqueue(k)
  PROVE  MailerTypeOK' /\ handed' = handed /\ Waiting' = Waiting \cup {k}
<1>1. queue' = Append(queue, k) /\ queue \in Seq(Numbers) /\ Len(queue) # QueueSize
  BY DEF Enqueue, MailerTypeOK, QueueFull
<1>2. Range(queue') = Range(queue) \cup {k}
  BY <1>1, AppendRange
<1>3. queue' \in Seq(Numbers) /\ Len(queue') <= QueueSize
  BY <1>1, Bounds DEF MailerTypeOK
<1> QED
  BY <1>2, <1>3, Bounds DEF Enqueue, MailerTypeOK, Waiting

LEMMA WorkKeepsMail ==
  ASSUME MailerTypeOK, NEW w \in Workers, Work(w)
  PROVE  /\ MailerTypeOK' /\ stop' = stop /\ handed \subseteq handed'
         /\ Waiting' \subseteq Waiting /\ handed' \cup Waiting' = handed \cup Waiting
<1>1. CASE Receive(w)
  <2>1. /\ queue # <<>> /\ queue' = Tail(queue) /\ queue \in Seq(Numbers)
        /\ worker[w].msg = NoMail /\ worker' = [worker EXCEPT ![w].msg = Head(queue)]
    BY <1>1 DEF Receive, MailerTypeOK
  <2>2. /\ Range(queue) = {Head(queue)} \cup Range(queue')
        /\ queue' \in Seq(Numbers) /\ Len(queue') < Len(queue) /\ Head(queue) \in Numbers
    BY <2>1, HeadTailRange
  <2>3. /\ worker'[w].msg = Head(queue) /\ worker'[w].loop = worker[w].loop
        /\ \A v \in Workers \ {w} : worker'[v] = worker[v]
    BY <2>1 DEF MailerTypeOK
  <2>4. Held' \ {NoMail} = (Held \cup {Head(queue)}) \ {NoMail}
    BY <2>1, <2>3 DEF Held
  <2>5. Waiting' = Waiting
    BY <2>2, <2>4 DEF Waiting, Held
  <2>6. MailerTypeOK'
    <3>1. Len(queue') <= QueueSize
      BY <2>1, <2>2, Bounds DEF MailerTypeOK
    <3>2. worker' \in [Workers -> [loop : {"select", "drain", "exited"},
                                   msg : Numbers \cup {NoMail}]]
      BY <2>1, <2>2 DEF MailerTypeOK
    <3> QED
      BY <1>1, <2>2, <3>1, <3>2 DEF Receive, MailerTypeOK
  <2> QED
    BY <1>1, <2>5, <2>6 DEF Receive
<1>2. CASE SendNow(w)
  <2>1. PICK m : m = worker[w].msg
    OBVIOUS
  <2>2. /\ m # NoMail /\ m \in Held /\ worker'[w].msg = NoMail
        /\ \A v \in Workers \ {w} : worker'[v] = worker[v]
    BY <1>2, <2>1 DEF SendNow, MailerTypeOK, Held
  <2>3. m \in Waiting /\ queue' = queue /\ handed' = handed \cup {m}
    BY <1>2, <2>1, <2>2 DEF SendNow, Waiting, Held
  <2>4. Held' \ {NoMail} \subseteq Held \ {NoMail} /\ Held \subseteq Held' \cup {m}
    BY <2>1, <2>2 DEF Held
  <2>5. Waiting' \subseteq Waiting /\ Waiting \subseteq Waiting' \cup {m}
    BY <2>2, <2>3, <2>4 DEF Waiting, Held
  <2>6. MailerTypeOK'
    BY <1>2 DEF SendNow, MailerTypeOK
  <2> QED
    BY <1>2, <2>3, <2>5, <2>6 DEF SendNow
<1>3. CASE SeeQuit(w) \/ Drained(w)
  <2>1. \A v \in Workers : worker'[v].msg = worker[v].msg
    BY <1>3 DEF SeeQuit, Drained, MailerTypeOK
  <2>2. Waiting' = Waiting
    <3>1. Held' = Held
      BY <2>1 DEF Held
    <3> QED
      BY <1>3, <3>1 DEF SeeQuit, Drained, Waiting, Held
  <2>3. MailerTypeOK'
    BY <1>3 DEF SeeQuit, Drained, MailerTypeOK
  <2> QED
    BY <1>3, <2>2, <2>3 DEF SeeQuit, Drained
<1> QED
  BY <1>1, <1>2, <1>3 DEF Work

LEMMA StopKeepsMail ==
  ASSUME MailerTypeOK, Stop
  PROVE  MailerTypeOK' /\ handed' = handed /\ Waiting' = Waiting
BY DEF Stop, MailerTypeOK, Waiting

LEMMA RestartEmpties ==
  ASSUME Restart
  PROVE  MailerTypeOK' /\ handed' = handed /\ Waiting' = {}
<1>1. \A w \in Workers : worker'[w] = [loop |-> "select", msg |-> NoMail]
  BY DEF Restart, Started
<1>2. queue' = <<>> /\ Range(queue') = {} /\ Len(queue') = 0
  BY DEF Restart, Range
<1> QED
  BY <1>1, <1>2, Bounds DEF Restart, MailerTypeOK, Started, Waiting

-----------------------------------------------------------------------------
(* The calls: a step of one call rewrites its own row.                       *)
LEMMA LinksAreNumbers ==
  ASSUME AccountTypeOK
  PROVE  /\ Links \subseteq Numbers /\ Len(link) \in Nat /\ NoMail \notin Links
         /\ \A k \in Links : link[k] \in Pairs
BY Bounds DEF AccountTypeOK, Links, Numbers

LEMMA RowWrites ==
  ASSUME AccountTypeOK, NEW h \in Calls, NEW row \in CallRow,
         call' = [call EXCEPT ![h] = row]
  PROVE  /\ call' \in [Calls -> CallRow] /\ call'[h] = row
         /\ \A g \in Calls \ {h} : call'[g] = call[g]
BY DEF AccountTypeOK

LEMMA CallKept ==
  ASSUME AccountTypeOK, NEW g \in Calls, CallOK(g), call'[g] = call[g],
         handed \subseteq handed', Links \subseteq Links',
         \A k \in Links : link'[k] = link[k]
  PROVE  CallOK(g)'
BY DEF CallOK

(* A link keeps its owner, and a live one its place in the database, unless  *)
(* it belongs to a pair whose links are deleted.                             *)
LEMMA ServedKept ==
  ASSUME NEW p \in Pairs, Served(p),
         Owned(p) \subseteq Owned(p)',
         handed \cup Waiting \subseteq handed' \cup Waiting',
         \A h \in Calls : WillMail(h, p) => WillMail(h, p)'
  PROVE  Served(p)'
<1>1. CASE Owned(p) \cap (handed \cup Waiting) # {}
  <2>1. Owned(p)' \cap (handed' \cup Waiting') # {}
    BY <1>1
  <2> QED
    BY <2>1 DEF Served
<1>2. CASE \E h \in Calls : WillMail(h, p)
  <2>1. \E h \in Calls : WillMail(h, p)'
    BY <1>2
  <2> QED
    BY <2>1 DEF Served
<1> QED
  BY <1>1, <1>2 DEF Served

(* Everything but one call and the account it works on stays as it was.      *)
Quiet == UNCHANGED <<mailerVars, link, live, used, sends, lost>>

(* A step before a call begins to send, or after it has found a link,        *)
(* changes nothing the sends depend on.                                      *)
LEMMA QuietSends ==
  ASSUME MailInv, Quiet, NEW h \in Calls, NEW p \in Pairs,
         call[h].at \notin Sending, call'[h].at \notin Sending,
         \A g \in Calls \ {h} : call'[g] = call[g]
  PROVE  SendsOK(p)'
<1>1. Busy(p)' => Busy(p)
  BY DEF Busy
<1>2. \A g \in Calls : WillMail(g, p) => WillMail(g, p)'
  BY DEF WillMail, Sending, Quiet
<1>3. /\ Owned(p)' = Owned(p) /\ sends' = sends
      /\ handed' \cup Waiting' = handed \cup Waiting
  BY DEF Quiet, mailerVars, Owned, Waiting
<1>4. SendsOK(p)
  BY DEF MailInv
<1>5. sends'[p] # "broken" /\ (sends'[p] = "ok" \/ Busy(p)') => Served(p)
  BY <1>1, <1>3, <1>4 DEF SendsOK
<1>6. Served(p) => Served(p)'
  BY <1>2, <1>3, ServedKept
<1> QED
  BY <1>5, <1>6 DEF SendsOK

(* A quiet step keeps the invariant when it keeps the account and the call.  *)
LEMMA QuietStep ==
  ASSUME MailInv, Quiet, NEW h \in Calls, NEW row \in CallRow,
         call' = [call EXCEPT ![h] = row],
         call[h].at \notin Sending, row.at \notin Sending, CallOK(h)',
         account' \in [Users -> {"none", "unverified", "verified"}],
         password' \in [Users -> Numbers \cup {0}],
         LinksActAsIssued'
  PROVE  MailInv'
<1>1. /\ call' \in [Calls -> CallRow] /\ call'[h] = row
      /\ \A g \in Calls \ {h} : call'[g] = call[g]
  BY RowWrites DEF MailInv
<1>2. \A p \in Pairs : SendsOK(p)'
  BY <1>1, QuietSends
<1>3. \A g \in Calls : CallOK(g)'
  BY <1>1, CallKept DEF MailInv, Quiet, mailerVars, Links
<1>4. MailerTypeOK' /\ AccountTypeOK'
  BY <1>1 DEF MailInv, MailerTypeOK, AccountTypeOK, Quiet, mailerVars, Links, Waiting
<1> QED
  BY <1>2, <1>3, <1>4 DEF MailInv

LEMMA PairNotEmpty == \A q \in Pairs : q # <<>>
<1> TAKE q \in Pairs
<1>1. PICK u \in Users, ty \in Types : q = <<u, ty>>
  BY DEF Pairs
<1>2. Len(<<u, ty>>) = 2 /\ Len(<<>>) = 0
  OBVIOUS
<1> QED
  BY <1>1, <1>2

LEMMA IdleRow == Idle \in CallRow /\ Idle.at = "idle" /\ Idle.pair = <<>>
BY DEF Idle, CallRow

LEMMA FreshRow ==
  ASSUME NEW a \in {"create", "delete"}, NEW p \in Pairs
  PROVE  [Idle EXCEPT !.at = a, !.pair = p] = [at |-> a, pair |-> p, link |-> 0]
<1>1. [Idle EXCEPT !.at = a, !.pair = p] = [[Idle EXCEPT !.at = a] EXCEPT !.pair = p]
  BY IdleRow DEF CallRow
<1>2. [Idle EXCEPT !.at = a] = [at |-> a, pair |-> <<>>, link |-> 0]
  BY DEF Idle
<1>3. [[at |-> a, pair |-> <<>>, link |-> 0] EXCEPT !.pair = p]
        = [at |-> a, pair |-> p, link |-> 0]
  OBVIOUS
<1> QED
  BY <1>1, <1>2, <1>3

LEMMA RegisterKeepsInv ==
  ASSUME MailInv, NEW h \in Calls, NEW u \in Users, Register(h, u)
  PROVE  MailInv'
<1> DEFINE row == [at |-> "create", pair |-> <<u, "verify">>, link |-> 0]
<1>1. row \in CallRow /\ <<u, "verify">> \in Pairs
  BY DEF CallRow, Pairs, Types
<1>2. call' = [call EXCEPT ![h] = row] /\ call[h] = Idle
  BY <1>1, FreshRow DEF Register
<1>3. CallOK(h)'
  BY <1>1, <1>2 DEF CallOK, MailInv, AccountTypeOK, Redeeming
<1>4. Quiet /\ UNCHANGED <<account, password>> /\ LinksActAsIssued'
  BY DEF Register, Quiet, LinksActAsIssued, MailInv, mailerVars
<1> QED
  BY <1>1, <1>2, <1>3, <1>4, IdleRow, QuietStep DEF MailInv, AccountTypeOK, Sending

LEMMA CreateUserKeepsInv ==
  ASSUME MailInv, NEW h \in Calls, CreateUser(h)
  PROVE  MailInv'
<1>1. PICK p \in Pairs, k \in Numbers \cup {0} : call[h] = [at |-> "create", pair |-> p, link |-> k]
  BY DEF MailInv, AccountTypeOK, CallRow, CallOK, CreateUser
<1>2. PICK row \in {[at |-> "delete", pair |-> p, link |-> k], Idle} :
        call' = [call EXCEPT ![h] = row]
  BY <1>1 DEF CreateUser, Goto, Return, MailInv, AccountTypeOK
<1>3. row \in CallRow /\ row.at \notin Sending /\ call[h].at \notin Sending
  BY <1>1, IdleRow DEF CallRow, Sending
<1>4. CallOK(h)'
  BY <1>2, IdleRow DEF CallOK, MailInv, AccountTypeOK, Redeeming
<1>5. /\ account' \in [Users -> {"none", "unverified", "verified"}]
      /\ \A u \in Users : account'[u] = "verified" => account[u] = "verified"
  BY DEF CreateUser, MailInv, AccountTypeOK
<1>6. Quiet /\ UNCHANGED password
  BY DEF CreateUser, Quiet
<1>7. LinksActAsIssued'
  BY <1>5, <1>6 DEF LinksActAsIssued, MailInv, Quiet, mailerVars
<1> QED
  BY <1>2, <1>3, <1>4, <1>5, <1>6, <1>7, QuietStep DEF MailInv, AccountTypeOK

LEMMA AskForLinkKeepsInv ==
  ASSUME MailInv, NEW h \in Calls, NEW p \in Pairs, AskForLink(h, p)
  PROVE  MailInv'
<1> DEFINE row == [at |-> "delete", pair |-> p, link |-> 0]
<1>1. row \in CallRow
  BY DEF CallRow
<1>2. call' = [call EXCEPT ![h] = row] /\ call[h] = Idle
  BY FreshRow DEF AskForLink
<1>3. CallOK(h)'
  BY <1>1, <1>2 DEF CallOK, MailInv, AccountTypeOK, Redeeming
<1>4. Quiet /\ UNCHANGED <<account, password>> /\ LinksActAsIssued'
  BY DEF AskForLink, Quiet, LinksActAsIssued, MailInv, mailerVars
<1> QED
  BY <1>1, <1>2, <1>3, <1>4, IdleRow, QuietStep DEF MailInv, AccountTypeOK, Sending

LEMMA CallShape ==
  ASSUME MailInv, NEW h \in Calls, call[h].at # "idle"
  PROVE  \E p \in Pairs, k \in Numbers \cup {0} :
           call[h] = [at |-> call[h].at, pair |-> p, link |-> k]
BY DEF MailInv, AccountTypeOK, CallRow, CallOK

LEMMA GotoWrites ==
  ASSUME MailInv, NEW h \in Calls, NEW a, NEW b, NEW p, NEW k, Goto(h, b),
         call[h] = [at |-> a, pair |-> p, link |-> k]
  PROVE  call' = [call EXCEPT ![h] = [at |-> b, pair |-> p, link |-> k]]
<1>1. [[at |-> a, pair |-> p, link |-> k] EXCEPT !.at = b] = [at |-> b, pair |-> p, link |-> k]
  OBVIOUS
<1> QED
  BY <1>1 DEF Goto, MailInv, AccountTypeOK

LEMMA FindLinkKeepsInv ==
  ASSUME MailInv, NEW h \in Calls, NEW k \in Links, FindLink(h, k)
  PROVE  MailInv'
<1>1. k \in Numbers /\ link[k] \in Pairs /\ k \in handed
  BY LinksAreNumbers DEF MailInv, FindLink
<1> DEFINE row == [at |-> "apply", pair |-> link[k], link |-> k]
<1>2. row \in CallRow /\ row.at \notin Sending
  BY <1>1 DEF CallRow, Redeeming, Sending
<1>3. call' = [call EXCEPT ![h] = row] /\ call[h] = Idle
  BY DEF FindLink
<1>4. Quiet /\ UNCHANGED <<account, password>> /\ LinksActAsIssued'
  BY DEF FindLink, Quiet, LinksActAsIssued, MailInv, mailerVars
<1>5. CallOK(h)'
  <2>1. call'[h] = row
    BY <1>2, <1>3, RowWrites DEF MailInv
  <2> QED
    BY <1>1, <1>4, <2>1 DEF CallOK, Quiet, mailerVars, Links
<1> QED
  BY <1>2, <1>3, <1>4, <1>5, IdleRow, QuietStep DEF MailInv, AccountTypeOK, Sending

(* The statement that verifies an account or sets a password has a link in   *)
(* hand that was mailed, and that belongs to the account.                    *)
LEMMA UseLinkKeepsInv ==
  ASSUME MailInv, NEW h \in Calls, UseLink(h)
  PROVE  MailInv'
<1>1. PICK p \in Pairs, k \in Numbers \cup {0} : call[h] = [at |-> "apply", pair |-> p, link |-> k]
  BY CallShape DEF UseLink
<1>2. k \in Links /\ k \in Numbers /\ link[k] = p /\ k \in handed
  BY <1>1, LinksAreNumbers DEF MailInv, CallOK, Redeeming
<1>3. p[1] \in Users /\ p[2] \in Types /\ p = <<p[1], p[2]>>
  BY DEF Pairs
<1> DEFINE row == [at |-> "clean", pair |-> p, link |-> k]
<1>4. row \in CallRow /\ row.at \notin Sending
  BY DEF CallRow, Redeeming, Sending
<1>5. call' = [call EXCEPT ![h] = row]
  BY <1>1, GotoWrites DEF UseLink
<1>6. Quiet /\ call[h].at \notin Sending
  BY <1>1 DEF UseLink, Quiet, Sending
<1>7. CallOK(h)'
  <2>1. call'[h] = row
    BY <1>4, <1>5, RowWrites DEF MailInv
  <2> QED
    BY <1>2, <1>6, <2>1 DEF CallOK, Quiet, mailerVars, Links
<1>8. CASE p[2] = "verify"
  <2>1. account' = [account EXCEPT ![p[1]] = "verified"] /\ password' = password
    BY <1>1, <1>8 DEF UseLink
  <2>2. account' \in [Users -> {"none", "unverified", "verified"}]
    BY <1>3, <2>1 DEF MailInv, AccountTypeOK
  <2>3. \A u \in Users : account'[u] = "verified" => account[u] = "verified" \/ u = p[1]
    BY <2>1 DEF MailInv, AccountTypeOK
  <2>4. \A u \in Users : account'[u] = "verified" => \E j \in handed : link[j] = <<u, "verify">>
    BY <1>2, <1>3, <1>8, <2>3 DEF MailInv, LinksActAsIssued
  <2>5. LinksActAsIssued'
    BY <1>6, <2>1, <2>4 DEF LinksActAsIssued, MailInv, Quiet, mailerVars
  <2>6. password' \in [Users -> Numbers \cup {0}]
    BY <2>1 DEF MailInv, AccountTypeOK
  <2> QED
    BY <1>4, <1>5, <1>6, <1>7, <2>2, <2>5, <2>6, QuietStep
<1>9. CASE p[2] # "verify"
  <2>1. password' = [password EXCEPT ![p[1]] = k] /\ account' = account
    BY <1>1, <1>9 DEF UseLink
  <2>2. password' \in [Users -> Numbers \cup {0}]
    BY <1>2, <1>3, <2>1 DEF MailInv, AccountTypeOK
  <2>3. link[k] = <<p[1], "reset">>
    BY <1>2, <1>3, <1>9 DEF Types
  <2>4. \A u \in Users : password'[u] = password[u] \/ (u = p[1] /\ password'[u] = k)
    BY <2>1 DEF MailInv, AccountTypeOK
  <2>5. \A u \in Users : password'[u] # 0 =>
          password'[u] \in handed /\ link[password'[u]] = <<u, "reset">>
    BY <1>2, <2>3, <2>4 DEF MailInv, LinksActAsIssued
  <2>6. LinksActAsIssued'
    BY <1>6, <2>1, <2>5 DEF LinksActAsIssued, MailInv, Quiet, mailerVars
  <2>7. account' \in [Users -> {"none", "unverified", "verified"}]
    BY <2>1 DEF MailInv, AccountTypeOK
  <2> QED
    BY <1>4, <1>5, <1>6, <1>7, <2>2, <2>6, <2>7, QuietStep
<1> QED
  BY <1>8, <1>9

LEMMA ReturnQuietlyKeepsInv ==
  ASSUME MailInv, NEW h \in Calls, Return(h), call[h].at \notin Sending,
         Quiet, UNCHANGED <<account, password>>
  PROVE  MailInv'
<1>1. call' = [call EXCEPT ![h] = Idle]
  BY DEF Return
<1>2. call'[h] = Idle
  BY <1>1 DEF MailInv, AccountTypeOK
<1>3. CallOK(h)'
  BY <1>2, IdleRow DEF CallOK, Redeeming
<1>4. LinksActAsIssued'
  BY DEF LinksActAsIssued, MailInv, Quiet, mailerVars
<1> QED
  BY <1>1, <1>3, <1>4, IdleRow, QuietStep DEF MailInv, AccountTypeOK, Sending

LEMMA FailRedeemKeepsInv ==
  ASSUME MailInv, NEW h \in Calls, FailRedeem(h)
  PROVE  MailInv'
BY ReturnQuietlyKeepsInv DEF FailRedeem, Quiet, Redeeming, Sending

-----------------------------------------------------------------------------
(* The steps of the sends, and those that delete links.                      *)
LEMMA IssuedKept ==
  ASSUME MailInv, UNCHANGED <<account, password>>, handed \subseteq handed',
         \A k \in Links : link'[k] = link[k], used' \cap live' = {}
  PROVE  LinksActAsIssued'
<1>1. handed \subseteq Links
  BY DEF MailInv, AccountTypeOK
<1>2. \A u \in Users : password[u] # 0 =>
        password[u] \in handed' /\ link'[password[u]] = <<u, "reset">>
  BY <1>1 DEF MailInv, LinksActAsIssued
<1>3. \A u \in Users : account[u] = "verified" => \E k \in handed' : link'[k] = <<u, "verify">>
  <2> SUFFICES ASSUME NEW u \in Users, account[u] = "verified"
               PROVE  \E k \in handed' : link'[k] = <<u, "verify">>
    OBVIOUS
  <2>1. PICK k \in handed : link[k] = <<u, "verify">>
    BY DEF MailInv, LinksActAsIssued
  <2> QED
    BY <1>1, <2>1
<1> QED
  BY <1>2, <1>3 DEF LinksActAsIssued

(* A send of another pair keeps its links and its calls.                     *)
LEMMA OtherSendsKept ==
  ASSUME MailInv, NEW h \in Calls, NEW p \in Pairs,
         call[h].pair # p, call'[h].pair # p,
         \A g \in Calls \ {h} : call'[g] = call[g],
         sends'[p] = sends[p],
         \A k \in live : link[k] = p => k \in live' /\ link'[k] = p,
         handed \cup Waiting \subseteq handed' \cup Waiting'
  PROVE  SendsOK(p)'
<1>1. Busy(p)' => Busy(p)
  BY DEF Busy
<1>2. Owned(p) \subseteq Owned(p)'
  BY DEF Owned
<1>3. ASSUME NEW g \in Calls, WillMail(g, p) PROVE WillMail(g, p)'
  <2>1. call'[g] = call[g] /\ call[g].pair = p
    BY <1>3 DEF WillMail
  <2>2. call[g].at \in {"check", "enqueue"} => link[call[g].link] = p
    BY <2>1 DEF MailInv, CallOK
  <2> QED
    BY <1>3, <2>1, <2>2 DEF WillMail
<1>4. SendsOK(p)
  BY DEF MailInv
<1>5. sends'[p] # "broken" /\ (sends'[p] = "ok" \/ Busy(p)') => Served(p)
  BY <1>1, <1>4 DEF SendsOK
<1>6. Served(p) => Served(p)'
  BY <1>2, <1>3, ServedKept
<1> QED
  BY <1>5, <1>6 DEF SendsOK

LEMMA CheckStoppedKeepsInv ==
  ASSUME MailInv, NEW h \in Calls, CheckStopped(h)
  PROVE  MailInv'
<1>1. PICK p \in Pairs, k \in Numbers \cup {0} : call[h] = [at |-> "check", pair |-> p, link |-> k]
  BY CallShape DEF CheckStopped
<1> DEFINE row == [at |-> "enqueue", pair |-> p, link |-> k]
<1>2. row \in CallRow
  BY DEF CallRow, Sending
<1>3. call' = [call EXCEPT ![h] = row]
  BY <1>1, GotoWrites DEF CheckStopped
<1>4. /\ call' \in [Calls -> CallRow] /\ call'[h] = row
      /\ \A g \in Calls \ {h} : call'[g] = call[g]
  BY <1>2, <1>3, RowWrites DEF MailInv
<1>5. UNCHANGED <<mailerVars, account, password, link, live, used, sends, lost>>
  BY DEF CheckStopped
<1>6. MailerTypeOK' /\ AccountTypeOK' /\ LinksActAsIssued'
  <2>1. MailerTypeOK' /\ Waiting' = Waiting /\ handed' = handed
    BY <1>5 DEF MailInv, MailerTypeOK, mailerVars, Waiting
  <2>2. AccountTypeOK'
    BY <1>4, <1>5, <2>1 DEF MailInv, AccountTypeOK, Links
  <2>3. LinksActAsIssued'
    BY <1>5, <2>1 DEF MailInv, LinksActAsIssued
  <2> QED
    BY <2>1, <2>2, <2>3
<1>7. ASSUME NEW g \in Calls PROVE CallOK(g)'
  <2>1. CASE g = h
    BY <1>1, <1>4, <1>5, <2>1 DEF MailInv, CallOK, Links, mailerVars, Redeeming
  <2>2. CASE g # h
    BY <1>4, <1>5, <2>2, CallKept DEF MailInv, Links, mailerVars
  <2> QED
    BY <2>1, <2>2
<1>8. ASSUME NEW q \in Pairs PROVE SendsOK(q)'
  <2>1. Busy(q)' => Busy(q)
    BY <1>1, <1>4 DEF Busy, Sending
  <2>2. \A g \in Calls : WillMail(g, q) => WillMail(g, q)'
    BY <1>1, <1>4, <1>5 DEF WillMail
  <2>3. /\ Owned(q)' = Owned(q) /\ sends' = sends
        /\ handed' \cup Waiting' = handed \cup Waiting
    BY <1>5 DEF mailerVars, Owned, Waiting
  <2>4. Served(q) => Served(q)'
    BY <2>2, <2>3, ServedKept
  <2> QED
    BY <2>1, <2>3, <2>4 DEF MailInv, SendsOK
<1> QED
  BY <1>6, <1>7, <1>8 DEF MailInv

(* The new link is the only live one while its send is under way; the link   *)
(* it replaces may still be waiting or mailed, and is dead.                  *)
LEMMA CreateLinkKeepsInv ==
  ASSUME MailInv, NEW h \in Calls, CreateLink(h)
  PROVE  MailInv'
<1>1. PICK p \in Pairs, j \in Numbers \cup {0} : call[h] = [at |-> "insert", pair |-> p, link |-> j]
  BY CallShape DEF CreateLink
<1>2. PICK k : k = Len(link) + 1
  OBVIOUS
<1>3. /\ k \in Numbers /\ k \notin Links /\ Len(link) \in Nat
      /\ link' = Append(link, p) /\ live' = live \cup {k}
      /\ UNCHANGED <<mailerVars, account, password, used, sends, lost>>
  BY <1>1, <1>2, Bounds DEF CreateLink, MailInv, AccountTypeOK, Numbers, Links
<1>4. /\ link' \in Seq(Pairs) /\ Len(link') = k /\ link'[k] = p
      /\ Links' = Links \cup {k} /\ \A i \in Links : link'[i] = link[i]
  <2>1. link \in Seq(Pairs)
    BY DEF MailInv, AccountTypeOK
  <2> QED
    BY <1>2, <1>3, <2>1 DEF Links
<1> DEFINE row == [at |-> "check", pair |-> p, link |-> k]
<1>5. row \in CallRow
  BY <1>3 DEF CallRow, Sending
<1>6. call' = [call EXCEPT ![h] = row]
  <2>1. call' = [call EXCEPT ![h].at = "check", ![h].link = k]
    BY <1>2 DEF CreateLink
  <2>2. call' = [call EXCEPT ![h] = [[call[h] EXCEPT !.at = "check"] EXCEPT !.link = k]]
    BY <2>1 DEF MailInv, AccountTypeOK
  <2>3. [[at |-> "insert", pair |-> p, link |-> j] EXCEPT !.at = "check"]
          = [at |-> "check", pair |-> p, link |-> j]
    OBVIOUS
  <2>4. [[at |-> "check", pair |-> p, link |-> j] EXCEPT !.link = k] = row
    OBVIOUS
  <2> QED
    BY <1>1, <2>2, <2>3, <2>4
<1>7. /\ call' \in [Calls -> CallRow] /\ call'[h] = row
      /\ \A g \in Calls \ {h} : call'[g] = call[g]
  BY <1>5, <1>6, RowWrites DEF MailInv
<1>8. MailerTypeOK' /\ Waiting' = Waiting /\ handed' = handed
  BY <1>3 DEF MailInv, MailerTypeOK, mailerVars, Waiting
<1>9. AccountTypeOK'
  <2>1. Len(link') <= MaxLinks
    BY <1>3, <1>4 DEF Numbers
  <2> QED
    BY <1>3, <1>4, <1>7, <1>8, <2>1 DEF MailInv, AccountTypeOK
<1>10. LinksActAsIssued'
  <2>1. used' \cap live' = {}
    BY <1>3 DEF MailInv, AccountTypeOK, LinksActAsIssued
  <2> QED
    BY <1>3, <1>4, <1>8, <2>1, IssuedKept
<1>11. ASSUME NEW g \in Calls PROVE CallOK(g)'
  <2>1. CASE g = h
    BY <1>4, <1>7, <2>1 DEF CallOK, Redeeming
  <2>2. CASE g # h
    BY <1>4, <1>7, <1>8, <2>2, CallKept DEF MailInv
  <2> QED
    BY <2>1, <2>2
<1>12. ASSUME NEW q \in Pairs PROVE SendsOK(q)'
  <2>1. CASE q = p
    <3>1. WillMail(h, p)'
      BY <1>3, <1>7 DEF WillMail
    <3> QED
      BY <2>1, <3>1 DEF SendsOK, Served
  <2>2. CASE q # p
    <3>1. \A i \in live : link[i] = q => i \in live' /\ link'[i] = q
      BY <1>3, <1>4 DEF MailInv, AccountTypeOK
    <3>2. call[h].pair # q /\ call'[h].pair # q
      BY <1>1, <1>7, <2>2
    <3>3. sends'[q] = sends[q] /\ handed \cup Waiting \subseteq handed' \cup Waiting'
      BY <1>3, <1>8
    <3> QED
      BY <1>7, <3>1, <3>2, <3>3, OtherSendsKept
  <2> QED
    BY <2>1, <2>2
<1> QED
  BY <1>8, <1>9, <1>10, <1>11, <1>12 DEF MailInv

(* The sender that deletes the old links is the one that creates the next.   *)
LEMMA DeleteOldLinksKeepsInv ==
  ASSUME MailInv, NEW h \in Calls, DeleteOldLinks(h)
  PROVE  MailInv'
<1>1. PICK p \in Pairs, k \in Numbers \cup {0} : call[h] = [at |-> "delete", pair |-> p, link |-> k]
  BY CallShape DEF DeleteOldLinks
<1> DEFINE row == [at |-> "insert", pair |-> p, link |-> k]
<1>2. row \in CallRow
  BY DEF CallRow, Sending
<1>3. call' = [call EXCEPT ![h] = row]
  BY <1>1, GotoWrites DEF DeleteOldLinks
<1>4. /\ call' \in [Calls -> CallRow] /\ call'[h] = row
      /\ \A g \in Calls \ {h} : call'[g] = call[g]
  BY <1>2, <1>3, RowWrites DEF MailInv
<1>5. /\ live' = live \ Owned(p)
      /\ UNCHANGED <<mailerVars, account, password, link, used, lost>>
  BY <1>1 DEF DeleteOldLinks
<1>6. MailerTypeOK' /\ Waiting' = Waiting /\ handed' = handed
  BY <1>5 DEF MailInv, MailerTypeOK, mailerVars, Waiting
<1>7. /\ sends' \in [Pairs -> {"none", "ok", "broken"}]
      /\ \A q \in Pairs \ {p} : sends'[q] = sends[q]
  BY <1>1 DEF DeleteOldLinks, MailInv, AccountTypeOK
<1>8. AccountTypeOK'
  BY <1>4, <1>5, <1>6, <1>7 DEF MailInv, AccountTypeOK, Links, Owned
<1>9. LinksActAsIssued'
  <2>1. used' \cap live' = {}
    BY <1>5 DEF MailInv, LinksActAsIssued
  <2> QED
    BY <1>5, <1>6, <2>1, IssuedKept
<1>10. ASSUME NEW g \in Calls PROVE CallOK(g)'
  <2>1. CASE g = h
    BY <1>4, <2>1 DEF CallOK, Redeeming
  <2>2. CASE g # h
    BY <1>4, <1>5, <1>6, <2>2, CallKept DEF MailInv, Links
  <2> QED
    BY <2>1, <2>2
<1>11. ASSUME NEW q \in Pairs PROVE SendsOK(q)'
  <2>1. CASE q = p
    <3>1. WillMail(h, p)'
      BY <1>4 DEF WillMail
    <3> QED
      BY <2>1, <3>1 DEF SendsOK, Served
  <2>2. CASE q # p
    <3>1. \A i \in live : link[i] = q => i \in live' /\ link'[i] = q
      BY <1>5, <2>2 DEF Owned
    <3>2. call[h].pair # q /\ call'[h].pair # q
      BY <1>1, <1>4, <2>2
    <3>3. sends'[q] = sends[q] /\ handed \cup Waiting \subseteq handed' \cup Waiting'
      BY <1>6, <1>7, <2>2
    <3> QED
      BY <1>4, <3>1, <3>2, <3>3, OtherSendsKept
  <2> QED
    BY <2>1, <2>2
<1> QED
  BY <1>6, <1>8, <1>9, <1>10, <1>11 DEF MailInv

(* A call returns: its row is empty, the other rows stand. *)
LEMMA ReturnWrites ==
  ASSUME MailInv, NEW h \in Calls, Return(h)
  PROVE  /\ call' \in [Calls -> CallRow] /\ call'[h] = Idle /\ CallOK(h)'
         /\ \A g \in Calls \ {h} : call'[g] = call[g]
<1>1. /\ call' \in [Calls -> CallRow] /\ call'[h] = Idle
      /\ \A g \in Calls \ {h} : call'[g] = call[g]
  BY IdleRow, RowWrites DEF Return, MailInv
<1> QED
  BY <1>1, IdleRow DEF CallOK, Redeeming

(* The mail of a link that is still live serves the pair from now on; if the *)
(* link is dead, whoever deleted it is still sending, or somebody after him. *)
LEMMA EnqueueMailKeepsInv ==
  ASSUME MailInv, NEW h \in Calls, EnqueueMail(h)
  PROVE  MailInv'
<1>1. PICK p \in Pairs, k \in Numbers \cup {0} : call[h] = [at |-> "enqueue", pair |-> p, link |-> k]
  BY CallShape DEF EnqueueMail
<1>2. k \in Links /\ k \in Numbers /\ link[k] = p
  BY <1>1, LinksAreNumbers DEF MailInv, CallOK
<1>3. /\ Enqueue(k) /\ Return(h) /\ sends' = Ended(p)
      /\ UNCHANGED <<account, password, link, live, used, lost>>
  BY <1>1 DEF EnqueueMail
<1>4. /\ call' \in [Calls -> CallRow] /\ call'[h] = Idle /\ CallOK(h)'
      /\ \A g \in Calls \ {h} : call'[g] = call[g]
  BY <1>3, ReturnWrites
<1>5. MailerTypeOK' /\ handed' = handed /\ Waiting' = Waiting \cup {k}
  BY <1>2, <1>3, EnqueueWaits DEF MailInv
<1>6. /\ sends' \in [Pairs -> {"none", "ok", "broken"}]
      /\ \A q \in Pairs \ {p} : sends'[q] = sends[q]
      /\ sends'[p] # "broken" => sends[p] # "broken"
  BY <1>3 DEF Ended, MailInv, AccountTypeOK
<1>7. AccountTypeOK'
  BY <1>2, <1>3, <1>4, <1>5, <1>6 DEF MailInv, AccountTypeOK, Links
<1>8. LinksActAsIssued'
  <2>1. used' \cap live' = {}
    BY <1>3 DEF MailInv, LinksActAsIssued
  <2> QED
    BY <1>3, <1>5, <2>1, IssuedKept
<1>9. ASSUME NEW g \in Calls PROVE CallOK(g)'
  <2>1. CASE g = h
    BY <1>4, <2>1
  <2>2. CASE g # h
    BY <1>3, <1>4, <1>5, <2>2, CallKept DEF MailInv, Links
  <2> QED
    BY <2>1, <2>2
<1>10. ASSUME NEW q \in Pairs PROVE SendsOK(q)'
  <2>1. CASE q = p /\ sends'[p] # "broken"
    <3>1. Busy(p)
      BY <1>1 DEF Busy, Sending
    <3>2. Served(p)
      BY <1>6, <2>1, <3>1 DEF MailInv, SendsOK
    <3>3. Owned(p)' = Owned(p)
      BY <1>3 DEF Owned
    <3>4. CASE k \in live
      <4>1. k \in Owned(p)' /\ k \in Waiting'
        BY <1>2, <1>5, <3>3, <3>4 DEF Owned
      <4> QED
        BY <2>1, <4>1 DEF SendsOK, Served
    <3>5. CASE k \notin live
      <4>1. \A g \in Calls : WillMail(g, p) => WillMail(g, p)'
        BY <1>1, <1>3, <1>4, <3>5 DEF WillMail
      <4>2. Served(p)'
        BY <1>5, <3>2, <3>3, <4>1, ServedKept
      <4> QED
        BY <2>1, <4>2 DEF SendsOK
    <3> QED
      BY <3>4, <3>5
  <2>2. CASE q = p /\ sends'[p] = "broken"
    BY <2>2 DEF SendsOK
  <2>3. CASE q # p
    <3>1. \A i \in live : link[i] = q => i \in live' /\ link'[i] = q
      BY <1>3
    <3>2. call[h].pair # q /\ call'[h].pair # q
      <4>1. <<>> # q
        BY PairNotEmpty
      <4>2. call[h].pair = p
        BY <1>1
      <4>3. call'[h].pair = <<>>
        BY <1>4, IdleRow
      <4> QED
        BY <2>3, <4>1, <4>2, <4>3
    <3>3. sends'[q] = sends[q] /\ handed \cup Waiting \subseteq handed' \cup Waiting'
      BY <1>5, <1>6, <2>3
    <3> QED
      BY <1>4, <3>1, <3>2, <3>3, OtherSendsKept
  <2> QED
    BY <2>1, <2>2, <2>3
<1> QED
  BY <1>5, <1>7, <1>8, <1>9, <1>10 DEF MailInv

(* A call that fails, or that has used a link, leaves its pair without the   *)
(* promise; the other pairs keep theirs.                                     *)
LEMMA BrokenKeepsInv ==
  ASSUME MailInv, NEW h \in Calls, Return(h), NEW p \in Pairs, call[h].pair = p,
         sends' = [sends EXCEPT ![p] = "broken"],
         live' = live \ Owned(p) \/ live' = live,
         used' \subseteq Links, used' \cap live' = {},
         UNCHANGED <<mailerVars, account, password, link, lost>>
  PROVE  MailInv'
<1>1. /\ call' \in [Calls -> CallRow] /\ call'[h] = Idle /\ CallOK(h)'
      /\ \A g \in Calls \ {h} : call'[g] = call[g]
  BY ReturnWrites
<1>2. MailerTypeOK' /\ Waiting' = Waiting /\ handed' = handed
  BY DEF MailInv, MailerTypeOK, mailerVars, Waiting
<1>3. /\ sends' \in [Pairs -> {"none", "ok", "broken"}] /\ sends'[p] = "broken"
      /\ \A q \in Pairs \ {p} : sends'[q] = sends[q]
  BY DEF MailInv, AccountTypeOK
<1>4. AccountTypeOK'
  <2>1. live' \subseteq live
    OBVIOUS
  <2> QED
    BY <1>1, <1>2, <1>3, <2>1 DEF MailInv, AccountTypeOK, Links
<1>5. LinksActAsIssued'
  BY <1>2, IssuedKept
<1>6. ASSUME NEW g \in Calls PROVE CallOK(g)'
  <2>1. CASE g = h
    BY <1>1, <2>1
  <2>2. CASE g # h
    BY <1>1, <1>2, <2>2, CallKept DEF MailInv, Links
  <2> QED
    BY <2>1, <2>2
<1>7. ASSUME NEW q \in Pairs PROVE SendsOK(q)'
  <2>1. CASE q = p
    BY <1>3, <2>1 DEF SendsOK
  <2>2. CASE q # p
    <3>1. \A i \in live : link[i] = q => i \in live' /\ link'[i] = q
      BY <2>2 DEF Owned
    <3>2. call[h].pair # q /\ call'[h].pair # q
      <4>1. <<>> # q
        BY PairNotEmpty
      <4> QED
        BY <1>1, <2>2, <4>1, IdleRow
    <3>3. sends'[q] = sends[q] /\ handed \cup Waiting \subseteq handed' \cup Waiting'
      BY <1>2, <1>3, <2>2
    <3> QED
      BY <1>1, <3>1, <3>2, <3>3, OtherSendsKept
  <2> QED
    BY <2>1, <2>2
<1> QED
  BY <1>2, <1>4, <1>5, <1>6, <1>7 DEF MailInv

LEMMA FailSendKeepsInv ==
  ASSUME MailInv, NEW h \in Calls, FailSend(h)
  PROVE  MailInv'
<1>1. CASE call[h].at = "delete"
  BY <1>1, ReturnQuietlyKeepsInv DEF FailSend, Quiet, Sending
<1>2. CASE call[h].at # "delete"
  <2>1. PICK p \in Pairs : call[h].pair = p
    BY DEF FailSend, MailInv, CallOK
  <2>2. /\ sends' = [sends EXCEPT ![p] = "broken"] /\ Return(h)
        /\ UNCHANGED <<mailerVars, account, password, link, live, used, lost>>
    BY <1>2, <2>1 DEF FailSend
  <2>3. used' \subseteq Links /\ used' \cap live' = {}
    BY <2>2 DEF MailInv, AccountTypeOK, LinksActAsIssued
  <2> QED
    BY <2>1, <2>2, <2>3, BrokenKeepsInv
<1> QED
  BY <1>1, <1>2

LEMMA DeleteLinksKeepsInv ==
  ASSUME MailInv, NEW h \in Calls, DeleteLinks(h)
  PROVE  MailInv'
<1>1. PICK p \in Pairs, k \in Numbers \cup {0} : call[h] = [at |-> "clean", pair |-> p, link |-> k]
  BY CallShape DEF DeleteLinks
<1>2. k \in Links /\ link[k] = p
  BY <1>1 DEF MailInv, CallOK, Redeeming
<1>3. /\ live' = live \ Owned(p) /\ used' = used \cup {k} /\ Return(h)
      /\ sends' = [sends EXCEPT ![p] = "broken"]
      /\ UNCHANGED <<mailerVars, account, password, link, lost>>
  BY <1>1 DEF DeleteLinks
<1>4. used' \subseteq Links /\ used' \cap live' = {}
  BY <1>2, <1>3 DEF MailInv, AccountTypeOK, LinksActAsIssued, Owned
<1>5. call[h].pair = p
  BY <1>1
<1> QED
  BY <1>3, <1>4, <1>5, BrokenKeepsInv

(* After a restart only what was mailed counts: sends that had mail waiting, *)
(* or that were under way, are broken.                                       *)
LEMMA RestartKeepsInv ==
  ASSUME MailInv, Restart
  PROVE  MailInv'
<1>1. MailerTypeOK' /\ handed' = handed /\ Waiting' = {}
  BY RestartEmpties
<1>2. \A h \in Calls : call'[h] = Idle
  BY DEF Restart
<1>3. call' \in [Calls -> CallRow]
  BY IdleRow DEF Restart
<1>4. /\ UNCHANGED <<account, password, link, live, used>>
      /\ lost' \subseteq lost \cup Waiting
  BY DEF Restart
<1>5. AccountTypeOK'
  <2>1. sends' \in [Pairs -> {"none", "ok", "broken"}]
    BY DEF Restart, MailInv, AccountTypeOK
  <2>2. lost' \subseteq Links
    BY <1>4 DEF MailInv, AccountTypeOK
  <2> QED
    BY <1>1, <1>3, <1>4, <2>1, <2>2 DEF MailInv, AccountTypeOK, Links
<1>6. LinksActAsIssued'
  BY <1>1, <1>4 DEF MailInv, LinksActAsIssued
<1>7. \A h \in Calls : CallOK(h)'
  BY <1>2, IdleRow DEF CallOK, Redeeming
<1>8. ASSUME NEW q \in Pairs, sends'[q] # "broken", sends'[q] = "ok" \/ Busy(q)'
      PROVE  Served(q)'
  <2>1. ~Busy(q)'
    BY <1>2, IdleRow DEF Busy, Sending
  <2>2. /\ ~Busy(q) /\ sends[q] = "ok"
        /\ \A k \in Waiting : link[k] # q
    BY <1>8, <2>1 DEF Restart
  <2>3. Served(q)
    BY <2>2 DEF MailInv, SendsOK
  <2>4. \A h \in Calls : ~WillMail(h, q)
    BY <2>2 DEF WillMail, Busy, Sending
  <2>5. PICK k \in Owned(q) : k \in handed \cup Waiting
    BY <2>3, <2>4 DEF Served
  <2>6. k \in handed /\ k \in Owned(q)'
    BY <1>4, <2>2, <2>5 DEF Owned
  <2> QED
    BY <1>1, <2>6 DEF Served
<1> QED
  BY <1>1, <1>5, <1>6, <1>7, <1>8 DEF MailInv, SendsOK

(* The mailer only moves mail along: no pair is served any less.             *)
LEMMA MailerKeepsInv ==
  ASSUME MailInv, UNCHANGED accountVars, MailerTypeOK', handed \subseteq handed',
         Waiting' \subseteq Waiting, handed' \cup Waiting' = handed \cup Waiting
  PROVE  MailInv'
<1>1. UNCHANGED <<account, password, link, live, call, used, sends, lost>>
  BY DEF accountVars
<1>2. AccountTypeOK'
  BY <1>1 DEF MailInv, AccountTypeOK, Links
<1>3. LinksActAsIssued'
  BY <1>1, IssuedKept DEF MailInv, LinksActAsIssued
<1>4. \A g \in Calls : CallOK(g)'
  BY <1>1, CallKept DEF MailInv, Links
<1>5. ASSUME NEW q \in Pairs PROVE SendsOK(q)'
  <2>1. (Busy(q)' <=> Busy(q)) /\ Owned(q)' = Owned(q)
    BY <1>1 DEF Busy, Owned
  <2>2. \A g \in Calls : WillMail(g, q) => WillMail(g, q)'
    BY <1>1 DEF WillMail
  <2>3. Served(q) => Served(q)'
    BY <2>1, <2>2, ServedKept
  <2> QED
    BY <1>1, <2>1, <2>3 DEF MailInv, SendsOK
<1> QED
  BY <1>2, <1>3, <1>4, <1>5 DEF MailInv

LEMMA MailInitInv == Init => MailInv
<1> SUFFICES ASSUME Init PROVE MailInv
  OBVIOUS
<1> USE DEF Init, MailerInit, AccountInit
<1>1. Waiting = {}
  <2>1. Range(queue) = {}
    BY DEF Range
  <2> QED
    BY <2>1 DEF Started, Waiting
<1>2. MailerTypeOK
  BY Bounds DEF MailerTypeOK, Started
<1>3. AccountTypeOK
  <2>1. Len(link) = 0 /\ link \in Seq(Pairs) /\ 0 <= MaxLinks
    BY Bounds
  <2>2. call \in [Calls -> CallRow]
    BY IdleRow
  <2> QED
    BY <1>1, <2>1, <2>2 DEF AccountTypeOK
<1>4. \A h \in Calls : CallOK(h)
  BY IdleRow DEF CallOK, Redeeming
<1>5. LinksActAsIssued
  BY DEF LinksActAsIssued
<1>6. \A p \in Pairs : SendsOK(p)
  BY IdleRow DEF SendsOK, Busy, Sending
<1> QED
  BY <1>2, <1>3, <1>4, <1>5, <1>6 DEF MailInv

LEMMA MailStep == MailInv /\ [Next]_vars => MailInv'
<1> SUFFICES ASSUME MailInv, [Next]_vars PROVE MailInv'
  OBVIOUS
<1>1. ASSUME NEW h \in Calls, NEW u \in Users, Register(h, u) PROVE MailInv'
  BY <1>1, RegisterKeepsInv
<1>2. ASSUME NEW h \in Calls, NEW p \in Pairs, AskForLink(h, p) PROVE MailInv'
  BY <1>2, AskForLinkKeepsInv
<1>3. ASSUME NEW h \in Calls,
             CreateUser(h) \/ DeleteOldLinks(h) \/ CreateLink(h) \/ CheckStopped(h)
               \/ EnqueueMail(h) \/ FailSend(h)
      PROVE  MailInv'
  BY <1>3, CreateUserKeepsInv, DeleteOldLinksKeepsInv, CreateLinkKeepsInv,
     CheckStoppedKeepsInv, EnqueueMailKeepsInv, FailSendKeepsInv
<1>4. ASSUME NEW h \in Calls, NEW k \in Links, FindLink(h, k) PROVE MailInv'
  BY <1>4, FindLinkKeepsInv
<1>5. ASSUME NEW h \in Calls, UseLink(h) \/ DeleteLinks(h) \/ FailRedeem(h) PROVE MailInv'
  BY <1>5, UseLinkKeepsInv, DeleteLinksKeepsInv, FailRedeemKeepsInv
<1>6. ASSUME NEW w \in Workers, Work(w), UNCHANGED accountVars PROVE MailInv'
  BY <1>6, WorkKeepsMail, MailerKeepsInv DEF MailInv
<1>7. CASE Stop /\ UNCHANGED accountVars
  BY <1>7, StopKeepsMail, MailerKeepsInv DEF MailInv
<1>8. CASE Restart
  BY <1>8, RestartKeepsInv
<1>9. CASE UNCHANGED vars
  <2>1. UNCHANGED accountVars /\ UNCHANGED mailerVars
    BY <1>9 DEF vars
  <2>2. MailerTypeOK' /\ handed' = handed /\ Waiting' = Waiting
    BY <2>1 DEF mailerVars, MailInv, MailerTypeOK, Waiting
  <2> QED
    BY <2>1, <2>2, MailerKeepsInv
<1> QED
  BY <1>1, <1>2, <1>3, <1>4, <1>5, <1>6, <1>7, <1>8, <1>9 DEF Next

(* The inductive invariant: what each call has in hand, and that a pair      *)
(* whose sends all succeeded has a live link mailed, waiting, or on its way. *)
THEOREM MailInvHolds == Spec => []MailInv
<1> QED
  BY MailInitInv, MailStep, PTL DEF Spec

(* However registrations, resends, resets and redemptions of any number of   *)
(* users overlap and fail: a password is only set and an account only        *)
(* verified through a link mailed to its owner for that purpose, and a link  *)
(* that has been reported as used is deleted.                                *)
THEOREM LinksAreSound == Spec => []LinksActAsIssued
<1>1. MailInv => LinksActAsIssued
  BY DEF MailInv
<1> QED
  BY <1>1, MailInvHolds, PTL

(* A user whose requests for mail were all accepted is never left with dead  *)
(* links only, although each request deletes the links of the others.        *)
THEOREM SomeMailedLinkLives == Spec => []LastMailHasLiveLink
<1>1. ASSUME MailInv PROVE LastMailHasLiveLink
  <2> SUFFICES ASSUME NEW p \in Pairs, sends[p] = "ok", ~Busy(p)
               PROVE  Owned(p) \cap (handed \cup Waiting) # {}
    BY DEF LastMailHasLiveLink
  <2>1. Served(p)
    BY <1>1 DEF MailInv, SendsOK
  <2>2. \A h \in Calls : ~WillMail(h, p)
    BY DEF WillMail, Busy, Sending
  <2> QED
    BY <2>1, <2>2 DEF Served
<1> QED
  BY <1>1, MailInvHolds, PTL
-----------------------------------------------------------------------------
(* What Stop leaves: a worker that has returned holds no mail, and Stop only *)
(* returns after the workers.                                                *)
ExitsOK ==
  /\ \A w \in Workers : worker[w].loop = "exited" => worker[w].msg = NoMail
  /\ stop = "returned" => AllExited

LEMMA WorkKeepsExits ==
  ASSUME MailerTypeOK, ExitsOK, NEW w \in Workers, Work(w)
  PROVE  /\ ExitsOK'
         /\ (~AllExited /\ AllExited') => Waiting' = {}
<1>1. /\ \A v \in Workers \ {w} : worker'[v] = worker[v]
      /\ worker'[w].loop = "exited" => worker'[w].msg = NoMail
      /\ worker[w].loop = "exited" => worker'[w].loop = "exited"
      /\ worker[w].loop # "exited" /\ worker'[w].loop = "exited" => Drained(w)
  <2>1. CASE Receive(w)
    BY <2>1 DEF Receive, MailerTypeOK
  <2>2. CASE SendNow(w)
    BY <2>2 DEF SendNow, MailerTypeOK
  <2>3. CASE SeeQuit(w)
    BY <2>3 DEF SeeQuit, MailerTypeOK
  <2>4. CASE Drained(w)
    BY <2>4 DEF Drained, MailerTypeOK
  <2> QED
    BY <2>1, <2>2, <2>3, <2>4 DEF Work
<1>2. stop' = stop
  BY WorkKeepsMail
<1>3. ExitsOK'
  BY <1>1, <1>2 DEF ExitsOK, AllExited
<1>4. ASSUME ~AllExited, AllExited' PROVE Waiting' = {}
  <2>1. Drained(w)
    BY <1>1, <1>2, <1>4 DEF AllExited
  <2>2. queue' = <<>> /\ Range(queue') = {}
    BY <2>1 DEF Drained, Range
  <2>3. \A v \in Workers : worker'[v].msg = NoMail
    BY <1>3, <1>4 DEF ExitsOK, AllExited
  <2> QED
    BY <2>2, <2>3 DEF Waiting
<1> QED
  BY <1>3, <1>4

LEMMA OtherStepsKeepExits ==
  ASSUME MailerTypeOK, ExitsOK, [Next]_vars, ~(\E w \in Workers : Work(w)), ~Restart
  PROVE  ExitsOK' /\ worker' = worker /\ Waiting \subseteq Waiting'
<1>1. CASE UNCHANGED mailerVars
  BY <1>1 DEF mailerVars, ExitsOK, AllExited, Waiting
<1>2. CASE \E h \in Calls : EnqueueMail(h)
  <2>1. UNCHANGED <<worker, stop>> /\ \E k : queue' = Append(queue, k)
    BY <1>2 DEF EnqueueMail, Enqueue
  <2>2. Range(queue) \subseteq Range(queue')
    <3>1. /\ \E k : queue' = Append(queue, k)
          /\ queue \in Seq(Numbers)
      BY <2>1 DEF MailerTypeOK
    <3>2. /\ DOMAIN queue = 1..Len(queue) /\ DOMAIN queue' = 1..(Len(queue) + 1)
          /\ Len(queue) \in Nat /\ \A n \in 1..Len(queue) : queue'[n] = queue[n]
      BY <3>1
    <3> QED
      BY <3>2 DEF Range
  <2> QED
    BY <2>1, <2>2 DEF ExitsOK, AllExited, Waiting
<1>3. CASE Stop
  BY <1>3 DEF Stop, ExitsOK, AllExited, Waiting
<1>4. \/ \E h \in Calls : EnqueueMail(h)
      \/ Stop
      \/ UNCHANGED mailerVars
  BY DEF Next, vars, Register, AskForLink, CreateUser, DeleteOldLinks, CreateLink,
         CheckStopped, FailSend, FindLink, UseLink, DeleteLinks, FailRedeem
<1> QED
  BY <1>1, <1>2, <1>3, <1>4

(* Neither Stop nor a failing delegate loses a mail that was accepted while  *)
(* a worker runs: it stays until it is handed over, or the process crashes.  *)
THEOREM AcceptedMailStays == Spec => AcceptedMailIsKept
<1> DEFINE Kept ==
             /\ ~AllExited => Waiting \subseteq Waiting' \cup handed' \cup lost'
             /\ (~AllExited /\ AllExited') => Waiting' = {}
<1>1. Init => ExitsOK
  BY DEF Init, MailerInit, Started, ExitsOK
<1>2. ASSUME MailInv, ExitsOK, [Next]_vars PROVE ExitsOK' /\ Kept
  <2>1. CASE \E w \in Workers : Work(w)
    <3>1. PICK w \in Workers : Work(w)
      BY <2>1
    <3>2. ExitsOK' /\ ((~AllExited /\ AllExited') => Waiting' = {})
      BY <1>2, <3>1, WorkKeepsExits DEF MailInv
    <3>3. handed' \cup Waiting' = handed \cup Waiting
      BY <1>2, <3>1, WorkKeepsMail DEF MailInv
    <3> QED
      BY <3>2, <3>3
  <2>2. CASE Restart
    <3>1. ExitsOK' /\ Waiting' = {}
      BY <2>2, RestartEmpties DEF Restart, ExitsOK, Started
    <3>2. ~AllExited => Waiting \subseteq lost'
      BY <1>2, <2>2 DEF Restart, ExitsOK
    <3> QED
      BY <3>1, <3>2
  <2>3. CASE ~(\E w \in Workers : Work(w)) /\ ~Restart
    <3>1. ExitsOK' /\ worker' = worker /\ Waiting \subseteq Waiting'
      BY <1>2, <2>3, OtherStepsKeepExits DEF MailInv
    <3> QED
      BY <3>1 DEF AllExited
  <2> QED
    BY <2>1, <2>2, <2>3
<1>3. MailInv /\ ExitsOK /\ [Next]_vars => ExitsOK' /\ [Kept]_vars
  BY <1>2
<1> QED
  BY <1>1, <1>3, MailInitInv, MailStep, PTL DEF Spec, AcceptedMailIsKept
=============================================================================
