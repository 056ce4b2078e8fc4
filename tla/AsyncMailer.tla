----------------------------- MODULE AsyncMailer -----------------------------
(* The asynchronous mailer (pkg/mailer/async.go): a bounded queue, workers    *)
(* that hand its messages to the delegate, and Stop, which drains the queue.  *)
(* Send reads the stop flag and enqueues in two steps: a sender may be        *)
(* between them while Stop runs.  A message is the number of its link.        *)
EXTENDS Naturals, Sequences

CONSTANTS Workers, QueueSize, NoMail

ASSUME QueueHasRoom == QueueSize \in Nat \ {0}

VARIABLES queue,   \* msgChan
          worker,  \* the loop each worker is in and the message it holds
          stop,    \* how far Stop has come
          handed   \* messages given to the delegate

mailerVars == <<queue, worker, stop, handed>>

Started == [w \in Workers |-> [loop |-> "select", msg |-> NoMail]]

MailerInit == queue = <<>> /\ worker = Started /\ stop = "no" /\ handed = {}

Stopped == stop # "no"
QuitClosed == stop \in {"quit", "returned"}
AllExited == \A w \in Workers : worker[w].loop = "exited"

(* The second half of Send: the queue takes the message or is full.           *)
QueueFull == Len(queue) = QueueSize
Enqueue(m) ==
  /\ ~QueueFull /\ queue' = Append(queue, m)
  /\ UNCHANGED <<worker, stop, handed>>

Receive(w) ==
  /\ worker[w].loop # "exited" /\ worker[w].msg = NoMail /\ queue # <<>>
  /\ worker' = [worker EXCEPT ![w].msg = Head(queue)] /\ queue' = Tail(queue)
  /\ UNCHANGED <<stop, handed>>

(* delegate.Send; an error of the delegate is only logged.                    *)
SendNow(w) ==
  /\ worker[w].msg # NoMail
  /\ handed' = handed \cup {worker[w].msg}
  /\ worker' = [worker EXCEPT ![w].msg = NoMail]
  /\ UNCHANGED <<queue, stop>>

(* Variant: a worker does not drain the queue before it returns. *)
ExitAtOnce(w) ==
  /\ worker[w] = [loop |-> "select", msg |-> NoMail] /\ QuitClosed
  /\ worker' = [worker EXCEPT ![w].loop = "exited"]
  /\ UNCHANGED <<queue, stop, handed>>
SeeQuit(w) ==
  /\ worker[w] = [loop |-> "select", msg |-> NoMail] /\ QuitClosed
  /\ worker' = [worker EXCEPT ![w].loop = "drain"]
  /\ UNCHANGED <<queue, stop, handed>>

Drained(w) ==
  /\ worker[w] = [loop |-> "drain", msg |-> NoMail] /\ queue = <<>>
  /\ worker' = [worker EXCEPT ![w].loop = "exited"]
  /\ UNCHANGED <<queue, stop, handed>>

Work(w) == Receive(w) \/ SendNow(w) \/ SeeQuit(w) \/ Drained(w)

(* Stop: the flag, the channel, the wait for the workers.                     *)
Stop ==
  /\ \/ stop = "no" /\ stop' = "flagged"
     \/ stop = "flagged" /\ stop' = "quit"
     \/ stop = "quit" /\ AllExited /\ stop' = "returned"
  /\ UNCHANGED <<queue, worker, handed>>
=============================================================================
