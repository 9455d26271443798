--------------------------- MODULE ReinjectSession --------------------------
(***************************************************************************)
(* One propagation attempt of the adapter after the daemon has reserved    *)
(* the coordinate: the rest of the request, the SMTP session that submits  *)
(* the signed notification (internal/reinject), and the commit, against a  *)
(* listener that answers late, refuses, answers oddly or hangs up.         *)
(*                                                                         *)
(* A step of the adapter takes any time up to the deadline the code sets   *)
(* for it; elapsed counts it from the reservation.                         *)
(***************************************************************************)
EXTENDS Integers, Sequences

CONSTANTS Request,      \* daemon.request_timeout
          Connect,      \* reinjection.connect_timeout
          Command,      \* reinjection.command_timeout
          Data,         \* reinjection.data_timeout
          Commit,       \* daemon.commit_timeout
          PendingLease  \* daemon.pending_lease

(* What a message may need of the listener; "SIZE" is being within its     *)
(* advertised size.                                                        *)
Extensions == {"SMTPUTF8", "8BITMIME", "SIZE"}

(* config.TransactionBudget, and the load-time check against the lease.    *)
TransactionBudget == Request + Connect + Command + Data + Commit

ASSUME BudgetAssumption == /\ {Request, Connect, Command, Data, Commit} \subseteq Nat \ {0}
                           /\ TransactionBudget < PendingLease

VARIABLES
    pos,        \* the adapter: position in Script, past it when done
    elapsed,    \* time since the reservation
    outcome,    \* "none", then what Send returned
    failedAt,   \* history: the step at which Send failed
    need,       \* extensions the message requires
    link,       \* the connection: "none", "up", "down" (listener gone), "closed"
    todo,       \* the listener: what it has received and not answered
    offers,     \* the extensions it advertised
    reply,      \* its reply on the wire
    accepted    \* it has taken responsibility for the notification

reinjectVars == <<pos, elapsed, outcome, failedAt, need, link, todo, offers, reply, accepted>>

Step(name, kind, bound) == [name |-> name, kind |-> kind, bound |-> bound]

Requesting == << Step("request", "call", Request), Step("dial", "dial", Connect) >>
Envelope == << Step("greeting", "read", Command),
               Step("EHLO", "write", Command), Step("ehlo", "read", Command),
               Step("MAIL", "write", Command), Step("mail", "read", Command),
               Step("RCPT", "write", Command), Step("rcpt", "read", Command),
               Step("DATA", "write", Command), Step("data", "read", Command) >>
Quitting == << Step("QUIT", "write", Command), Step("bye", "read", Command) >>
Committing == << Step("commit", "call", Commit) >>

(* Mutant: success is reported once the message is written.                *)
ScriptNoFinal == Requesting \o Envelope \o << Step("body", "write", Data) >>
                            \o Quitting \o Committing

(* run, in order, between the two calls to the daemon.                     *)
Script == Requesting \o Envelope
          \o << Step("body", "write", Data), Step("final", "read", Data) >>
          \o Quitting \o Committing

Running == pos <= Len(Script)
Now == Script[pos]
Polite == Now.name \in {"QUIT", "bye"}
Outcomes == {"none", "accepted", "deferred", "failed", "smtputf8_unavailable"}
Codes == {"expected", "other", "4xx", "5xx"}

ReinjectTypeOK == /\ pos \in 1..Len(Script) + 1
                  /\ elapsed \in Nat
                  /\ outcome \in Outcomes
                  /\ failedAt \in {"none"} \cup {Script[i].name : i \in 1..Len(Script)}
                  /\ (failedAt = "none") = (outcome \in {"none", "accepted"})
                  /\ need \subseteq Extensions /\ offers \subseteq Extensions
                  /\ link \in {"none", "up", "down", "closed"}
                  /\ todo \in {"none", "connection", "EHLO", "MAIL", "RCPT", "DATA", "body", "QUIT"}
                  /\ reply \in {"none"} \cup Codes
                  /\ accepted \in BOOLEAN

ReinjectInit == /\ pos = 1 /\ elapsed = 0
                /\ outcome = "none" /\ failedAt = "none"
                /\ need \in SUBSET Extensions
                /\ link = "none" /\ todo = "none" /\ offers = {} /\ reply = "none"
                /\ accepted = FALSE

(***************************************************************************)
(* The adapter.                                                            *)
(***************************************************************************)
Takes(d) == elapsed' = elapsed + d

Proceed == pos' = pos + 1 /\ UNCHANGED <<outcome, failedAt>>

(* An error leaves run, and the deferred Close the connection.             *)
Fail(o) == /\ pos' = Len(Script) + 1
           /\ outcome' = o /\ failedAt' = Now.name
           /\ link' = "closed"

(* Propagate's answer has come, with "accept".                             *)
Answered == /\ Running /\ Now.name = "request"
            /\ \E d \in 0..Now.bound : Takes(d)
            /\ Proceed
            /\ UNCHANGED <<need, link, todo, offers, reply, accepted>>

Dial == /\ Running /\ Now.kind = "dial"
        /\ \E d \in 0..Now.bound : Takes(d)
        /\ \/ Proceed /\ link' = "up" /\ todo' = "connection"
           \/ Fail("failed") /\ UNCHANGED todo
        /\ UNCHANGED <<need, offers, reply, accepted>>

(* write and transfer: the listener receives all of it, or the peer is     *)
(* gone and the bytes with it, or the deadline has passed and the          *)
(* terminating line has not left.                                          *)
Write == /\ Running /\ Now.kind = "write"
         /\ \E d \in 0..Now.bound : Takes(d)
         /\ \/ /\ Proceed
               /\ todo' = IF link = "up" THEN Now.name ELSE todo
               /\ UNCHANGED link
            \/ /\ IF Polite THEN Proceed /\ UNCHANGED link ELSE Fail("failed")
               /\ UNCHANGED todo
         /\ UNCHANGED <<need, offers, reply, accepted>>

(* classifyReply                                                           *)
classifyReply(code) == IF code = "4xx" THEN "deferred" ELSE "failed"

(* What the reply to EHLO lets the session do: "none" is to go on.         *)
helloCheck(code) ==
    CASE code # "expected" -> classifyReply(code)
      [] code = "expected" /\ "SMTPUTF8" \in need \ offers -> "smtputf8_unavailable"
      [] code = "expected" /\ (need \ offers) \ {"SMTPUTF8"} # {} -> "failed"
      [] OTHER -> "none"

Judge(code) == IF Now.name = "ehlo" THEN helloCheck(code)
               ELSE IF code = "expected" THEN "none" ELSE classifyReply(code)

(* Mutant: the deadline starts again with every line of a reply.           *)
ReadReplyPerLine ==
    /\ Running /\ Now.kind = "read" /\ reply # "none"
    /\ \E d \in 0..2 * Now.bound : Takes(d)
    /\ IF Polite \/ Judge(reply) = "none" THEN Proceed /\ UNCHANGED link ELSE Fail(Judge(reply))
    /\ reply' = "none"
    /\ UNCHANGED <<need, todo, offers, accepted>>

(* Mutant: the reply to QUIT counts.                                       *)
ReadReplyStrict ==
    /\ Running /\ Now.kind = "read" /\ reply # "none"
    /\ \E d \in 0..Now.bound : Takes(d)
    /\ IF Judge(reply) = "none" THEN Proceed /\ UNCHANGED link ELSE Fail(Judge(reply))
    /\ reply' = "none"
    /\ UNCHANGED <<need, todo, offers, accepted>>

(* readReply and expect: a reply within the deadline, which is set once.   *)
ReadReply ==
    /\ Running /\ Now.kind = "read" /\ reply # "none"
    /\ \E d \in 0..Now.bound : Takes(d)
    /\ IF Polite \/ Judge(reply) = "none" THEN Proceed /\ UNCHANGED link ELSE Fail(Judge(reply))
    /\ reply' = "none"
    /\ UNCHANGED <<need, todo, offers, accepted>>

(* Mutant: a read waits for as long as the connection stays up.            *)
ReadFailsOnHangup ==
    /\ Running /\ Now.kind = "read"
    /\ link = "down" /\ reply = "none"
    /\ \E d \in 0..Now.bound : Takes(d)
    /\ IF Polite THEN Proceed /\ UNCHANGED link ELSE Fail("failed")
    /\ UNCHANGED <<need, todo, offers, reply, accepted>>

(* The deadline passes, or the stream ends or holds no reply.              *)
ReadFails ==
    /\ Running /\ Now.kind = "read"
    /\ \/ Takes(Now.bound)
       \/ link = "down" /\ reply = "none" /\ \E d \in 0..Now.bound : Takes(d)
       \/ reply # "none" /\ \E d \in 0..Now.bound : Takes(d)      \* malformed
    /\ IF Polite THEN Proceed /\ UNCHANGED link ELSE Fail("failed")
    /\ UNCHANGED <<need, todo, offers, reply, accepted>>

(* Send returns nil; propagate calls Commit, which ends the attempt.       *)
CommitCall == /\ Running /\ Now.name = "commit"
              /\ \E d \in 0..Now.bound : Takes(d)
              /\ pos' = pos + 1 /\ outcome' = "accepted"
              /\ link' = "closed"
              /\ UNCHANGED <<failedAt, need, todo, offers, reply, accepted>>

Adapter == Answered \/ Dial \/ Write \/ ReadReply \/ ReadFails \/ CommitCall

(***************************************************************************)
(* The listener.                                                           *)
(***************************************************************************)
(* It answers what it has received, also when the client has gone.  A      *)
(* success reply to the message, whatever its code, takes it over.         *)
ListenerAnswers ==
    /\ link # "down" /\ todo # "none"
    /\ \E code \in Codes :
          /\ reply' = IF link = "up" THEN code ELSE "none"
          /\ accepted' = (accepted \/ (todo = "body" /\ code \in {"expected", "other"}))
    /\ IF todo = "EHLO" THEN offers' \in SUBSET Extensions ELSE UNCHANGED offers
    /\ todo' = "none"
    /\ UNCHANGED <<pos, elapsed, outcome, failedAt, need, link>>

(* It goes away: with what it said, without it, or with a 421.             *)
ListenerLeaves ==
    /\ link = "up"
    /\ link' = "down" /\ todo' = "none"
    /\ reply' \in {reply, "none"} \cup (IF reply = "none" THEN {"4xx"} ELSE {})
    /\ UNCHANGED <<pos, elapsed, outcome, failedAt, need, offers, accepted>>

ReinjectNext == Adapter \/ ListenerAnswers \/ ListenerLeaves

ReinjectSpec == ReinjectInit /\ [][ReinjectNext]_reinjectVars

(* The adapter's goroutine and its deadlines; nothing of the listener.     *)
ReinjectFairSpec == ReinjectSpec /\ WF_reinjectVars(Adapter)

(***************************************************************************)
(* Properties.                                                             *)
(***************************************************************************)
(* CommitsOnlyAccepted: the commit call is reached only when the listener  *)
(* has taken the notification, although it may hang up, answer late or     *)
(* answer QUIT badly (run, propagate).                                     *)
CommitsOnlyAccepted == outcome = "accepted" \/ (Running /\ Now.name = "commit") => accepted

(* OnlyFinalIsAmbiguous: a failed Send whose notification the listener     *)
(* took after all failed waiting for the final reply, and was not told     *)
(* 4xx; at every other step a failure means nothing was sent.              *)
OnlyFinalIsAmbiguous ==
    accepted /\ outcome \notin {"none", "accepted"} => failedAt = "final" /\ outcome = "failed"

(* AttemptBounded: what the deadlines really add up to, 11 command         *)
(* deadlines and 2 data deadlines.                                         *)
AttemptBounded == elapsed <= Request + Connect + 11 * Command + 2 * Data + Commit

(* SendEnds: the attempt ends whatever the listener does.                  *)
SendEnds == <>(~Running)

(* AttemptWithinLease, what README.md says of the load-time check: "so one *)
(* complete attempt finishes before the reservation expires".              *)
AttemptWithinLease == elapsed < PendingLease
=============================================================================
