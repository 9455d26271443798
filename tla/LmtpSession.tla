---------------------------- MODULE LmtpSession -----------------------------
(***************************************************************************)
(* One LMTP connection of the DSN propagator (internal/lmtp/lmtp.go): the  *)
(* command loop Serve, dispatch and the handlers.  A command is answered   *)
(* in the step that reads it; only DATA has a second part, the content.    *)
(*                                                                         *)
(* The client next to it is a sender that believes the replies it reads;   *)
(* it may send any command at any time, pipelined or out of sequence.      *)
(***************************************************************************)
EXTENDS Integers

CONSTANTS Paths,        \* forward paths
          NoPath        \* "no forward path"

ASSUME SessionAssumption == NoPath \notin Paths

VARIABLES state,        \* session.state; "data" while the content is read
          smtputf8, forwardPath,    \* session fields
          stream,       \* "open" while Serve runs
          reply,        \* code of the last reply
          view,         \* the client's transaction, as the replies told it
          handed        \* the delivery last handed to the handler

serverVars == <<state, smtputf8, forwardPath>>
sessionVars == <<state, smtputf8, forwardPath, stream, reply, view, handed>>

NoMail == [mail |-> "none", utf8 |-> "off", rcpt |-> NoPath]
Views == [mail : {"none", "null"}, utf8 : {"off", "on"}, rcpt : Paths \cup {NoPath}]

Codes == {220, 221, 250, 354, 421, 451, 452, 500, 502, 503, 550, 552, 555}

SessionTypeOK ==
    /\ state \in {"initial", "greeted", "mail", "recipient", "data"}
    /\ smtputf8 \in {"off", "on"} /\ forwardPath \in Paths \cup {NoPath}
    /\ stream \in {"open", "ended"} /\ reply \in Codes
    /\ view \in Views /\ handed \in Views

SessionInit ==
    /\ state = "initial" /\ smtputf8 = "off" /\ forwardPath = NoPath
    /\ stream = "open" /\ reply = 220
    /\ view = NoMail /\ handed = NoMail

(* Serve is at the top of its loop.                                        *)
AtCommand == stream = "open" /\ state # "data"

(* emit: the reply, and what the client makes of it.                       *)
Emit(code, v) == /\ reply' = code
                 /\ view' = v
                 /\ UNCHANGED <<stream, handed>>

(* A refused command changes nothing on either side.                       *)
Refuse(codes) == /\ \E code \in codes : Emit(code, view)
                 /\ UNCHANGED serverVars

(* Mutant: the transaction state survives a reset.                         *)
resetTransactionFieldsOnly(s) ==
    /\ smtputf8' = "off" /\ forwardPath' = NoPath
    /\ state' = s

(* resetTransaction, then the state s where the handler sets one.          *)
resetTransaction(s) ==
    /\ smtputf8' = "off" /\ forwardPath' = NoPath
    /\ state' = IF s \in {"mail", "recipient", "data"} THEN "greeted" ELSE s

handleLHLO == /\ AtCommand
              /\ \/ Refuse({500})                       \* unusable name
                 \/ resetTransaction("greeted") /\ Emit(250, NoMail)

(* The parameters of MAIL: a bad one, a size over the limit, a good set.   *)
handleMail ==
    /\ AtCommand
    /\ \/ state # "greeted" /\ Refuse({503})
       \/ state = "greeted" /\ Refuse({500, 550, 552, 555})
       \/ /\ state = "greeted"
          /\ \E u \in {"off", "on"} :
                /\ smtputf8' = u /\ state' = "mail"
                /\ Emit(250, [mail |-> "null", utf8 |-> u, rcpt |-> NoPath])
          /\ UNCHANGED forwardPath

(* Mutant: a further recipient replaces the first.                         *)
handleRecipientReplaces ==
    /\ AtCommand /\ state \in {"mail", "recipient"}
    /\ \E p \in Paths :
          /\ forwardPath' = p /\ state' = "recipient"
          /\ IF state = "mail" THEN Emit(250, [view EXCEPT !.rcpt = p])
             ELSE Emit(452, view)
    /\ UNCHANGED smtputf8

handleRecipient ==
    /\ AtCommand
    /\ \/ state \notin {"mail", "recipient"} /\ Refuse({503})
       \/ state \in {"mail", "recipient"} /\ Refuse({500, 555})
       \/ state = "recipient" /\ Refuse({452})
       \/ /\ state = "mail"
          /\ \E p \in Paths : /\ forwardPath' = p /\ state' = "recipient"
                              /\ Emit(250, [view EXCEPT !.rcpt = p])
          /\ UNCHANGED smtputf8

handleData == /\ AtCommand
              /\ \/ state # "recipient" /\ Refuse({503})
                 \/ /\ state = "recipient"
                    /\ state' = "data"
                    /\ Emit(354, view)
                    /\ UNCHANGED <<smtputf8, forwardPath>>

Delivery == [mail |-> "null", utf8 |-> smtputf8, rcpt |-> forwardPath]

(* collect returned: too large, empty, or handed to the handler, whose     *)
(* panic defers.  The fields are copied before the reset.                  *)
Collected ==
    /\ stream = "open" /\ state = "data"
    /\ resetTransaction(state)
    /\ view' = NoMail
    /\ \/ reply' \in {552, 451} /\ UNCHANGED handed
       \/ reply' \in {250, 550, 451} /\ handed' = Delivery
    /\ UNCHANGED stream

RSET == /\ AtCommand
        /\ resetTransaction(state)
        /\ Emit(IF state = "initial" THEN 503 ELSE 250, NoMail)

(* NOOP, HELO and EHLO, an unknown verb, an overlong line.                 *)
Other == AtCommand /\ Refuse({250, 500, 502})

(* QUIT, cancellation at the top of the loop, or the stream breaks.        *)
End == /\ stream = "open"
       /\ stream' = "ended"
       /\ \/ state # "data" /\ reply' \in {221, 421}
          \/ UNCHANGED reply
       /\ UNCHANGED <<serverVars, view, handed>>

SessionNext == \/ handleLHLO \/ handleMail \/ handleRecipient \/ handleData
               \/ Collected \/ RSET \/ Other \/ End

SessionSpec == SessionInit /\ [][SessionNext]_sessionVars

(***************************************************************************)
(* Properties.                                                             *)
(***************************************************************************)
(* ViewsAgree: in whatever order commands come, server and client agree on *)
(* the transaction the replies have built up: its sender, its one          *)
(* recipient and its SMTPUTF8 flag.  No transaction leaks into the next    *)
(* one over RSET, a second LHLO, a refused command or a finished DATA.     *)
ViewsAgree ==
    stream = "open" =>
        /\ view.mail = "null" <=> state \in {"mail", "recipient", "data"}
        /\ view.rcpt # NoPath <=> state \in {"recipient", "data"}
        /\ view.mail = "null" => view.utf8 = smtputf8
        /\ view.rcpt # NoPath => view.rcpt = forwardPath

(* HandsOverTheTransaction: what the propagation handler receives is the   *)
(* transaction the client was told had been accepted, complete: a null     *)
(* sender, exactly one recipient, its SMTPUTF8 flag.                       *)
HandsOverTheTransaction ==
    [][handed' # handed => handed' = view /\ view.rcpt \in Paths]_sessionVars
=============================================================================
