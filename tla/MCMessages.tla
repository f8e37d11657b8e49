------------------------------ MODULE MCMessages ------------------------------
(***************************************************************************)
(* The client libraries' channel socket and the mailbox: how mail gets in  *)
(* and out, what is done with a message, and how clients read the list.    *)
(* They share no state here, so a behaviour is about one of them, and      *)
(* `part` says which, within which bounds: "socket", which publishes       *)
(* nothing, and "answers", with one channel; "race", a delivery around the *)
(* loop and a replay; "faults", around a crash, a removal and expiry;      *)
(* "smtp" and "send", the ways in and out; "poll", the readers.            *)
(***************************************************************************)
EXTENDS ChannelSocket, MailDelivery, MailIntake, MailPolling

CONSTANTS a, b
VARIABLE part

MCRouteChoices == {<<"queue">>}
MCRetryAfter == <<1>>
MCMailSettings == {[acceptMode |-> "any", inCap |-> 2, sendMode |-> "reply", outCap |-> 2]}
MCStrangers == {<<"net", "x">>}

messageVars == <<part, SocketVars, mailVars, intakeVars, pollVars>>

Init == /\ SocketInit /\ MailInit /\ MailIntakeInit /\ PollInit
        /\ part \in {"socket", "answers", "race", "faults", "smtp", "send", "poll"}
        /\ part \notin {"socket", "answers"} => lang = "go"

\* The application is polite (Polite), and has one channel or publishes nothing.
SocketPart == SocketNext /\ Polite /\ pendingPubs' = <<>>
AnswersPart == SocketNext /\ Polite /\ \A k \in DOMAIN calls' : calls'[k].chs \subseteq {a}

\* In the race nothing is lost: no crash, and a message once stored stays as it is; there may be a
\* replay.  Among the faults there is none, and what expires was kept for less than its time.
Lossless == /\ UNCHANGED mailCrashes /\ doing'[Remover].at = "idle"
            /\ \A i \in DOMAIN mails : i \in DOMAIN mails' /\ mails'[i] = mails[i]
Bounds == (part = "race" => Lossless) /\ (part = "faults" => UNCHANGED replays)

SmtpPart == MailIntakeNext /\ UNCHANGED <<posts, today>>
SendPart == /\ MailIntakeNext /\ UNCHANGED <<session, boxes, addresses>>
            /\ posts'["send"].box = posts'["inject"].box

Next == /\ UNCHANGED part
        /\ \/ /\ \/ part = "socket" /\ SocketPart
                 \/ part = "answers" /\ AnswersPart
              /\ UNCHANGED <<mailVars, intakeVars, pollVars>>
           \/ /\ part \in {"race", "faults"} /\ MailNext /\ Bounds
              /\ UNCHANGED <<SocketVars, intakeVars, pollVars>>
           \/ /\ \/ part = "smtp" /\ SmtpPart
                 \/ part = "send" /\ SendPart
              /\ UNCHANGED <<SocketVars, mailVars, pollVars>>
           \/ part = "poll" /\ PollNext /\ UNCHANGED <<SocketVars, mailVars, intakeVars>>

\* A link that is up is served or fails, a call is written; a goroutine goes on, and so does time.
Fairness ==
  /\ \A l \in 1 .. MaxLinks : WF_SocketVars(part = "answers" /\ l \in Live /\ LinkGoesOn(l))
  /\ \A k \in 1 .. MaxCalls : WF_SocketVars(part = "answers" /\ k \in DOMAIN calls /\ SendFrame(k))
  /\ LET on == part \in {"race", "faults"}
     IN  /\ WF_mailVars(on /\ LoopGoesOn) /\ WF_mailVars(on /\ ReplayGoesOn)
         /\ WF_mailVars(on /\ RemoveGoesOn) /\ WF_mailVars(on /\ MailTick)
         /\ \A i \in MailIds : WF_mailVars(on /\ InlineGoesOn(i))

Spec == Init /\ [][Next]_messageVars /\ Fairness

-----------------------------------------------------------------------------
\* Whatever is begun is answered: a call of the library, a delivery.
AllEnd == /\ \A k \in 1 .. MaxCalls : (part = "answers" /\ Owed(k)) ~> ~Waits(k)
          /\ DeliveriesEnd

=============================================================================
