----------------------------- MODULE MailIntake -----------------------------
(***************************************************************************)
(* How mail gets into a mailbox and out of it: admission (inbound.go and   *)
(* Admit in store.go), the SMTP listener (smtp.go), inject and compose     *)
(* (routes.go), sending with loopback (send.go, PrepareSend), the address  *)
(* table and the day's counters (store.go, service.go).                    *)
(*                                                                         *)
(* A message is counted against the day's inbound cap when it is admitted, *)
(* before its body is read, and stored later: an SMTP client names its     *)
(* recipients one by one and then hands over one body for all of them.  A  *)
(* send takes a slot of the mailbox, then one of the organisation's, and   *)
(* then goes through admission and ingest of each local recipient.         *)
(***************************************************************************)
EXTENDS Integers, Sequences, FiniteSets, SequencesExt, FiniteSetsExt

CONSTANTS Boxes, Locals,       \* mailbox instances, local parts
          Strangers,           \* senders and recipients outside, written as pairs too
          MailSettings,        \* the settings a mailbox may have
          OrgSendsPerDay,      \* the organisation's cap
          SmtpAuthenticated,   \* --smtp-auth: what the listener says of its senders
          MaxRecipients,       \* recipients of one transaction or send
          MaxMailDay, MaxStored, MaxOps      \* bounds

\* settings: acceptMode, inCap (inboundDailyCap), sendMode, outCap (dailySendCap)
ASSUME MailIntakeAssumption ==
  /\ \A c \in MailSettings : /\ c.acceptMode \in {"any", "registered"} /\ c.inCap \in Nat \ {0}
                             /\ c.sendMode \in {"off", "reply", "any"} /\ c.outCap \in Nat
  /\ OrgSendsPerDay \in Nat /\ SmtpAuthenticated \in BOOLEAN
  /\ {MaxRecipients, MaxMailDay, MaxStored, MaxOps} \subseteq Nat

VARIABLES today,       \* the UTC day
          boxes,       \* registered instances
          settings,    \* their settings
          addresses,   \* address table: <<box, local>> -> [registered, disabled]
          dayCount,    \* day_count: <<box, kind, day>> -> messages
          org,         \* orgDay and orgSent, in memory
          kept,        \* the message table: place -> message
          session,     \* the SMTP connection
          posts,       \* a request on its way in, and a send: kind -> what it holds
          transaction, granted,   \* ghosts: SMTP transactions begun, addresses admitted in each
          sentBack     \* ghost: sends refused after a slot was taken
intakeVars == <<today, boxes, settings, addresses, dayCount, org, kept, session, posts,
                transaction, granted, sentBack>>

Addresses == Boxes \X Locals
Days == 0 .. MaxMailDay
Quiet == [at |-> "idle", box |-> CHOOSE b \in Boxes : TRUE, local |-> CHOOSE l \in Locals : TRUE,
          to |-> <<>>, day |-> 0]
NoSession == [greeted |-> FALSE, inTx |-> FALSE, from |-> CHOOSE s \in Strangers : TRUE, rcpts |-> <<>>,
              left |-> <<>>, at |-> "ready"]

MailIntakeInit ==
  /\ today = 0 /\ boxes = Boxes /\ settings \in [Boxes -> MailSettings]
  /\ addresses = <<>> /\ dayCount = [k \in Boxes \X {"in", "out"} \X Days |-> 0]
  /\ org = [day |-> 0, n |-> 0] /\ kept = <<>> /\ session = NoSession
  /\ posts = [k \in {"inject", "send"} |-> Quiet]
  /\ transaction = 0 /\ granted = {} /\ sentBack = 0

-----------------------------------------------------------------------------
(* Admission *)

\* Faulty: one more than the cap.
HasRoomOver(n, cap) == n <= cap

\* takeCount, under its lock: read, compare with the cap, add one.
HasRoom(n, cap) == n < cap

\* Admit: a disabled address, an unregistered one where that matters, a mailbox over its day's cap.
Refuses(b, l) ==
  LET known == <<b, l>> \in DOMAIN addresses
  IN  \/ known /\ addresses[<<b, l>>].disabled
      \/ settings[b].acceptMode = "registered" /\ ~(known /\ addresses[<<b, l>>].registered)
      \/ ~HasRoom(dayCount[<<b, "in", today>>], settings[b].inCap)

\* AdmitAddress and admitLocal: an instance that is there, and room, which is counted now.
Admits(b, l) == b \in boxes /\ ~Refuses(b, l)
Counted(b, kind) == [dayCount EXCEPT ![<<b, kind, today>>] = @ + 1]

\* A message takes a place that is free.
Free(f) == CHOOSE i \in 1 .. (Cardinality(DOMAIN f) + 1) : i \notin DOMAIN f
Filed(f, m) == [i \in DOMAIN f \cup {Free(f)} |-> IF i = Free(f) THEN m ELSE f[i]]
Within(f, S) == [i \in DOMAIN f \cap S |-> f[i]]

\* Ingest, as far as the message table goes.
Stored(b, l, from, verified, tx) ==
  Filed(kept, [box |-> b, local |-> l, direction |-> "in", from |-> from, verified |-> verified,
               day |-> today, tx |-> tx])

-----------------------------------------------------------------------------
(* The SMTP listener: one connection, its commands in any order *)

SmtpIdle == session.at = "ready"
\* Faulty: the recipients stay.
TransactionResetFrom(s) == [s EXCEPT !.inTx = FALSE]

\* What EHLO, RSET and the end of a transaction do to it.
TransactionReset(s) == [s EXCEPT !.inTx = FALSE, !.rcpts = <<>>]

SmtpHello ==
  /\ SmtpIdle /\ session' = [TransactionReset(session) EXCEPT !.greeted = TRUE]
  /\ UNCHANGED <<today, boxes, settings, addresses, dayCount, org, kept, posts, transaction, granted, sentBack>>

SmtpMail ==
  /\ SmtpIdle /\ session.greeted /\ ~session.inTx /\ transaction < MaxOps
  /\ transaction' = transaction + 1
  /\ \E from \in Strangers : session' = [session EXCEPT !.inTx = TRUE, !.from = from]
  /\ UNCHANGED <<today, boxes, settings, addresses, dayCount, org, kept, posts, granted, sentBack>>

\* RCPT: refused here, or admitted, counted and remembered.
SmtpRcpt(b, l) ==
  /\ SmtpIdle /\ session.inTx /\ Len(session.rcpts) < MaxRecipients
  /\ Admits(b, l)
  /\ session' = [session EXCEPT !.rcpts = Append(@, <<b, l>>)]
  /\ dayCount' = Counted(b, "in") /\ granted' = granted \cup {<<transaction, b, l>>}
  /\ UNCHANGED <<today, boxes, settings, addresses, org, kept, posts, transaction, sentBack>>

SmtpData ==
  /\ SmtpIdle /\ session.inTx /\ session.rcpts # <<>>
  /\ session' = [session EXCEPT !.at = "data", !.left = session.rcpts]
  /\ UNCHANGED <<today, boxes, settings, addresses, dayCount, org, kept, posts, transaction, granted, sentBack>>

\* deliver: each admitted recipient in turn, those whose instance is gone skipped; one that cannot be
\* stored ends it with 451, the ones before it stay stored.
SmtpDelivers ==
  /\ session.at = "data" /\ session.left # <<>>
  /\ LET to == Head(session.left)
     IN  \/ /\ to[1] \in boxes /\ Cardinality(DOMAIN kept) < MaxStored
            /\ kept' = Stored(to[1], to[2], session.from, SmtpAuthenticated, transaction)
            /\ session' = [session EXCEPT !.left = Tail(@)]
         \/ to[1] \notin boxes /\ session' = [session EXCEPT !.left = Tail(@)] /\ UNCHANGED kept
         \/ session' = [session EXCEPT !.left = <<>>] /\ UNCHANGED kept
  /\ UNCHANGED <<today, boxes, settings, addresses, dayCount, org, posts, transaction, granted, sentBack>>

SmtpAnswers ==
  /\ session.at = "data" /\ session.left = <<>>
  /\ session' = [TransactionReset(session) EXCEPT !.at = "ready"]
  /\ UNCHANGED <<today, boxes, settings, addresses, dayCount, org, kept, posts, transaction, granted, sentBack>>

\* RSET, or a body over the limit; and a connection that ends, a new one in its place.
SmtpResets ==
  /\ SmtpIdle
  /\ session' \in {TransactionReset(session), NoSession}
  /\ UNCHANGED <<today, boxes, settings, addresses, dayCount, org, kept, posts, transaction, granted, sentBack>>

-----------------------------------------------------------------------------
(* Inject, compose, an uploaded message *)

InjectAdmits(b, l) ==
  /\ posts["inject"].at = "idle" /\ Admits(b, l)
  /\ dayCount' = Counted(b, "in")
  /\ posts' = [posts EXCEPT !["inject"] = [Quiet EXCEPT !.at = "admitted", !.box = b, !.local = l]]
  /\ UNCHANGED <<today, boxes, settings, addresses, org, kept, session, transaction, granted, sentBack>>

InjectStores ==
  LET me == posts["inject"]
  IN  /\ me.at = "admitted" /\ Cardinality(DOMAIN kept) < MaxStored
      /\ \E from \in Strangers, authenticated \in BOOLEAN :
           kept' = IF me.box \in boxes THEN Stored(me.box, me.local, from, authenticated, 0) ELSE kept
      /\ posts' = [posts EXCEPT !["inject"] = Quiet]
      /\ UNCHANGED <<today, boxes, settings, addresses, dayCount, org, session, transaction, granted, sentBack>>

-----------------------------------------------------------------------------
(* Sending *)

\* HasWrittenToUs: authenticated mail from this sender is in the table.
HasWritten(b, who) == \E k \in DOMAIN kept : /\ kept[k].box = b /\ kept[k].direction = "in"
                                             /\ kept[k].from = who /\ kept[k].verified

\* PrepareSend: the From address is not disabled, in reply mode every recipient has written, and the
\* mailbox's own cap has room, of which one slot is taken.
SendPrepares(b, l, to) ==
  /\ posts["send"].at = "idle" /\ b \in boxes /\ settings[b].sendMode # "off"
  /\ Cardinality({k \in DOMAIN kept : kept[k].direction = "out"}) + sentBack < MaxOps
  /\ ~(<<b, l>> \in DOMAIN addresses /\ addresses[<<b, l>>].disabled)
  /\ settings[b].sendMode = "reply" => \A k \in DOMAIN to : HasWritten(b, to[k])
  /\ HasRoom(dayCount[<<b, "out", today>>], settings[b].outCap)
  /\ dayCount' = Counted(b, "out")
  /\ posts' = [posts EXCEPT !["send"] = [at |-> "slot", box |-> b, local |-> l, to |-> to, day |-> today]]
  /\ UNCHANGED <<today, boxes, settings, addresses, org, kept, session, transaction, granted, sentBack>>

\* takeOrgSend: a new day starts the organisation's count over.
OrgToday(day) == IF org.day = day THEN org.n ELSE 0

\* ReturnSend: the slot of the day it was taken on is given back.
SlotBack(b, day) == [dayCount EXCEPT ![<<b, "out", day>>] = IF @ > 0 THEN @ - 1 ELSE 0]

\* The organisation's cap has the last word; refused there, the mailbox's slot is returned.
SendAsksOrg ==
  LET me == posts["send"]
  IN  /\ me.at = "slot"
      /\ IF OrgToday(me.day) < OrgSendsPerDay
         THEN /\ org' = [day |-> me.day, n |-> OrgToday(me.day) + 1]
              /\ posts' = [posts EXCEPT !["send"].at = "loopback"]
              /\ UNCHANGED <<dayCount, sentBack>>
         ELSE /\ dayCount' = SlotBack(me.box, me.day) /\ sentBack' = sentBack + 1
              /\ org' = [day |-> me.day, n |-> OrgToday(me.day)]
              /\ posts' = [posts EXCEPT !["send"] = Quiet]
      /\ UNCHANGED <<today, boxes, settings, addresses, kept, session, transaction, granted>>

\* loopbackDeliver: one recipient through Deliver, admission and ingest, the sender authenticated.
SendLoopsBack ==
  LET me == posts["send"]
  IN  /\ me.at = "loopback" /\ me.to # <<>>
      /\ LET to == Head(me.to)
         IN  IF to \in Addresses /\ Admits(to[1], to[2]) /\ Cardinality(DOMAIN kept) < MaxStored
             THEN /\ dayCount' = Counted(to[1], "in")
                  /\ kept' = Stored(to[1], to[2], <<me.box, me.local>>, TRUE, 0)
             ELSE UNCHANGED <<dayCount, kept>>
      /\ posts' = [posts EXCEPT !["send"].to = Tail(@)]
      /\ UNCHANGED <<today, boxes, settings, addresses, org, session, transaction, granted, sentBack>>

\* The sent copy is stored, under the day the send began.
SendStores ==
  LET me == posts["send"]
  IN  /\ me.at = "loopback" /\ me.to = <<>>
      /\ kept' = IF me.box \in boxes
                 THEN Filed(kept, [box |-> me.box, local |-> me.local, direction |-> "out",
                                   from |-> <<me.box, me.local>>, verified |-> FALSE, day |-> me.day,
                                   tx |-> 0])
                 ELSE kept
      /\ posts' = [posts EXCEPT !["send"] = Quiet]
      /\ UNCHANGED <<today, boxes, settings, addresses, dayCount, org, session, transaction, granted, sentBack>>

-----------------------------------------------------------------------------
(* Addresses and the rest of the world *)

\* PutAddress registers and re-enables; DisableAddress leaves whether it is registered.
PutAddress(a, how) ==
  /\ a[1] \in boxes
  /\ LET was == IF a \in DOMAIN addresses THEN addresses[a].registered ELSE FALSE
         row == IF how = "put" THEN [registered |-> TRUE, disabled |-> FALSE]
                ELSE [registered |-> was, disabled |-> TRUE]
     IN  /\ addresses' = [x \in DOMAIN addresses \cup {a} |-> IF x = a THEN row ELSE addresses[x]]
         /\ addresses' # addresses
  /\ UNCHANGED <<today, boxes, settings, dayCount, org, kept, session, posts, transaction, granted, sentBack>>

\* A message is removed, or expires.
MailGoes(k) ==
  /\ k \in DOMAIN kept /\ kept' = Within(kept, DOMAIN kept \ {k})
  /\ UNCHANGED <<today, boxes, settings, addresses, dayCount, org, session, posts, transaction, granted, sentBack>>

\* An instance is deleted with everything it holds.
DropBox(b) ==
  /\ b \in boxes /\ boxes' = boxes \ {b}
  /\ kept' = Within(kept, {k \in DOMAIN kept : kept[k].box # b})
  /\ addresses' = [a \in {x \in DOMAIN addresses : x[1] # b} |-> addresses[a]]
  /\ UNCHANGED <<today, settings, dayCount, org, session, posts, transaction, granted, sentBack>>

Midnight ==
  /\ today < MaxMailDay /\ today' = today + 1
  /\ UNCHANGED <<boxes, settings, addresses, dayCount, org, kept, session, posts, transaction, granted, sentBack>>

Smtp == \/ SmtpHello \/ SmtpMail \/ SmtpData \/ SmtpDelivers \/ SmtpAnswers \/ SmtpResets
        \/ \E a \in Addresses : SmtpRcpt(a[1], a[2])
Injects == InjectStores \/ \E a \in Addresses : InjectAdmits(a[1], a[2])
Sends == \/ SendAsksOrg \/ SendLoopsBack \/ SendStores
         \/ \E a \in Addresses, to \in SeqOf(Addresses \cup Strangers, MaxRecipients) \ {<<>>} :
               SendPrepares(a[1], a[2], to)
MailIntakeNext == \/ Smtp \/ Injects \/ Sends \/ Midnight
                  \/ \E a \in Addresses : PutAddress(a, "put") \/ PutAddress(a, "disable")
                  \/ \E k \in DOMAIN kept : MailGoes(k)
                  \/ \E b \in Boxes : DropBox(b)
MailIntakeSpec == MailIntakeInit /\ [][MailIntakeNext]_intakeVars

-----------------------------------------------------------------------------
(* Properties *)

MailIntakeTyped ==
  /\ today \in Days /\ boxes \subseteq Boxes /\ DOMAIN addresses \subseteq Addresses
  /\ dayCount \in [Boxes \X {"in", "out"} \X Days -> Nat] /\ org.n \in 0 .. OrgSendsPerDay
  /\ Cardinality(DOMAIN kept) <= MaxStored + MaxOps /\ Len(session.rcpts) <= MaxRecipients

\* A refusal at RCPT TO stands: what an SMTP transaction stores is for addresses admitted in that same
\* transaction, however HELO, MAIL, RCPT, DATA and RSET follow each other (smtp.go handle).
OnlyAdmitted == \A k \in DOMAIN kept : kept[k].tx > 0 => <<kept[k].tx, kept[k].box, kept[k].local>> \in granted

Total(b, kind) == Cardinality(UNION {{d} \X (1 .. dayCount[<<b, kind, d>>]) : d \in Days})
Held(b, direction) == Cardinality({k \in DOMAIN kept : kept[k].box = b /\ kept[k].direction = direction})
Sending(b) == IF posts["send"].at # "idle" /\ posts["send"].box = b THEN 1 ELSE 0
SentOn(b, d) == Cardinality({k \in DOMAIN kept : /\ kept[k].box = b /\ kept[k].direction = "out"
                                                  /\ kept[k].day = d})

\* The counters mean what they say, across midnight and a refusal by the organisation's cap: no day
\* is over a cap, no more mail is held than was counted in, and no day's sent mail, with the send
\* under way, is more than its counter shows (takeCount, ReturnSend, takeOrgSend).
CountsHold == \A b \in boxes :
  /\ \A d \in Days : /\ dayCount[<<b, "in", d>>] <= settings[b].inCap
                     /\ dayCount[<<b, "out", d>>] <= settings[b].outCap
                     /\ dayCount[<<b, "out", d>>] >= SentOn(b, d)
                          + (IF posts["send"].day = d THEN Sending(b) ELSE 0)
  /\ Held(b, "in") <= Total(b, "in")

\* Only admitted mail is stored, and what is stored and sent stays within the counts.
IntakeHolds == MailIntakeTyped /\ OnlyAdmitted /\ CountsHold
=============================================================================
