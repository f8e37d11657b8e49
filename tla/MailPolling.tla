---------------------------- MODULE MailPolling ----------------------------
(***************************************************************************)
(* Reading a mailbox as messages come in: List, WaitFor, wake and          *)
(* NewMessageID (mailbox/store.go), the list route (mailbox/routes.go).    *)
(*                                                                         *)
(* A message's id begins with the time it was taken in, so ids order       *)
(* messages and any id is a cursor.  It is drawn before the message's      *)
(* files are written; the row comes after.  A long poll looks once, then   *)
(* parks a waiter that the next message stored past its cursor wakes.      *)
(***************************************************************************)
EXTENDS Integers, Sequences, FiniteSets, SequencesExt, FiniteSetsExt

CONSTANTS Pollers,       \* clients that page or wait
          MaxLetters,    \* bound on messages
          LetterPage,    \* limit
          MaxWaiters     \* parked at once per instance

ASSUME MailPollingAssumption == MaxLetters \in Nat /\ LetterPage \in Nat \ {0} /\ MaxWaiters \in Nat

VARIABLES drawn,       \* ids drawn so far, in order of time
          arriving,    \* drawn and not stored yet
          letters,     \* the message table's ids
          waiters,     \* Store.waiters: pollers parked -> id they wait past
          poller       \* what each client is doing
pollVars == <<drawn, arriving, letters, waiters, poller>>

\* "" sorts before every id.
Start == 0
Away == [at |-> "away", after |-> Start, seen |-> {}, owed |-> {}, got |-> {}]

PollInit == /\ drawn = 0 /\ arriving = {} /\ letters = {} /\ waiters = <<>>
            /\ poller = [c \in Pollers |-> Away]

-----------------------------------------------------------------------------
(* Messages come and go *)

\* NewMessageID: base36 of the time, so a later draw is a larger id.
Draws == /\ drawn < MaxLetters /\ drawn' = drawn + 1 /\ arriving' = arriving \cup {drawn + 1}
         /\ UNCHANGED <<letters, waiters, poller>>

\* wake: every waiter whose cursor the message is past gets it and is parked no longer.
Woken(id) == {c \in DOMAIN waiters : id > waiters[c]}
\* StoreMessage: the row, then whoever waits for it.
Stores(id) ==
  /\ id \in arriving /\ arriving' = arriving \ {id} /\ letters' = letters \cup {id}
  /\ waiters' = [c \in DOMAIN waiters \ Woken(id) |-> waiters[c]]
  /\ poller' = [c \in Pollers |-> IF c \in Woken(id) THEN [poller[c] EXCEPT !.got = {id}] ELSE poller[c]]
  /\ UNCHANGED drawn

LetterGoes(id) ==
  /\ id \in letters /\ letters' = letters \ {id}
  /\ poller' = [c \in Pollers |-> [poller[c] EXCEPT !.owed = @ \ {id}]]
  /\ UNCHANGED <<drawn, arriving, waiters>>

-----------------------------------------------------------------------------
(* Paging, newest first: what List answers past a cursor *)

Smallest(S, n) == {x \in S : Cardinality({y \in S : y < x}) < n}
Largest(S, n) == {x \in S : Cardinality({y \in S : y > x}) < n}

\* List with a cursor: at most a page of the newest before it; a full page with more after it has a
\* cursor, its last message's id.
Older(cursor) == IF cursor = Start THEN letters ELSE {i \in letters : i < cursor}
PageOf(S) == Largest(S, LetterPage)
\* Faulty: the cursor is the first message of the next page.
CursorPastPage(S) == IF Cardinality(S) > LetterPage THEN Min(Largest(S, LetterPage + 1)) ELSE Start

NextCursor(S) == IF Cardinality(S) > LetterPage THEN Min(PageOf(S)) ELSE Start

PagesFrom(c) ==
  /\ poller[c].at = "away"
  /\ poller' = [poller EXCEPT ![c] = [Away EXCEPT !.at = "paging", !.owed = letters]]
  /\ UNCHANGED <<drawn, arriving, letters, waiters>>

PagesOn(c) ==
  /\ poller[c].at = "paging"
  /\ LET rest == Older(poller[c].after)
     IN  poller' = [poller EXCEPT ![c].seen = @ \cup PageOf(rest), ![c].after = NextCursor(rest),
                      ![c].at = IF NextCursor(rest) = Start THEN "paged" ELSE "paging"]
  /\ UNCHANGED <<drawn, arriving, letters, waiters>>

-----------------------------------------------------------------------------
(* The long poll *)

\* WaitFor looks first: oldest first past the cursor, and answers when there is something.
WaitLooks(c, after) ==
  /\ poller[c].at = "away"
  /\ LET newer == {i \in letters : i > after}
     IN  poller' = [poller EXCEPT ![c] = [Away EXCEPT !.at = IF newer = {} THEN "looked" ELSE "answered",
                      !.after = after, !.got = Smallest(newer, LetterPage)]]
  /\ UNCHANGED <<drawn, arriving, letters, waiters>>

\* With nothing there it parks, if fewer than the limit are parked.
WaitParks(c) ==
  /\ poller[c].at = "looked"
  /\ IF Cardinality(DOMAIN waiters) >= MaxWaiters
     THEN poller' = [poller EXCEPT ![c].at = "answered"] /\ UNCHANGED waiters
     ELSE /\ waiters' = [x \in DOMAIN waiters \cup {c} |-> IF x = c THEN poller[c].after ELSE waiters[x]]
          /\ poller' = [poller EXCEPT ![c].at = "parked"]
  /\ UNCHANGED <<drawn, arriving, letters>>

\* Woken; or out of time, which may win even when both are ready.
WaitEnds(c, timedOut) ==
  /\ poller[c].at = "parked" /\ (timedOut \/ poller[c].got # {})
  /\ poller' = [poller EXCEPT ![c].at = IF timedOut THEN "timedout" ELSE "answered",
                  ![c].got = IF timedOut THEN {} ELSE @]
  /\ waiters' = [x \in DOMAIN waiters \ {c} |-> waiters[x]]
  /\ UNCHANGED <<drawn, arriving, letters>>

PollerDone(c) ==
  /\ poller[c].at \in {"paged", "answered", "timedout"}
  /\ poller' = [poller EXCEPT ![c] = Away]
  /\ UNCHANGED <<drawn, arriving, letters, waiters>>

PollNext == \/ Draws
            \/ \E id \in 1 .. drawn : Stores(id) \/ LetterGoes(id)
            \/ \E c \in Pollers : \/ PagesFrom(c) \/ PagesOn(c) \/ WaitParks(c) \/ PollerDone(c)
                                  \/ \E after \in 0 .. drawn : WaitLooks(c, after)
                                  \/ \E timedOut \in BOOLEAN : WaitEnds(c, timedOut)
PollSpec == PollInit /\ [][PollNext]_pollVars

-----------------------------------------------------------------------------
(* Properties *)

PollTyped == /\ letters \subseteq 1 .. drawn /\ arriving \subseteq 1 .. drawn /\ letters \cap arriving = {}
             /\ DOMAIN waiters \subseteq Pollers /\ Cardinality(DOMAIN waiters) <= MaxWaiters

\* A client that pages to the end has seen every message that was there when it began and still is,
\* whatever is stored and removed meanwhile (List's keyset cursor).
PagesComplete == \A c \in Pollers : poller[c].at = "paged" => poller[c].owed \subseteq poller[c].seen

\* Whoever pages through a mailbox to its end gets what was there all along, and no more wait than may.
PagesHold == PollTyped /\ PagesComplete

\* What WaitFor says: it waits "for the first one when there is none yet" and is empty on timeout.  A
\* wait that ends by its time found nothing because nothing past its cursor is there.
EmptyMeansNone == [][\A c \in Pollers : (poller[c].at = "parked" /\ poller'[c].at = "timedout") =>
                       {i \in letters : i > poller[c].after} = {}]_pollVars
=============================================================================
