-------------------------------- MODULE JobLog --------------------------------
(***************************************************************************)
(* What a container job prints, kept in a bounded buffer that drops its    *)
(* oldest lines, and a client that reads it a page at a time by offset.    *)
(* Source: cli/internal/container/logs.go.  A line is its number.          *)
(***************************************************************************)
EXTENDS Naturals, Sequences, SequencesExt

CONSTANTS
    LogLines,   \* MaxLogLines
    LogPage,    \* LogPageSize
    MaxPrinted  \* bound: lines a job prints

ASSUME LogAssumption ==
    LogLines \in Nat \ {0} /\ LogPage \in Nat \ {0} /\ MaxPrinted \in Nat

VARIABLES
    log,        \* logBuffer: the lines it holds and how many it dropped
    printed,    \* lines printed so far
    logReader   \* a client: its cursor, what it has read, whether it is at the end

LogVars == <<log, printed, logReader>>

NewReader == [from |-> 0, read |-> <<>>, ended |-> FALSE]

LogInit ==
    /\ log = [lines |-> <<>>, dropped |-> 0]
    /\ printed = 0 /\ logReader = NewReader

Min2(a, b) == IF a < b THEN a ELSE b

\* Faulty: one line too many is kept.
LogAddOver ==
    /\ printed < MaxPrinted /\ printed' = printed + 1
    /\ LET all == Append(log.lines, printed')
           over == IF Len(all) > LogLines + 1 THEN Len(all) - LogLines - 1 ELSE 0
       IN log' = [lines |-> SubSeq(all, over + 1, Len(all)), dropped |-> log.dropped + over]
    /\ UNCHANGED logReader

\* add: a line goes in at the back; what is too much falls off the front.
LogAdd ==
    /\ printed < MaxPrinted /\ printed' = printed + 1
    /\ LET all == Append(log.lines, printed')
           over == IF Len(all) > LogLines THEN Len(all) - LogLines ELSE 0
       IN log' = [lines |-> SubSeq(all, over + 1, Len(all)), dropped |-> log.dropped + over]
    /\ UNCHANGED logReader

\* Where a page starts and ends; an offset past the buffer's end starts again.
PageFrom(from) == IF from > Len(log.lines) THEN 0 ELSE from

\* Faulty: the page takes one line more than its cursor says.
PageEndOver(from) == Min2(PageFrom(from) + LogPage - 1, Len(log.lines))

PageEnd(from) == Min2(PageFrom(from) + LogPage, Len(log.lines))

LogLinesFrom(from) == SubSeq(log.lines, PageFrom(from) + 1, Min2(PageFrom(from) + LogPage, Len(log.lines)))

\* page: its lines, and a cursor when there are more.
LogRead ==
    /\ ~logReader.ended
    /\ LET from == PageFrom(logReader.from)
           end == PageEnd(logReader.from)
       IN logReader' = [from |-> end, read |-> logReader.read \o LogLinesFrom(from),
                        ended |-> end >= Len(log.lines)]
    /\ UNCHANGED <<log, printed>>

LogReadAgain ==
    /\ logReader.ended
    /\ logReader' = NewReader
    /\ UNCHANGED <<log, printed>>

LogNext == LogAdd \/ LogRead \/ LogReadAgain

LogSpec == LogInit /\ [][LogNext]_LogVars

-----------------------------------------------------------------------------
LogTyped ==
    /\ log.lines \in Seq(1..MaxPrinted) /\ Len(log.lines) <= LogLines /\ log.dropped \in 0..MaxPrinted
    /\ printed \in 0..MaxPrinted

\* A client that follows the cursors while the job prints reads every line at most once
\* and in the order it was printed, though the lines an offset stands for move when the
\* buffer drops some (add, page).
LogInOrder ==
    \A k, l \in DOMAIN logReader.read : k < l => logReader.read[k] < logReader.read[l]

\* The buffer stays within its bound, and a log read page by page is in order.
LogHolds == LogTyped /\ LogInOrder

=============================================================================
