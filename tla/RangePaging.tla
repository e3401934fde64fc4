----------------------------- MODULE RangePaging -----------------------------
(***************************************************************************)
(* How a pass of the source-tail poller turns an indexed history into       *)
(* complete commits: the probe of the source, the two range readers of      *)
(* packages/projection-transport (over MongoDB row by row, over an indexed  *)
(* Tapeworm in one call), the check of every page and the dispatch, while   *)
(* the source goes on committing.  Sequence 0 is position 1 of the history. *)
(***************************************************************************)
EXTENDS Naturals, Sequences, SequencesExt

CONSTANTS
  Sizes,        \* encoded sizes of commits, positive
  MaxHistory,   \* bound of the history
  MaxCommits, MaxBytes,   \* limits of a page
  MaxPages      \* pages of a pass

ASSUME PagingAssumption ==
  /\ Sizes \subseteq Nat \ {0} /\ MaxHistory \in Nat
  /\ {MaxCommits, MaxBytes, MaxPages} \subseteq Nat \ {0}

VARIABLES
  reader,    \* "mongo" or "indexed"
  history,   \* rows by position: a size, 0 where malformed or gone
  present,   \* the positions that have a row
  anchor,    \* the accepted baseline
  pass       \* the pass in progress

pageVars == <<reader, history, present, anchor, pass>>

NoPage == [rows |-> <<>>, bytes |-> 0]
NewPass(after) == [phase |-> "idle", from |-> after, after |-> after, through |-> 0, pages |-> 0,
                   page |-> NoPage, todo |-> <<>>]

\* The rows the operator's history starts with: malformed and missing ones
\* among them.
PagingInit ==
  /\ reader \in {"mongo", "indexed"}
  /\ \E n \in 1 .. MaxHistory - 1 :
       /\ history \in [1 .. n -> Sizes \cup {0}]
       /\ present \in {P \in SUBSET (1 .. n) : n \in P /\ \A i \in 1 .. n : history[i] # 0 => i \in P}
       /\ anchor \in 0 .. n
  /\ pass = NewPass(anchor)

\* decodeRow: the row is well formed.
Decodes(i) == i \in present /\ history[i] # 0

SourceCommits(size) ==
  /\ Len(history) < MaxHistory
  /\ history' = Append(history, size)
  /\ present' = present \cup {Len(history) + 1}
  /\ UNCHANGED <<reader, anchor, pass>>

Ends(result) == pass' = [pass EXCEPT !.phase = result, !.page = NoPage, !.todo = <<>>]

\* probeSource: the row of the baseline, then the highest row.
Probe ==
  LET high == Len(history)
  IN /\ pass.phase = "idle"
     /\ IF (anchor > 0 => Decodes(anchor)) /\ Decodes(high) /\ pass.after <= high
        THEN pass' = [pass EXCEPT !.phase = "open", !.through = high]
        ELSE Ends("unprobed")
     /\ UNCHANGED <<reader, history, present, anchor>>

\* The loop of pollSource: another page, or the end of the pass.
OpenPage ==
  /\ pass.phase = "open"
  /\ pass.after < pass.through /\ pass.pages < MaxPages
  /\ pass' = [pass EXCEPT !.phase = "reading", !.page = NoPage]
  /\ UNCHANGED <<reader, history, present, anchor>>

ClosePass ==
  /\ pass.phase = "open"
  /\ ~(pass.after < pass.through /\ pass.pages < MaxPages)
  /\ Ends(CASE pass.after = pass.through -> "caught_up"
            [] pass.after # pass.through /\ pass.after = pass.from -> "stalled"
            [] OTHER -> "continuation")
  /\ UNCHANGED <<reader, history, present, anchor>>

-----------------------------------------------------------------------------
Taken(page, i) == [rows |-> Append(page.rows, i), bytes |-> page.bytes + history[i]]

\* validateCompleteCommitRange, for the rows and the hasMore of a page.
ValidPage(page, hasMore) ==
  LET next == pass.after + Len(page.rows) + 1
  IN /\ Len(page.rows) = 0 => ~hasMore
     /\ Len(page.rows) <= MaxCommits
     /\ \A k \in DOMAIN page.rows : page.rows[k] = pass.after + k /\ page.rows[k] <= pass.through
     /\ page.bytes <= MaxBytes
     /\ hasMore <=> next <= pass.through

Answer(page, hasMore) ==
  IF ValidPage(page, hasMore)
  THEN pass' = [pass EXCEPT !.phase = "dispatching", !.page = page, !.todo = page.rows]
  ELSE Ends("unavailable")

\* Mutant of Full: one commit more than the page may have.
FullLate(page, i) == Len(page.rows) > MaxCommits \/ page.bytes + history[i] > MaxBytes

Full(page, i) == Len(page.rows) >= MaxCommits \/ page.bytes + history[i] > MaxBytes

\* The rows the cursor has yet to return, at most maxCommits + 1 in all.
Remaining ==
  LET last == IF Len(pass.page.rows) = 0 THEN pass.after ELSE Last(pass.page.rows)
  IN {i \in present : last < i /\ i <= pass.through}

\* The Mongo reader takes one row of the cursor at a time.
ReadRow ==
  LET i == CHOOSE i \in Remaining : \A j \in Remaining : i <= j
      page == pass.page
  IN /\ reader = "mongo" /\ pass.phase = "reading"
     /\ Remaining # {} /\ Len(page.rows) <= MaxCommits
     /\ CASE ~Decodes(i) \/ i # pass.after + Len(page.rows) + 1 -> Ends("unavailable")
          [] Decodes(i) /\ i = pass.after + 1 /\ history[i] > MaxBytes -> Ends("oversized")
          [] OTHER -> IF Full(page, i) THEN Answer(page, TRUE) ELSE pass' = [pass EXCEPT !.page = Taken(page, i)]
     /\ UNCHANGED <<reader, history, present, anchor>>

CursorEnds ==
  /\ reader = "mongo" /\ pass.phase = "reading"
  /\ Remaining = {} \/ Len(pass.page.rows) > MaxCommits
  /\ IF pass.after + Len(pass.page.rows) < pass.through THEN Ends("unavailable") ELSE Answer(pass.page, FALSE)
  /\ UNCHANGED <<reader, history, present, anchor>>

\* The indexed reader takes maxCommits + 1 rows, in order, and bounds them.
Queried ==
  LET Row(rows, i) == IF i \in Remaining /\ Len(rows) <= MaxCommits THEN Append(rows, i) ELSE rows
  IN FoldLeft(Row, <<>>, [i \in 1 .. pass.through |-> i])

Bounded(rows) ==
  LET Bound(page, i) == IF page.full \/ Full(page, i)
                        THEN [page EXCEPT !.full = TRUE]
                        ELSE [full |-> FALSE, rows |-> Taken(page, i).rows, bytes |-> Taken(page, i).bytes]
  IN FoldLeft(Bound, [full |-> FALSE, rows |-> <<>>, bytes |-> 0], rows)

ReadIndexed ==
  LET rows == Queried
      page == Bounded(rows)
      after == IF page.rows = <<>> THEN pass.after ELSE Last(page.rows)
      hasMore == Len(rows) > Len(page.rows) \/ after < pass.through
  IN /\ reader = "indexed" /\ pass.phase = "reading"
     /\ CASE \E k \in DOMAIN rows : ~Decodes(rows[k]) -> Ends("unavailable")
          [] rows # <<>> /\ (\A k \in DOMAIN rows : Decodes(rows[k])) /\ Head(rows) # pass.after + 1 -> Ends("unavailable")
          [] rows # <<>> /\ (\A k \in DOMAIN rows : Decodes(rows[k])) /\ Head(rows) = pass.after + 1
               /\ history[Head(rows)] > MaxBytes -> Ends("oversized")
          [] OTHER -> Answer([rows |-> page.rows, bytes |-> page.bytes], hasMore)
     /\ UNCHANGED <<reader, history, present, anchor>>

\* The commits of a page go to the coordinator one after another.
DispatchNext ==
  /\ pass.phase = "dispatching"
  /\ IF pass.todo = <<>>
     THEN pass' = [pass EXCEPT !.phase = "open", !.pages = @ + 1]
     ELSE pass' = [pass EXCEPT !.after = Head(pass.todo), !.todo = Tail(@)]
  /\ UNCHANGED <<reader, history, present, anchor>>

DispatchFails ==
  /\ pass.phase = "dispatching" /\ pass.todo # <<>>
  /\ Ends("failed")
  /\ UNCHANGED <<reader, history, present, anchor>>

PassEnded == {"caught_up", "continuation", "stalled", "unavailable", "oversized", "unprobed", "failed"}

\* The next pass starts at the coverage.
NextPass ==
  /\ pass.phase \in PassEnded
  /\ pass' = NewPass(pass.after)
  /\ UNCHANGED <<reader, history, present, anchor>>

PagingNext ==
  \/ \E size \in Sizes : SourceCommits(size)
  \/ Probe \/ OpenPage \/ ClosePass \/ ReadRow \/ CursorEnds \/ ReadIndexed
  \/ DispatchNext \/ DispatchFails \/ NextPass

PagingSpec == PagingInit /\ [][PagingNext]_pageVars

-----------------------------------------------------------------------------
(* Whatever the sizes of the commits and the rows that are missing or       *)
(* malformed, and although the source grows during a pass: a pass goes      *)
(* wrong only over a row it needs, so that a history whose rows are all      *)
(* there and fit a page is read to its probed end by pages within both       *)
(* limits, never stalls, and no commit behind a gap is dispatched            *)
(* (sourceTailPoller.ts:155-185 with either reader).                         *)
PagesCoverTheHistory ==
  LET window == {i \in pass.after + 1 .. pass.through : i <= pass.after + MaxCommits + 1}
  IN /\ \A i \in anchor + 1 .. pass.after : Decodes(i) /\ history[i] <= MaxBytes
     /\ pass.phase = "unavailable" => \E i \in window : ~Decodes(i)
     /\ pass.phase = "oversized" => history[pass.after + 1] > MaxBytes
     /\ pass.phase # "stalled"
     /\ pass.phase = "continuation" => pass.after >= pass.from + MaxPages
     /\ pass.phase = "dispatching" =>
          /\ Len(pass.page.rows) <= MaxCommits /\ pass.page.bytes <= MaxBytes
          /\ \A k \in DOMAIN pass.todo : pass.todo[k] = pass.after + k
=============================================================================
