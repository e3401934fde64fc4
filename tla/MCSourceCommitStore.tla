------------------------- MODULE MCSourceCommitStore -------------------------
(* Small instances of the executor and its store. *)
EXTENDS SourceCommitStore

CONSTANTS w1, w2, s1, s2, l1

Own(docs) == [to |-> docs, via |-> NoLink, op |-> "none", link |-> NoLink]
Joined(l) == [to |-> {}, via |-> l, op |-> "none", link |-> NoLink]
Subscribing(e, l) == [e EXCEPT !.op = "subscribe", !.link = l]
Unsubscribing(e, l) == [e EXCEPT !.op = "unsubscribe", !.link = l]

\* Documents 1 and 2 take the link from each other, and a joined event of
\* each source follows it; then document 1 gives it up.
LinkedLog ==
  s1 :> << <<Subscribing(Own({1}), l1), Joined(l1)>> >>
  @@ s2 :> << <<Joined(l1), Subscribing(Own({2}), l1)>>, <<Unsubscribing(Own({1}), l1)>> >>

\* Two sources write the same document.
SharedLog == s1 :> << <<Own({1})>> >> @@ s2 :> << <<Own({1})>> >>

\* Outcomes are unknown only once a source has nothing new: bounds the runs.
UnknownLate == faults > 0 => \E s \in Sources : done[s] = Len(Log[s])

Symmetry == Permutations(Workers)
=============================================================================
