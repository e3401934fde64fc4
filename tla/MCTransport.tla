----------------------------- MODULE MCTransport -----------------------------
(* Small instances of the transport store, of the paged reading of an        *)
(* indexed source and of the takeover of a collection, side by side: they    *)
(* share no state, so a behaviour is one of theirs.                          *)
EXTENDS TransportStore, RangePaging, LegacyTakeover, TLC

VARIABLE part

StorePart == vars

\* The initial states of the parts that do not move.
StoreRests == (\A c \in Clients : manifest[c] \in Joined) /\ (\A s \in Sources : coverage[s] = None)
PagingRests == reader = "mongo" /\ history = <<>> /\ present = {} /\ anchor = 0 /\ pass = NewPass(0)
TakeoverRests == \A d \in TakenDocs : row[d] = NoRow

MCInit ==
  /\ part \in {"store", "paging", "takeover"}
  /\ Init /\ TakeoverInit
  /\ part # "store" => StoreRests
  /\ part # "takeover" => TakeoverRests
  /\ IF part = "paging" THEN PagingInit ELSE PagingRests

MCNext ==
  /\ UNCHANGED part
  /\ \/ part = "store" /\ Next /\ UNCHANGED <<pageVars, takeoverVars>>
     \/ part = "paging" /\ PagingNext /\ UNCHANGED <<StorePart, takeoverVars>>
     \/ part = "takeover" /\ TakeoverNext /\ UNCHANGED <<StorePart, pageVars>>

MCSpec == MCInit /\ [][MCNext]_<<part, StorePart, pageVars, takeoverVars>>

Symmetry == Permutations(Clients) \cup Permutations(Inventories)
=============================================================================
