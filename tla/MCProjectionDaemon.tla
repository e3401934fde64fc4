------------------------- MODULE MCProjectionDaemon -------------------------
(* A small instance of the projection daemon: two documents, one joined    *)
(* aggregate.  Events of the projected stream reach one document or both.  *)
EXTENDS ProjectionDaemon, TLC

To(docs, op) == [to |-> docs, via |-> NoLink, op |-> op,
                 link |-> IF op = "none" THEN NoLink ELSE CHOOSE l \in Links : TRUE]
Via(l, op) == [to |-> <<>>, via |-> l, op |-> op, link |-> IF op = "none" THEN NoLink ELSE l]

A == CHOOSE d \in Docs : TRUE
B == CHOOSE d \in Docs \ {A} : TRUE

\* Both documents subscribe; one of them, which are otherwise alike, unsubscribes.
MCEvents == {To(<<d>>, "subscribe") : d \in Docs} \cup {To(<<A>>, "unsubscribe")}
              \cup {To(<<A, B>>, "none"), To(<<A, B>>, "subscribe")}
              \cup {Via(l, op) : l \in Links, op \in {"none", "unsubscribe"}}

\* One document subscribes and unsubscribes: no removal is staged over another.
OneHolderEvents == {To(<<A>>, op) : op \in {"subscribe", "unsubscribe"}}
                     \cup {Via(l, "none") : l \in Links}
=============================================================================
