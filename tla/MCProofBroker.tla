---- MODULE MCProofBroker ----
EXTENDS ProofBroker

CONSTANTS first, second

Offer(action, explicit, id, issued, expires) ==
    [readable |-> TRUE, action |-> action, explicit |-> explicit, id |-> id,
     issued |-> issued, expires |-> expires]

\* The id first is used for two requests, second for one; an implicit request;
\* one of a namespace that is refused, one without an id, one whose window is
\* too long and one that cannot be read.  Of the windows in order one is over by the
\* time the clock is 1 and one is still to come when it is 0.
MCOffers ==
    { Offer("owner", TRUE, first, 1, 4),
      Offer("credential", TRUE, first, 1, 4),
      Offer("portable", TRUE, second, -1, 2),
      Offer("owner", FALSE, NoId, 2, 5),
      Offer("shell", FALSE, NoId, 1, 4),
      Offer("owner", TRUE, NoId, 1, 4),
      Offer("owner", FALSE, NoId, 1, 6),
      [Offer("owner", FALSE, NoId, 1, 4) EXCEPT !.readable = FALSE] }

MCAllowed == {"owner", "credential", "authority", "ops", "portable"}
====
