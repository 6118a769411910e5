---- MODULE MCDirectTransport ----
EXTENDS Handshake

CONSTANTS first, second

Link(expires, isPortable, id) ==
    [private |-> TRUE, sound |-> TRUE, fits |-> TRUE, portable |-> isPortable,
     expires |-> expires, invite |-> id]

\* Two portable links, the later of which lives too long at first, a plain one, one to a
\* public address, one with a malformed port or invitation, one with an overlong mode.
MCLinks ==
    { Link(2, TRUE, first), Link(3, TRUE, second), Link(2, FALSE, second),
      [Link(2, TRUE, first) EXCEPT !.private = FALSE],
      [Link(2, TRUE, first) EXCEPT !.sound = FALSE],
      [Link(2, TRUE, first) EXCEPT !.fits = FALSE] }

\* Values that may have END in them; keys and signatures are hexadecimal.
MCTails == {"HOST_NAME", "HOST_IDENTITY", "POLICY"}

\* The key last, and the optional fields last: a greeting that can be cut before the key,
\* behind it, and before its end.
MCHellos == { <<"HOST_NAME", "HOST_PUB", "END">>,
              <<"HOST_PUB", "HOST_NAME", "HOST_IDENTITY", "END">> }

\* POLICY with END at the end of its value; with more behind that END, the rest of the
\* value or another field; and before the signature, without which a verdict does not do.
MCVerdicts == { <<"AUTH_OK", "HOST_SIG", "POLICY", "END">>,
                <<"AUTH_OK", "HOST_SIG", "POLICY", "REST", "END">>,
                <<"AUTH_OK", "POLICY", "HOST_SIG", "END">>,
                <<"AUTH_PAIR_REQUIRED", "END">> }
====
