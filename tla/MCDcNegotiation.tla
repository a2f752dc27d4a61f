-------------------------- MODULE MCDcNegotiation --------------------------
(* DcNegotiation on small instances: two peers, three threads each, and how *)
(* many descriptions each thread may apply.                                *)
EXTENDS DcNegotiation, TLC

CONSTANTS a, b, app, app2, sig

Budget(atA, atB) == a :> atA @@ b :> atB

Each(appN, app2N, sigN) == app :> appN @@ app2 :> app2N @@ sig :> sigN

\* A round, and a second application thread of b that applies one more.
RoundAndOne == [takesPart |-> Peers, kinds |-> {"offer", "answer"},
                applies |-> Budget(Each(2, 0, 0), Each(2, 1, 0))]

\* Rollbacks as well, of the offerer and of the answerer.
Rollback(applies) == [takesPart |-> Peers, kinds |-> {"offer", "answer", "rollback"},
                      applies |-> applies]

\* A round whose answerer also applies a description in an observer callback; the
\* offerer takes no part.
RoundAndCallback == [RoundAndOne EXCEPT !.takesPart = {b},
                                        !.applies = Budget(Each(2, 0, 0), Each(1, 1, 1))]

AllModes == {RoundAndOne, RoundAndCallback,
             Rollback(Budget(Each(2, 0, 0), Each(1, 1, 0))),
             Rollback(Budget(Each(1, 0, 0), Each(2, 1, 0)))}

\* One thread each, and a retry.
RetryModes == {[RoundAndOne EXCEPT !.applies = Budget(Each(2, 0, 0), Each(3, 0, 0))]}

=============================================================================
