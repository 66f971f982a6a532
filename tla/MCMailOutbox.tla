---------------------------- MODULE MCMailOutbox ----------------------------
(* Instances of MailOutbox for TLC. *)
EXTENDS MailOutbox, TLC

\* The rows an instance may use: name |-> <<kind, owner, reason>>.
Rows ==
    [alert    |-> <<"alert", "ann", "seats-open">>,
     wait     |-> <<"alert", "ann", "waitlist-open">>,
     bobAlert |-> <<"alert", "bob", "seats-open">>,
     blind    |-> <<"blind-window", "ann", "seats-open">>,
     confirm  |-> <<"confirmation", "ann", "seats-open">>,
     link     |-> <<"manage-link", "ann", "seats-open">>,
     ops      |-> <<"operator", "nobody", "seats-open">>,
     ops2     |-> <<"operator", "nobody", "seats-open">>]

\* The workers run the same code.
WorkerSymmetry == Permutations(Dispatcher)

MCKind == [j \in Job |-> Rows[j][1]]
MCOwner == [j \in Job |-> Rows[j][2]]
MCReason == [j \in Job |-> Rows[j][3]]
=============================================================================
