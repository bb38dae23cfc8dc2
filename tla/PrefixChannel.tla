---------------------------- MODULE PrefixChannel ----------------------------
(***************************************************************************)
(* What a protected connection promises its user, in each direction: what  *)
(* one end accepts is what the other end sent, in order, from the first    *)
(* message on and without a gap; once a direction has failed it accepts    *)
(* nothing more.                                                           *)
(***************************************************************************)
EXTENDS Naturals, Sequences

CONSTANTS End,      \* the two ends of the connection
          Message   \* what an end can send

VARIABLES sent,     \* sent[e]: the messages end e has sent
          got,      \* got[e]: the messages end e has accepted
          dead      \* dead[e]: end e can accept nothing more

vars == <<sent, got, dead>>

Init == /\ sent = [e \in End |-> <<>>]
        /\ got = [e \in End |-> <<>>]
        /\ dead = [e \in End |-> FALSE]

Send(e, m) == /\ sent' = [sent EXCEPT ![e] = Append(@, m)]
              /\ UNCHANGED <<got, dead>>

\* End e accepts the next message of end f that it has not accepted yet.
Accept(e, f) == /\ ~dead[e]
                /\ Len(got[e]) < Len(sent[f])
                /\ got' = [got EXCEPT ![e] = Append(@, sent[f][Len(got[e]) + 1])]
                /\ UNCHANGED <<sent, dead>>

Fail(e) == /\ dead' = [dead EXCEPT ![e] = TRUE]
           /\ UNCHANGED <<sent, got>>

Next == \/ \E e \in End, m \in Message : Send(e, m)
        \/ \E e, f \in End : e # f /\ Accept(e, f)
        \/ \E e \in End : Fail(e)

Spec == Init /\ [][Next]_vars
==============================================================================
