--------------------------- MODULE MCIncomingMail ---------------------------
(***************************************************************************)
(* Instances of IncomingMail: who writes to which lists.                   *)
(***************************************************************************)
EXTENDS IncomingMail, TLC

CONSTANTS m1, m2,               \* messages
          closed, talk, leaders, empty, \* addresses
          u1, u2, u3, u4,       \* people
          w1, w2                \* workers

\* One mail to an address closed to the sender and to two lists, which cannot be
\* encoded for one of the people; and one that comes with a Reply-To, also to a list
\* on which nobody has an address.
ToThree == (m1 :> <<closed, talk, leaders>> @@ m2 :> <<empty, talk>>)
Kind == closed :> "denied" @@ talk :> "reply list" @@ leaders :> "plain list"
            @@ empty :> "plain list"
People == closed :> {u1} @@ talk :> {u1, u3} @@ leaders :> {u1, u2, u3, u4}
            @@ empty :> {u3}
Bad == {<<m1, {u4}>>}

=============================================================================
