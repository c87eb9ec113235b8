------------------------------ MODULE MCProxy ------------------------------
(* Two proxies and one or two channels with a few bytes each way. *)
EXTENDS Proxy

GuestSends2 == [guest |-> 2, host |-> 0]
GuestSends5 == [guest |-> 5, host |-> 0]

\* Bound: either two channels, which only the end of the line disturbs, or one,
\* whose programs may close as well.
NobodyClosed == \A s \in Side, c \in Channel : sock[s][c].st # "closed"
Bounded == NobodyClosed \/ next_channel_id <= 2

MCNext == Next /\ Bounded'
MCSpec == Init /\ [][MCNext]_vars
=============================================================================
