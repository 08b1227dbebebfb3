------------------------------- MODULE Lifetimes -------------------------------
(***************************************************************************)
(* What the utility owes the sessions of its applications.  A session      *)
(* begins for a device that no other session serves; it ends once, by      *)
(* itself or with all others of its application, and never serves again;   *)
(* what it holds is released only after it has ended.                      *)
(***************************************************************************)

CONSTANTS
    Ids,        \* what tells sessions apart
    Clients,    \* the applications that ask for them
    Euis        \* the devices they serve

VARIABLES
    serving,    \* the sessions that serve their device
    ending,     \* those that have ended and are not yet released
    used        \* the Ids there have been

Session == [id : Ids, client : Clients, eui : Euis]

Of(c, sessions) == {s \in sessions : s.client = c}

Init == serving = {} /\ ending = {} /\ used = {}

Begin ==
    \E s \in Session :
        /\ s.id \notin used
        /\ \A t \in serving : t.eui # s.eui
        /\ serving' = serving \cup {s}
        /\ used' = used \cup {s.id}
        /\ UNCHANGED ending

\* The sessions of a set end.
End(sessions) ==
    /\ serving' = serving \ sessions
    /\ ending' = ending \cup sessions
    /\ UNCHANGED used

Finish == \E s \in serving : End({s})

ClientLeaves == \E c \in Clients : End(Of(c, serving))

\* An application is released with its sessions, once all of them have ended.
Release ==
    /\ \/ \E s \in ending : ending' = ending \ {s}
       \/ \E c \in Clients : Of(c, serving) = {} /\ ending' = ending \ Of(c, ending)
    /\ UNCHANGED <<serving, used>>

Next == Begin \/ Finish \/ ClientLeaves \/ Release

Spec == Init /\ [][Next]_<<serving, ending, used>>

=============================================================================
