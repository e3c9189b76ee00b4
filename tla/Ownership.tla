----------------------------- MODULE Ownership -----------------------------
(***************************************************************************)
(* Who controls the device, as README.md 52 promises it: one client at a   *)
(* time, and the last one to connect wins.  A client that connects is      *)
(* granted control, once; it loses it when it has left or when a newer     *)
(* client asks for it.                                                     *)
(***************************************************************************)

CONSTANTS
  Clients,     (* the clients that may connect                             *)
  Nobody       (* no client                                                *)

VARIABLES
  owner,       (* the client in control, or Nobody                         *)
  asking,      (* the client that connects, or Nobody                      *)
  granted,     (* the clients that have been in control, the owner included*)
  gone         (* the clients that have left                               *)

ovars == <<owner, asking, granted, gone>>

OInit ==
  /\ owner = Nobody
  /\ asking = Nobody
  /\ granted = {}
  /\ gone = {}

Ask(c) ==
  /\ asking = Nobody
  /\ c \notin granted
  /\ asking' = c
  /\ UNCHANGED <<owner, granted, gone>>

Grant ==
  /\ owner = Nobody
  /\ asking # Nobody
  /\ owner' = asking
  /\ asking' = Nobody
  /\ granted' = granted \cup {asking}
  /\ UNCHANGED gone

Leave(c) ==
  /\ gone' = gone \cup {c}
  /\ UNCHANGED <<owner, asking, granted>>

Release ==
  /\ owner \in gone \/ (owner # Nobody /\ asking # Nobody)
  /\ owner' = Nobody
  /\ UNCHANGED <<asking, granted, gone>>

ONext == Grant \/ Release \/ \E c \in Clients : Ask(c) \/ Leave(c)

OSpec == OInit /\ [][ONext]_ovars

=============================================================================
