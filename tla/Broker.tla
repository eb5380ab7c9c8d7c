------------------------------- MODULE Broker -------------------------------
(***************************************************************************)
(* What the subsystem server promises its clients: data published on a     *)
(* topic (an "abo") reaches every client that subscribed to it, a command  *)
(* for a topic (SETDATA) reaches every client that supplies it, and        *)
(* neither comes back to its sender.  A client that leaves, or a topic     *)
(* that is dropped, loses all its links at once.                           *)
(*                                                                         *)
(* The module is the abstract specification; Subserver implements it.      *)
(***************************************************************************)

CONSTANTS
  Client,       \* the addresses packets may come from
  Topic         \* the names of the abos

VARIABLES
  subscribed,   \* who wants the data of what
  supplied,     \* who provides what
  delivered     \* the packets sent for the packet handled last

vars == <<subscribed, supplied, delivered>>

Init ==
  /\ subscribed = {}
  /\ supplied = {}
  /\ delivered = {}

Packets(kind, t, targets) == {[kind |-> kind, topic |-> t, to |-> d] : d \in targets}

\* Whoever publishes or commands a topic supplies it from then on.
Publish(c, t) ==
  /\ delivered' =
       Packets("data", t, {d \in Client \ {c} : <<d, t>> \in subscribed})
  /\ supplied' = supplied \union {<<c, t>>}
  /\ UNCHANGED subscribed

Command(c, t) ==
  /\ delivered' =
       Packets("setdata", t, {d \in Client \ {c} : <<d, t>> \in supplied})
  /\ supplied' = supplied \union {<<c, t>>}
  /\ UNCHANGED subscribed

Subscribe(c, t) ==
  /\ delivered' = {}
  /\ subscribed' = subscribed \union {<<c, t>>}
  /\ UNCHANGED supplied

Unsubscribe(c, t) ==
  /\ delivered' = {}
  /\ subscribed' = subscribed \ {<<c, t>>}
  /\ UNCHANGED supplied

Supply(c, t) ==
  /\ delivered' = {}
  /\ supplied' = supplied \union {<<c, t>>}
  /\ UNCHANGED subscribed

Unsupply(c, t) ==
  /\ delivered' = {}
  /\ supplied' = supplied \ {<<c, t>>}
  /\ UNCHANGED subscribed

\* The clients C leave, or the topics T are dropped, with all their links.  No
\* client at all is a packet that changes no link.
Leave(C) ==
  /\ delivered' = {}
  /\ subscribed' = {l \in subscribed : l[1] \notin C}
  /\ supplied' = {l \in supplied : l[1] \notin C}

Drop(T) ==
  /\ delivered' = {}
  /\ subscribed' = {l \in subscribed : l[2] \notin T}
  /\ supplied' = {l \in supplied : l[2] \notin T}

Next ==
  \/ \E c \in Client, t \in Topic :
       \/ Publish(c, t) \/ Command(c, t)
       \/ Subscribe(c, t) \/ Unsubscribe(c, t)
       \/ Supply(c, t) \/ Unsupply(c, t)
  \/ \E C \in SUBSET Client : Leave(C)
  \/ \E T \in SUBSET Topic : Drop(T)

Spec == Init /\ [][Next]_vars

=============================================================================
