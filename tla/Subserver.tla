----------------------------- MODULE Subserver ------------------------------
(***************************************************************************)
(* The subsystem server (subsystem/server.cpp, subserver.cpp and the       *)
(* classes abo and clientinfo), through which every agente and every       *)
(* client program talks: a loop that takes one UDP packet after the other. *)
(*                                                                         *)
(* Clients and abos are kept in two arrays of pointers, and the n:m links  *)
(* between them are kept twice, in the client (supply, subscription) and   *)
(* in the abo (supplier, subscriber); the data is forwarded by the second. *)
(* An slist is a set here: its elements are unique and nothing depends on  *)
(* their order.  The arrays keep their order, because the commands that    *)
(* delete from them iterate over them at the same time.                    *)
(*                                                                         *)
(* Not modelled: the identifiers of the clients (a removal by identifier   *)
(* may meet any of them), the lists the management commands print, and     *)
(* the flags and the log of an abo.  The arrays never overflow: there are  *)
(* at most as many addresses and names as they have room for.              *)
(*                                                                         *)
(* A definition headed "Deviation" is the next definition with a mistake   *)
(* in it; the properties must notice it.                                   *)
(***************************************************************************)
EXTENDS Naturals, Sequences, FiniteSets

CONSTANTS
  Address,      \* the addresses of the clients
  Name          \* the names of the abos

\* The arrays have room for every address and every name.
ASSUME FiniteNetwork == IsFiniteSet(Address) /\ IsFiniteSet(Name)

VARIABLES
  clients,      \* clientinfo::list and the myindex of every clientinfo
  abos,         \* abo::list and the myindex of every abo
  supply,       \* clientinfo::supply: the abos a client supplies
  subscription, \* clientinfo::subscription
  supplier,     \* abo::supplier: the clients that supply an abo
  subscriber,   \* abo::subscriber
  sent          \* the packets forwarded for the packet handled last

links == <<supply, subscription, supplier, subscriber>>
vars == <<clients, abos, supply, subscription, supplier, subscriber, sent>>

-----------------------------------------------------------------------------
(* The arrays.  An object remembers its index; 0 stands for no object.     *)

\* Deviation: the lookup is forgotten.
RegisterAgain(r, x) ==
  [list  |-> Append(r.list, x),
   index |-> [r.index EXCEPT ![x] = Len(r.list) + 1]]

Register(r, x) ==
  IF r.index[x] # 0 THEN r
  ELSE [list  |-> Append(r.list, x),
        index |-> [r.index EXCEPT ![x] = Len(r.list) + 1]]

\* Deviation: the object that moves keeps its old index.
DeleteOnly(r, i) ==
  LET last == Len(r.list)
  IN [list  |-> SubSeq([r.list EXCEPT ![i] = r.list[last]], 1, last - 1),
      index |-> [r.index EXCEPT ![r.list[i]] = 0]]

\* The destructor: the last object takes the place of the deleted one.
DeleteAt(r, i) ==
  LET last == Len(r.list)
  IN [list  |-> SubSeq([r.list EXCEPT ![i] = r.list[last]], 1, last - 1),
      index |-> [r.index EXCEPT ![r.list[last]] = i, ![r.list[i]] = 0]]

\* "for (i=0; i<n; i++) if (...) delete list[i]", where the object that takes
\* the place of a deleted one is not looked at any more.
Looked(s, i, doomed) ==
  IF i <= Len(s.list) /\ s.list[i] \in doomed THEN DeleteAt(s, i) ELSE s

Sweep(r, doomed) ==
  LET after[i \in 0..Len(r.list)] ==
        IF i = 0 THEN r ELSE Looked(after[i - 1], i, doomed)
  IN after[Len(r.list)]

Objects(r) == {r.list[i] : i \in 1..Len(r.list)}

Registry(S) == [list : Seq(S), index : [S -> 0..Cardinality(S)]]

Empty(S) == [list |-> << >>, index |-> [x \in S |-> 0]]

Packets(kind, n, targets) == {[kind |-> kind, topic |-> n, to |-> d] : d \in targets}

TypeOK ==
  /\ clients \in Registry(Address)
  /\ abos \in Registry(Name)
  /\ supply \in [Address -> SUBSET Name]
  /\ subscription \in [Address -> SUBSET Name]
  /\ supplier \in [Name -> SUBSET Address]
  /\ subscriber \in [Name -> SUBSET Address]
  /\ sent \subseteq [kind : {"data", "setdata"}, topic : Name, to : Address]

Init ==
  /\ clients = Empty(Address)
  /\ abos = Empty(Name)
  /\ supply = [c \in Address |-> {}]
  /\ subscription = [c \in Address |-> {}]
  /\ supplier = [n \in Name |-> {}]
  /\ subscriber = [n \in Name |-> {}]
  /\ sent = {}

-----------------------------------------------------------------------------
(* The links *)

AddSupply(c, n) ==
  /\ supply' = [supply EXCEPT ![c] = @ \union {n}]
  /\ supplier' = [supplier EXCEPT ![n] = @ \union {c}]

\* The destructor of a client takes it out of the abos in its own lists.
ForgetClients(gone) ==
  /\ supplier' = [n \in Name |->
       {c \in supplier[n] : ~(c \in gone /\ n \in supply[c])}]
  /\ subscriber' = [n \in Name |->
       {c \in subscriber[n] : ~(c \in gone /\ n \in subscription[c])}]
  /\ supply' = [c \in Address |-> IF c \in gone THEN {} ELSE supply[c]]
  /\ subscription' =
       [c \in Address |-> IF c \in gone THEN {} ELSE subscription[c]]

\* Deviation: the subscribers are not told.
ForgetSupplied(gone) ==
  /\ supply' = [c \in Address |->
       {n \in supply[c] : ~(n \in gone /\ c \in supplier[n])}]
  /\ supplier' = [n \in Name |-> IF n \in gone THEN {} ELSE supplier[n]]
  /\ subscriber' = [n \in Name |-> IF n \in gone THEN {} ELSE subscriber[n]]
  /\ UNCHANGED subscription

\* The destructor of an abo takes it out of the clients in its own lists.
ForgetAbos(gone) ==
  /\ supply' = [c \in Address |->
       {n \in supply[c] : ~(n \in gone /\ c \in supplier[n])}]
  /\ subscription' = [c \in Address |->
       {n \in subscription[c] : ~(n \in gone /\ c \in subscriber[n])}]
  /\ supplier' = [n \in Name |-> IF n \in gone THEN {} ELSE supplier[n]]
  /\ subscriber' = [n \in Name |-> IF n \in gone THEN {} ELSE subscriber[n]]

-----------------------------------------------------------------------------
(* One packet of client c *)

\* A packet for abo n: the client and the abo are looked up or created.
Known(c, n) ==
  /\ clients' = Register(clients, c)
  /\ abos' = Register(abos, n)

\* PKT_DATA; it falls through to PKT_SUPPLY.
Data(c, n) ==
  /\ Known(c, n)
  /\ sent' = Packets("data", n, subscriber[n] \ {c})
  /\ AddSupply(c, n)
  /\ UNCHANGED <<subscription, subscriber>>

\* Deviation: the command goes to the subscribers, as data does.
SetSubscribers(c, n) ==
  /\ Known(c, n)
  /\ sent' = Packets("setdata", n, subscriber[n] \ {c})
  /\ AddSupply(c, n)
  /\ UNCHANGED <<subscription, subscriber>>

\* PKT_SETDATA; it falls through to PKT_SUPPLY.
SetData(c, n) ==
  /\ Known(c, n)
  /\ sent' = Packets("setdata", n, supplier[n] \ {c})
  /\ AddSupply(c, n)
  /\ UNCHANGED <<subscription, subscriber>>

Supply(c, n) ==
  /\ Known(c, n)
  /\ sent' = {}
  /\ AddSupply(c, n)
  /\ UNCHANGED <<subscription, subscriber>>

Unsupply(c, n) ==
  /\ Known(c, n)
  /\ sent' = {}
  /\ supply' = [supply EXCEPT ![c] = @ \ {n}]
  /\ supplier' = [supplier EXCEPT ![n] = @ \ {c}]
  /\ UNCHANGED <<subscription, subscriber>>

Subscribe(c, n) ==
  /\ Known(c, n)
  /\ sent' = {}
  /\ subscription' = [subscription EXCEPT ![c] = @ \union {n}]
  /\ subscriber' = [subscriber EXCEPT ![n] = @ \union {c}]
  /\ UNCHANGED <<supply, supplier>>

\* Deviation: only the client forgets the subscription.
UnsubscribeHalf(c, n) ==
  /\ Known(c, n)
  /\ sent' = {}
  /\ subscription' = [subscription EXCEPT ![c] = @ \ {n}]
  /\ UNCHANGED <<supply, supplier, subscriber>>

Unsubscribe(c, n) ==
  /\ Known(c, n)
  /\ sent' = {}
  /\ subscription' = [subscription EXCEPT ![c] = @ \ {n}]
  /\ subscriber' = [subscriber EXCEPT ![n] = @ \ {c}]
  /\ UNCHANGED <<supply, supplier>>

\* PKT_CLIENTTERM deletes the client, which may have been created for it.
ClientTerm(c) ==
  /\ LET known == Register(clients, c)
     IN clients' = DeleteAt(known, known.index[c])
  /\ ForgetClients({c})
  /\ sent' = {}
  /\ UNCHANGED abos

\* An invalid packet, setid, or a command without effect on the links still
\* creates the client.
OtherPacket(c) ==
  /\ clients' = Register(clients, c)
  /\ sent' = {}
  /\ UNCHANGED <<abos, links>>

\* log, time, unique and their opposites look up the abo they set a flag of.
Configure(c, n) ==
  /\ Known(c, n)
  /\ sent' = {}
  /\ UNCHANGED links

\* rmc: remove the clients with an address or an identifier; since clients
\* choose their identifiers, those may be any of them.
RemoveClients(c) ==
  \E doomed \in SUBSET Address :
    LET known == Register(clients, c)
        left  == Sweep(known, doomed)
    IN /\ clients' = left
       /\ ForgetClients(Objects(known) \ Objects(left))
       /\ sent' = {}
       /\ UNCHANGED abos

RemoveAbosIn(c, doomed) ==
  LET left == Sweep(abos, doomed)
  IN /\ clients' = Register(clients, c)
     /\ abos' = left
     /\ ForgetAbos(Objects(abos) \ Objects(left))
     /\ sent' = {}

\* rma with the name of an abo
RemoveAbo(c) == \E n \in Name : RemoveAbosIn(c, {n})

\* rma unsupplied
RemoveUnsupplied(c) == RemoveAbosIn(c, {n \in Name : supplier[n] = {}})

Next ==
  \E c \in Address :
    \/ ClientTerm(c) \/ OtherPacket(c)
    \/ RemoveClients(c) \/ RemoveAbo(c) \/ RemoveUnsupplied(c)
    \/ \E n \in Name :
         \/ Data(c, n) \/ SetData(c, n)
         \/ Supply(c, n) \/ Unsupply(c, n)
         \/ Subscribe(c, n) \/ Unsubscribe(c, n)
         \/ Configure(c, n)

Spec == Init /\ [][Next]_vars

-----------------------------------------------------------------------------
(* Properties *)

\* The two halves of the n:m structure of clientinfo and abo agree, whatever
\* was linked, unlinked and deleted from either side.
LinksAgree ==
  \A c \in Address, n \in Name :
    /\ n \in supply[c] <=> c \in supplier[n]
    /\ n \in subscription[c] <=> c \in subscriber[n]

\* Only objects that are in the arrays are linked: neither do they keep a
\* pointer to something that was deleted, nor does a deleted one keep links.
NothingDangles ==
  /\ \A c \in Address :
       /\ supply[c] \union subscription[c] \subseteq Objects(abos)
       /\ supply[c] \union subscription[c] # {} => c \in Objects(clients)
  /\ \A n \in Name :
       /\ supplier[n] \union subscriber[n] \subseteq Objects(clients)
       /\ supplier[n] \union subscriber[n] # {} => n \in Objects(abos)

\* An object is in its array once, where its index says, and nobody else
\* believes to be in an array: the lookup finds the object it looks for.
Indexed(r, S) ==
  /\ \A i \in 1..Len(r.list) : r.index[r.list[i]] = i
  /\ \A x \in S : r.index[x] # 0 => x \in Objects(r)

ArraysSound == Indexed(clients, Address) /\ Indexed(abos, Name)

\* rma unsupplied removes every abo that nobody supplies, as its help says.
UnsuppliedRemoved ==
  [][\A c \in Address : RemoveUnsupplied(c) =>
       \A n \in Objects(abos)' : supplier'[n] # {}]_vars

-----------------------------------------------------------------------------
(* Subserver implements Broker: the links of the abstraction are those the *)
(* clients hold, the deliveries those made from the lists of the abos.     *)

Server == INSTANCE Broker WITH
  Client     <- Address,
  Topic      <- Name,
  subscribed <- {l \in Address \X Name : l[2] \in subscription[l[1]]},
  supplied   <- {l \in Address \X Name : l[2] \in supply[l[1]]},
  delivered  <- sent

ServerSpec == Server!Spec

=============================================================================
