----------------------------- MODULE OrderPromise -----------------------------
(***************************************************************************)
(* What the OMS promises of one client order id, without repository, tasks *)
(* or restarts: its order moves forward along the transition table, an     *)
(* ended order stays as it is, and the exchange sees the order at most     *)
(* once, while it is Submitted.  Oms implements this specification.        *)
(***************************************************************************)
EXTENDS OrderStates, Naturals

CONSTANT Clients

VARIABLES
  st,   \* client order id -> status of its order, "None" before there is one
  sent  \* client order id -> orders the exchange received for it

pvars == <<st, sent>>

(* One saved change may stand for two transitions (submit_order).          *)
OneHop(s) == {u \in OrderStatuses : <<s, u>> \in Transitions}
Later(s) == OneHop(s) \cup UNION {OneHop(u) : u \in OneHop(s)}

Open(c) ==
  /\ st[c] = "None"
  /\ st' = [st EXCEPT ![c] = "Created"]
  /\ UNCHANGED sent

Move(c) ==
  /\ st[c] \in OrderStatuses
  /\ \E s \in Later(st[c]) : st' = [st EXCEPT ![c] = s]
  /\ UNCHANGED sent

Deliver(c) ==
  /\ st[c] = "Submitted" /\ sent[c] = 0
  /\ sent' = [sent EXCEPT ![c] = 1]
  /\ UNCHANGED st

PromiseInit ==
  /\ st = [c \in Clients |-> "None"]
  /\ sent = [c \in Clients |-> 0]

PromiseNext == \E c \in Clients : Open(c) \/ Move(c) \/ Deliver(c)

PromiseSpec == PromiseInit /\ [][PromiseNext]_pvars
================================================================================
