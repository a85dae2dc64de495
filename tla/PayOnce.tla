------------------------------- MODULE PayOnce -------------------------------
(***************************************************************************)
(* What the payout machinery promises about each piece of work, whatever   *)
(* crashes, lost answers, retries and write-offs happen on the way: it is  *)
(* paid by one transaction at a time, a second one is only built when the  *)
(* chain proved the first one moved nothing and the ledger wrote it off,   *)
(* and the ledger never calls settled what the chain has not executed.     *)
(***************************************************************************)
CONSTANT Works

VARIABLES
  money,  \* what the chain did: owed, moving, paid, or bounced (included and failed)
  row     \* what the ledger says: none, pending or done

Init ==
  /\ money = [w \in Works |-> "owed"]
  /\ row = [w \in Works |-> "none"]

Send(w) ==
  /\ money[w] = "owed" /\ row[w] = "none"
  /\ money' = [money EXCEPT ![w] = "moving"]
  /\ UNCHANGED row

Arrive(w) ==
  /\ money[w] = "moving"
  /\ \E outcome \in {"paid", "bounced"} : money' = [money EXCEPT ![w] = outcome]
  /\ UNCHANGED row

Record(w) ==
  /\ money[w] # "owed" /\ row[w] = "none"
  /\ row' = [row EXCEPT ![w] = "pending"]
  /\ UNCHANGED money

Confirm(w) ==
  /\ money[w] = "paid" /\ row[w] = "pending"
  /\ row' = [row EXCEPT ![w] = "done"]
  /\ UNCHANGED money

WriteOff(w) ==
  /\ money[w] = "bounced" /\ row[w] = "pending"
  /\ money' = [money EXCEPT ![w] = "owed"]
  /\ row' = [row EXCEPT ![w] = "none"]

Next == \E w \in Works : Send(w) \/ Arrive(w) \/ Record(w) \/ Confirm(w) \/ WriteOff(w)

Spec == Init /\ [][Next]_<<money, row>>
=============================================================================
