------------------------------ MODULE SlotPool ------------------------------
(***************************************************************************)
(* What SessionManager's cap on in-flight commands promises whoever goes    *)
(* through it: a slot is given while one is free, a caller is turned away   *)
(* only when none is, and whoever left never comes back.  Sessions          *)
(* implements it with a counter; Batch, whose tasks share the slots with    *)
(* other callers, sees the manager as this and no more.                     *)
(***************************************************************************)
EXTENDS Naturals, FiniteSets

CONSTANTS Caller, Slots

VARIABLES
  holding,  \* the callers that hold a slot
  left,     \* the callers that are over, whatever way they went
  refused,  \* those of them that were turned away
  others    \* slots held by callers that are not in Caller

pool == <<holding, left, refused, others>>

Free == Cardinality(holding) + others < Slots

Outside == Caller \ (holding \cup left)

Init == holding = {} /\ left = {} /\ refused = {} /\ others = 0

Admit(c) ==
  /\ c \in Outside /\ Free
  /\ holding' = holding \cup {c}
  /\ UNCHANGED <<left, refused, others>>

Refuse(c) ==
  /\ c \in Outside /\ ~Free
  /\ left' = left \cup {c}
  /\ refused' = refused \cup {c}
  /\ UNCHANGED <<holding, others>>

(* Callers go, with or without having held a slot; a cancellation takes     *)
(* several of them at once.                                                 *)
Leave(C) ==
  /\ C \cap left = {}
  /\ holding' = holding \ C
  /\ left' = left \cup C
  /\ UNCHANGED <<refused, others>>

OthersTake ==
  /\ Free
  /\ others' = others + 1
  /\ UNCHANGED <<holding, left, refused>>

OthersRelease ==
  /\ others > 0
  /\ others' = others - 1
  /\ UNCHANGED <<holding, left, refused>>

Next ==
  \/ \E c \in Caller : Admit(c) \/ Refuse(c)
  \/ \E C \in SUBSET Caller : Leave(C)
  \/ OthersTake
  \/ OthersRelease

Spec == Init /\ [][Next]_pool
=============================================================================
