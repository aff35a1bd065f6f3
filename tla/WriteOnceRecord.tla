--------------------------- MODULE WriteOnceRecord ---------------------------
(***************************************************************************)
(* What a directory of write-once record files promises its callers: a    *)
(* record name holds nothing or the record of exactly one call, it is      *)
(* never replaced, and every call is told truthfully what became of its    *)
(* record.  Only a power loss, and only before the name was made durable,  *)
(* may empty a name again.                                                 *)
(***************************************************************************)
EXTENDS Naturals

CONSTANTS
  Calls,      \* the calls of writeOnceSyncV0, each with bytes of its own
  Names,      \* the record names
  None        \* the absence of a record

VARIABLES
  wants,      \* wants[c]: the name call c is to write, None before it begins
  held,       \* held[n]: the call whose record the name n holds, or None
  durable,    \* the names whose entry survives a power loss
  told        \* told[c]: what call c was told, or "pending"

vars == <<wants, held, durable, told>>

Answers == {"pending", "created", "exists", "failed"}

Init ==
  /\ wants = [c \in Calls |-> None]
  /\ held = [n \in Names |-> None]
  /\ durable = {}
  /\ told = [c \in Calls |-> "pending"]

(* A call asks for the record named n. *)
Ask(c, n) ==
  /\ wants[c] = None
  /\ wants' = [wants EXCEPT ![c] = n]
  /\ UNCHANGED <<held, durable, told>>

(* The wanted name is free and becomes c's. *)
Take(c) ==
  /\ wants[c] # None
  /\ held[wants[c]] = None
  /\ told[c] = "pending"
  /\ held' = [held EXCEPT ![wants[c]] = c]
  /\ UNCHANGED <<wants, durable, told>>

(* The entries of the names that are held become durable. *)
Keep ==
  /\ durable' = {n \in Names : held[n] # None}
  /\ UNCHANGED <<wants, held, told>>

Tell(c, answer) ==
  /\ wants[c] # None
  /\ told[c] = "pending"
  /\ told' = [told EXCEPT ![c] = answer]
  /\ UNCHANGED <<wants, held, durable>>

(* Told it created the record: the name holds it at that moment. *)
TellCreated(c) == Tell(c, "created") /\ held[wants[c]] = c

(* Told the name was taken: it holds another call's record. *)
TellExists(c) == Tell(c, "exists") /\ held[wants[c]] \notin {None, c}

(* Told nothing was written: the name does not hold its record. *)
TellFailed(c) == Tell(c, "failed") /\ held[wants[c]] # c

(* Power is lost: names that were not durable may be empty afterwards. *)
Lose ==
  /\ \E gone \in SUBSET (Names \ durable) :
       held' = [n \in Names |-> IF n \in gone THEN None ELSE held[n]]
  /\ durable' = {n \in Names : held'[n] # None}
  /\ UNCHANGED <<wants, told>>

Next ==
  \/ \E c \in Calls, n \in Names : Ask(c, n)
  \/ \E c \in Calls : Take(c)
  \/ Keep
  \/ \E c \in Calls : TellCreated(c) \/ TellExists(c) \/ TellFailed(c)
  \/ Lose

Spec == Init /\ [][Next]_vars
=============================================================================
